CONSTANTS
    u1 = u1
    u2 = u2
    m1 = m1
    Users <- OneUser
    Bot = bot
    Managers <- OneManager
    Loop = loop
    NoJob = NoJob
    NotLoaded = NotLoaded
    MaxAsks = 2
    MaxChanges = 1
    MaxFailures = 1
    MaxRestarts = 1
SPECIFICATION FairSpec
INVARIANTS
    TypeOK
    OpenIsKept
    KeptIsOpen
PROPERTY
    PassingAreLetIn
