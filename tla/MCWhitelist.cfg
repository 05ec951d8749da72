CONSTANTS
    u1 = u1
    u2 = u2
    m1 = m1
    m2 = m2
    Users <- OneUser
    Managers <- OneManager
    Reminder = reminder
    NoEntry = NoEntry
    NoWrite = NoWrite
    NotLoaded = NotLoaded
    Terms <- EndOrNot
    ReviewTTL = 2
    RemindBefore = 1
    RemindEvery = 1
    MaxTime = 3
    MaxFailures = 1
    MaxRestarts = 1
SPECIFICATION FairSpec
INVARIANTS
    TypeOK
    WriteThrough
PROPERTIES
    ApprovalsAreTheAdministrators EndedEntryIsDropped
