CONSTANTS
    u1 = u1
    u2 = u2
    s1 = s1
    s2 = s2
    Users <- OneUser
    Sessions <- OneSession
    Verdicts <- BadOnly
    StoreCap = 2
    MaxJobs = 2
    MaxChanges = 1
    NotSeen = NotSeen
    NoCheck = NoCheck
    Idle = Idle
SPECIFICATION FairSpec
INVARIANT
    TypeOK
PROPERTIES
    ScansEnd
CHECK_DEADLOCK FALSE
