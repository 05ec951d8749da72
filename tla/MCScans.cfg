CONSTANTS
    u1 = u1
    u2 = u2
    s1 = s1
    s2 = s2
    Users <- TwoUsers
    Sessions <- TwoSessions
    Verdicts <- BadOnly
    StoreCap = 2
    MaxJobs = 1
    MaxChanges = 0
    NotSeen = NotSeen
    NoCheck = NoCheck
    Idle = Idle
SPECIFICATION Spec
VIEW ScansView
SYMMETRY ScansSymmetry

    
PROPERTIES
    
    KickedStaysKicked
CHECK_DEADLOCK FALSE
