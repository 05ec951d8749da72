CONSTANTS
    u1 = u1
    u2 = u2
    p1 = p1
    p2 = p2
    p3 = p3
    Users <- OneUser
    Callers <- ThreeCallers
    TTL = 1
    Latency = 1
    Absent = Absent
    NoCall = NoCall
    Silent = Silent
    MaxNow = 3
    MaxChanges = 2
SPECIFICATION Spec
SYMMETRY VerdictSymmetry
PROPERTIES
    ImplementsVerdicts
    UncrossedRecheckAsksSource
