CONSTANTS
    alice = alice
    bob = bob
    k1 = k1
    c1 = c1
    r1 = r1
    r2 = r2
    People <- TwoPeople
    Chats <- OneChat
    Channels <- OneChannel
    Requests <- TwoRequests
    Tasks <- Both
    AdminFronts = {"command", "dashboard"}
    Configured <- OwnerComes
    AdminCacheTTL = 1
    Latency = 1
    EmployeeWindow = 1
    MiniAppSession = 0
    Absent = Absent
    Idle = Idle
    Silent = Silent
    NoChat = NoChat
    MaxNow = 3
    MaxChanges = 1
    MaxRestarts = 1
SPECIFICATION Spec
CONSTRAINT OneThingAtATime
SYMMETRY RequestSymmetry
CHECK_DEADLOCK FALSE
INVARIANTS
    TypeOK
    ActsAreEntitled
    LeaverLosesTheApp
    OnlyControlChatsAct
PROPERTIES
    AdminAnswersAreRecent
    ManagersAreKept
