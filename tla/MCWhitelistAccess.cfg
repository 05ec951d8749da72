CONSTANTS
    u1 = u1
    u2 = u2
    m1 = m1
    m2 = m2
    Users <- OneUser
    Managers <- OneManager
    Reminder = reminder
    NoEntry = NoEntry
    NoWrite = NoWrite
    NotLoaded = NotLoaded
    Terms <- EndOrNot
    ReviewTTL = 2
    RemindBefore = 1
    RemindEvery = 1
    MaxTime = 2
    MaxFailures = 0
    MaxRestarts = 0
SPECIFICATION Spec
PROPERTY AccessEndsByTermOrAdministrator
