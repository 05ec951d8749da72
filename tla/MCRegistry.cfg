CONSTANTS
    c1 = c1
    c2 = c2
    k1 = k1
    k2 = k2
    a1 = a1
    a2 = a2
    Channels <- TwoChannels
    Chats <- TwoChats
    Actors <- TwoActors
    Migrations <- OneMigration
    NotProtected = NotProtected
    NoJob = NoJob
    NoChat = NoChat
    NoChannel = NoChannel
    Free = Free
    MaxFailures = 1
    MaxRestarts = 1
    MaxMigrations = 2
SPECIFICATION Spec
CONSTRAINT OneThingAtATime
SYMMETRY RegistrySymmetry
INVARIANTS
    TypeOK
    TickerInSync
    ControlMatches
    StorageMatches
    ProtectionIsStored
    RemovalIsFinal
