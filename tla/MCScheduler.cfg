CONSTANTS
    c1 = c1
    c2 = c2
    w1 = w1
    w2 = w2
    s1 = s1
    s2 = s2
    Channels <- TwoChannels
    Workers <- OneWorker
    Senders <- OneSender
    QueueCap = 1
    Automatic <- OneChannel
    MaxTickers = 2
    MaxCloses = 1
    Shutdowns = TRUE
    Settings <- OnOff
    Commands <- ScanOnly
SPECIFICATION SchedulerSpec
CONSTRAINT Slices
INVARIANT
    TypeOK
PROPERTIES
    TicksGoToTheirChannel
    ShutdownIsServed
    WokenSchedulerServesAll
