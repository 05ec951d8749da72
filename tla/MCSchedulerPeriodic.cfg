CONSTANTS
    c1 = c1
    c2 = c2
    w1 = w1
    w2 = w2
    s1 = s1
    s2 = s2
    Channels <- OneChannel
    Workers <- OneWorker
    Senders <- Nobody
    QueueCap = 1
    Automatic <- Nobody
    MaxTickers = 1
    MaxCloses = 0
    Shutdowns = FALSE
    Settings <- OnOff
    Commands <- ScanOnly
SPECIFICATION FairSpec
PROPERTY
    AutoScanIsPeriodic
