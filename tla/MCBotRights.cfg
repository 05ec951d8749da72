CONSTANTS
    loop = loop
    Sweepers <- JustTheLoop
    Loop = loop
    NoAnswer = NoAnswer
    MaxChanges = 2
    MaxAdds = 2
    MaxFaults = 1
SPECIFICATION FairSpec
INVARIANTS
    TypeOK
    KnownMatches
PROPERTIES
    RightsSettle
    ConnectingEnds
    ShareIsAnswered
    TroubleIsAnnounced
CHECK_DEADLOCK FALSE
CONSTRAINT ThreeEvents
