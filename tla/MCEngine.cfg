SPECIFICATION EngineSpec
CONSTANTS
    MaxCommands = 2
    MaxCancels = 1
    MaxRequests = 2
    MaxDepth = 3
    MaxRounds = 3
    OtherFailures = 1
    ReconnectCount = 2
    PatientClient = TRUE
INVARIANTS NoOrphans
PROPERTIES ReplyGoesToAsker EveryCommandAnswered
CHECK_DEADLOCK FALSE
