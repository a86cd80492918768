SPECIFICATION SessionSpec
CONSTANTS
    TwoGB = 2
    FourGB = 4
    MaxSize = 5
    SizeUnknown = FALSE
    Bugs <- AllBugs
    MaxCommands = 2
INVARIANTS TransfersAsMeant ResumesWhereMeant ResumeBugIsReal
