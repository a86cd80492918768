SPECIFICATION Spec
CONSTANTS
    Names <- MCNames
    Tree <- MCTree
    Start <- MCStart
    Selections <- MCSelections
    Opened <- MCOpened
    Filtered = {}
    NoPath = NoPath
    MaxStarts = 2
    MaxLists = 1
    MaxFaults = 1
INVARIANTS
    ActsInReach
    QueuedWhereMeant
    CompleteWhenFinished
PROPERTIES
    RecursionEnds
CHECK_DEADLOCK FALSE
