SPECIFICATION Spec
CONSTANTS
    MaxOperations = 10
    MaxDepth = 3
    MaxRounds = 8
INVARIANTS RightReply CountsAgree TimersRun
PROPERTIES OperationsEnd
CHECK_DEADLOCK FALSE
