SPECIFICATION Spec
CONSTANTS
    Sockets = {s1, s2, s3}
    NoSocket = NoSocket
    Servers = {"A"}
    CurrentServer <- MCCurrentServer
    Reasons = {"mkdir"}
    Paths <- MCPaths
    Inclusive = {FALSE, TRUE}
    MaxHandles = 3
    MaxLength = 3
    MaxWakeups = 1
SYMMETRY MCSymmetry
INVARIANTS MutualExclusion NoLostWakeup HandlesValid
PROPERTIES HandleStable
CHECK_DEADLOCK FALSE
