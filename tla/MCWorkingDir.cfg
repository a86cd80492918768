SPECIFICATION Spec
CONSTANTS
    None = None
    Names = {"a", "b"}
    Link = "l"
    LinkTarget <- TheTarget
    Engines = {e1, e2}
    Requests <- AllRequests
    Servers <- TwoServers
    MaxDepth = 2
    MaxCommands = 3
    MaxFaults = 1
CONSTRAINT Unraced
SYMMETRY Alike
CHECK_DEADLOCK FALSE
INVARIANTS BeliefsAreTrue ActsWhereMeant MadeExists
