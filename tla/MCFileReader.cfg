SPECIFICATION Spec
CONSTANTS
    BufferCount = 2
    BufferSize = 2
    FileSize = 4
    Offsets = {0, 1}
    MaxSizes <- MCMaxSizes
    nosize = nosize
    Handlers = {h1, h2}
    NoHandler = NoHandler
    MaxSeeks = 1
INVARIANTS HoldingIntact
PROPERTIES ImplementsReadStream WaitEnds
CHECK_DEADLOCK FALSE
