SPECIFICATION Spec
CONSTANTS
    BufferCount = 2
    BufferSize = 2
    MaxBlocks = 4
    Handlers = {h1, h2}
    NoHandler = NoHandler
INVARIANTS CleanEnd
PROPERTIES ImplementsWriteStream WaitEnds
CHECK_DEADLOCK FALSE
