\* A chunk longer than PIPE_BUF can be written in part.
CONSTANTS
    PipeBuf = 1
    PendingBound = 3
    PipeCap = 3
    ChunkSizes = {1, 2}
    MaxOffered = 8
SPECIFICATION Spec
CHECK_DEADLOCK FALSE
PROPERTY WholeChunks
