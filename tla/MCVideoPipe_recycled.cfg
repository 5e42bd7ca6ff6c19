\* Another thread of the process opens descriptors meanwhile.
CONSTANTS
    PipeBuf = 1
    PendingBound = 3
    PipeCap = 3
    ChunkSizes = {1, 2}
    MaxOffered = 8
SPECIFICATION Spec
CHECK_DEADLOCK FALSE
PROPERTY ClosesOwnDescriptor
