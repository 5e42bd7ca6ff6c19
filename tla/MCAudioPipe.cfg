\* Chunks up to PIPE_BUF: every os.write is all or nothing.
CONSTANTS
    Threads = {pump, watchdog, main}
    Nobody = nobody
    PipeBuf = 2
    PendingBound = 3
    PipeCap = 3
    ChunkSizes = {1, 2}
    MaxOffered = 8
SPECIFICATION Spec
CHECK_DEADLOCK FALSE
INVARIANTS TypeOK Accounted DescriptorSafe Bounded CountIsFinal
PROPERTIES WholeFrames KeepsPromise
