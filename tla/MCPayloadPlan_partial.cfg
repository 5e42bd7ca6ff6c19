CONSTANTS
    MaxSessions = 1
    Cameras <- RtpCameras
    PrefixPackets = 2
    WindowPackets = 1
    PacketSizes = {1}
    TsPacketSize = 2
    MaxPending = 80
    MaxParameterSet = 12
    MaxSetsPerType = 2
    MaxSetsBytes = 100
    PesLengthMax = 32
SPECIFICATION Spec
CHECK_DEADLOCK FALSE
INVARIANT CacheIsComplete
