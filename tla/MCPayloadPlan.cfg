CONSTANTS
    MaxSessions = 2
    Cameras <- MCCameras
    PrefixPackets = 2
    WindowPackets = 2
    PacketSizes = {1, 2, 5, 20}
    TsPacketSize = 2
    MaxPending = 80
    MaxParameterSet = 12
    MaxSetsPerType = 2
    MaxSetsBytes = 100
    PesLengthMax = 32
SPECIFICATION Spec
CHECK_DEADLOCK FALSE
INVARIANTS TypeOK EveryPacketOnce AudioPlays CodecIsTheStreams FindsTheSets PreludeReadsBack
PROPERTY WindowCloses
