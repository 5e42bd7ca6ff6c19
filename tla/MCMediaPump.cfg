\* One leading packet; kernel pipes of one byte, and a queue in front of each
\* that holds one chunk too many once a second chunk comes; FFmpeg
\* wants two bytes of video before it opens the audio.
CONSTANTS
    PipeBuf = 1
    Nobody = nobody
    AudioBound = 0
    AudioCap = 1
    AudioChunks = {1}
    MaxAudio = 2
    VideoBound = 1
    VideoCap = 1
    VideoChunks = {1, 2}
    MaxVideo = 3
    Prefix = 1
    Stall = 1
    Probe = 2
    Lead = 0
SPECIFICATION Spec
CHECK_DEADLOCK FALSE
INVARIANTS VideoAccounted TearsDown
PROPERTIES AudioContract PumpReturns VideoNotHeld AbortEndsPump
