\* Two frames over a network that loses and duplicates; the ack thread may overflow.
SPECIFICATION Spec
CONSTANTS
    PACKET_SIZE = 3
    DEFAULT_FRAME_SIZE = 5
    HEADER_SIZE = 1
    WORD_SIZE = 3
    RECENT_PACKETS_SIZE = 2
    FrameSizes <- UpToFourPackets
    MaxFrames = 2
    MaxDatagrams = 2
    Faults = {"lose", "duplicate"}
INVARIANTS
    TypeOK
    NothingForgotten
    OnlyFirstFrameMischunked
PROPERTIES
    EventuallyReleased
    FramesLeftWhole
CHECK_DEADLOCK FALSE
