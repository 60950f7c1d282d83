\* The host resends what the client has received already; the client counts it again.
SPECIFICATION Spec
CONSTANTS
    PACKET_SIZE = 3
    DEFAULT_FRAME_SIZE = 5
    HEADER_SIZE = 1
    WORD_SIZE = 4
    RECENT_PACKETS_SIZE = 2
    FrameSizes <- TwoPackets
    MaxFrames = 1
    MaxDatagrams = 4
    MaxReceives = 2
    None = None
INVARIANTS
    FinishedFramesOnly
CHECK_DEADLOCK FALSE
