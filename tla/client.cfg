\* Every datagram arrives once, in any order: nothing goes wrong.
SPECIFICATION Spec
CONSTANTS
    PACKET_SIZE = 3
    HEADER_SIZE = 1
    InFlight <- TwoFrames
    MaxReceives = 3
    None = None
INVARIANTS
    TypeOK
    PopUnderMutexNeverBlocks
    HandedOverIsWhole
    FrameBufferAlive
PROPERTIES
    EachFrameShown
    QuitTerminates
CHECK_DEADLOCK FALSE
