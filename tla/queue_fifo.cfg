\* The FIFO queue of VideoHost and VideoClient: nobody calls Clear, Pop waits for ever.
SPECIFICATION Spec
CONSTANTS
    p1 = p1
    p2 = p2
    c1 = c1
    c2 = c2
    k1 = k1
    r1 = r1
    Nobody = Nobody
    NoResult = NoResult
    Done = Done
    EmptyQueue = EmptyQueue
    TimedOut = TimedOut
    ReleaseFailed = ReleaseFailed
    Producers = {p1, p2}
    Consumers = {c1, c2}
    Clearers = {}
    Readers = {r1}
    Item <- TwoItems
    Prioritised = FALSE
    Timed = FALSE
    MaxSem = 2
    Capacity = 2
INVARIANTS
    TypeOK
    LockInv
    NoErrorWithoutClear
PROPERTIES
    ImplementsQueue
