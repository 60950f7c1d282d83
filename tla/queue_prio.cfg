\* The priority queue of the bitmaps with a caller of Clear, a finite timeout and a semaphore that can fill up.
SPECIFICATION Spec
CONSTANTS
    p1 = p1
    p2 = p2
    c1 = c1
    c2 = c2
    k1 = k1
    r1 = r1
    Nobody = Nobody
    NoResult = NoResult
    Done = Done
    EmptyQueue = EmptyQueue
    TimedOut = TimedOut
    ReleaseFailed = ReleaseFailed
    Producers = {p1, p2}
    Consumers = {c1}
    Clearers = {k1}
    Readers = {}
    Item <- ThreeItems
    Prioritised = TRUE
    Timed = TRUE
    MaxSem = 2
    Capacity = 2
INVARIANTS
    NoStrandedItem
PROPERTIES
    PopTakesLeast
    ImplementsQueue
