SPECIFICATION PartsSpec
CONSTANTS
    s1 = s1
    s2 = s2
    MaxConns = 3
    MaxFailures = 1
    Socks = {s1, s2}
    INVALID_SOCKET = INVALID_SOCKET
    Absent = Absent
    Null = Null
    Nobody = Nobody
    Crashed = Crashed
    o1 = o1
    o2 = o2
    o3 = o3
    Objects = {o1, o2, o3}
    Handles = {1, 2, 3}
    Invalid = Invalid
    Unset = Unset
    Layouts <- SomeLayouts
    MaxEvents = 2
    Garbage = Garbage
    Sleepers = {t1, t2}
    NoThread = NoThread
    MaxSleeps = 2
    Listeners = {l1, l2}
    NoListener = NoListener
    MaxActions = 2
    MaxListeners = 2
    Guests = {g1, g2}
    FieldSize = 2
    Clients <- SomeClients
INVARIANTS
    PartsTypeOK
    OwnSocketOnly
    KillFindsThread
    NoSharedSocket
    NothingLeaks
    SentAsHooked
    SectionIsReturned
    QueueBehindSection
    RoomsMeet
PROPERTIES
    StoppedHandlersEnd
    EventsAreSent
    SleepReturns
    RequestReturns
CHECK_DEADLOCK FALSE
