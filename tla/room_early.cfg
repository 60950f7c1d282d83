\* A client that comes before its host leaves the host without a room.
SPECIFICATION Safety
CONSTANTS
    h1 = h1
    h2 = h2
    c1 = c1
    lobby = lobby
    Hosts = {h1}
    Clients = {c1}
    Guessers = {}
    RoomOf <- OneRoom
    Faults = {"early"}
    Absent = Absent
    Null = Null
    Crashed = Crashed
INVARIANTS
    HostOwnsRoom
CHECK_DEADLOCK FALSE
