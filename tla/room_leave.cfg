\* A client that leaves its room takes the server down.
SPECIFICATION Safety
CONSTANTS
    h1 = h1
    h2 = h2
    c1 = c1
    lobby = lobby
    Hosts = {h1}
    Clients = {c1}
    Guessers = {}
    RoomOf <- OneRoom
    Faults = {"leave"}
    Absent = Absent
    Null = Null
    Crashed = Crashed
INVARIANTS
    NoCrash
CHECK_DEADLOCK FALSE
