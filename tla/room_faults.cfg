\* Two hosts give their room one name, with everything a peer may do beyond the usual order.
SPECIFICATION Safety
CONSTANTS
    h1 = h1
    h2 = h2
    c1 = c1
    lobby = lobby
    Hosts = {h1, h2}
    Clients = {c1}
    Guessers = {}
    RoomOf <- OneRoom
    Faults = {"early", "together", "late", "leave", "reset", "hostLeave", "hostReset"}
    Absent = Absent
    Null = Null
    Crashed = Crashed
INVARIANTS
    PunchIsMutual
CHECK_DEADLOCK FALSE
