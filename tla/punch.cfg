\* The order of the README: the room, then the clients one after the other, then the start.
SPECIFICATION PunchSpec
CONSTANTS
    h1 = h1
    c1 = c1
    c2 = c2
    lobby = lobby
    Hosts = {h1}
    Clients = {c1, c2}
    Guessers = {}
    RoomOf <- OneRoom
    Faults = {}
    Absent = Absent
    Null = Null
    Crashed = Crashed
    Server = Server
    Lossy = {c1, c2}
INVARIANTS
    PunchTypeOK
    DismissedIsLeaving
    NobodyStranded
    AddressesInPlace
PROPERTIES
    HandlersReturn
    EveryClientHearsItsHost
CHECK_DEADLOCK FALSE
