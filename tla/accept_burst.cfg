\* Two connections in quick succession.
SPECIFICATION Safety
CONSTANTS
    s1 = s1
    s2 = s2
    MaxConns = 2
    MaxFailures = 1
    Socks = {s1, s2}
    INVALID_SOCKET = INVALID_SOCKET
    Absent = Absent
    Null = Null
    Nobody = Nobody
    Crashed = Crashed
INVARIANTS
    HandlesItsClient
CHECK_DEADLOCK FALSE
