--------------------------- MODULE MCLibraryParts ---------------------------
EXTENDS LibraryParts

CONSTANTS s1, s2, o1, o2, o3

(* Three socket objects in the combinations in which programs have them.   *)
LibraryServer == (o1 :> "library" @@ o2 :> "library" @@ o3 :> "server")
LibraryHost == (o1 :> "library" @@ o2 :> "host" @@ o3 :> "server")
Viewer == (o1 :> "viewer" @@ o2 :> "none" @@ o3 :> "none")
TestClient == (o1 :> "test" @@ o2 :> "none" @@ o3 :> "none")
TestHosts == (o1 :> "testhost" @@ o2 :> "testhost" @@ o3 :> "none")
SomeLayouts == {LibraryServer, LibraryHost, Viewer, TestClient, TestHosts}

(* Letters are 11 and 12; a field has room for two, one more than a user is *)
(* asked to keep to, and one user types a room of three.                   *)
SomeClients ==
    [name : {<<11>>, <<12>>}, roomName : {<<11>>, <<12>>, <<11, 12>>},
     roomPassword : {<<11>>, <<12, 11>>}, isHost : BOOLEAN]
    \cup {[name |-> <<11>>, roomName |-> <<11, 12, 12>>, roomPassword |-> <<11>>,
           isHost |-> FALSE]}
=============================================================================
