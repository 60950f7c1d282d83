--------------------------- MODULE MCPunchClients ---------------------------
(* A small instance of PunchClients for TLC.                               *)
EXTENDS PunchClients

CONSTANTS h1, c1, c2, lobby

OneRoom == [p \in Peers |-> lobby]
=============================================================================
