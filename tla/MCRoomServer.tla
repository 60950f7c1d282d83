---------------------------- MODULE MCRoomServer ----------------------------
(* Small instances of RoomServer for TLC.                                  *)
EXTENDS RoomServer

CONSTANTS h1, h2, c1, lobby

OneRoom == [p \in Peers |-> lobby]
=============================================================================
