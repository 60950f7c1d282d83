--------------------------- MODULE MCVideoSession ---------------------------
(* A small instance of VideoSession for TLC.                               *)
EXTENDS VideoSession

TwoPackets == {4}
=============================================================================
