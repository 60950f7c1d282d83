---------------------------- MODULE MCAcceptLoop ----------------------------
(* Small instances of AcceptLoop for TLC.                                  *)
EXTENDS AcceptLoop

CONSTANTS s1, s2
=============================================================================
