--------------------------- MODULE MCHostSender ----------------------------
(* Small instances of HostSender for TLC.  With HEADER_SIZE 1 a datagram   *)
(* carries 2 bytes, or 4 under the default size: a frame of 4 bytes is cut *)
(* into two datagrams, or into one the client has no buffer for.  With     *)
(* WORD_SIZE 3 the three chunks of a frame of 6 bytes count as none, the   *)
(* four of one of 7 bytes as one.                                          *)
EXTENDS HostSender

UpToFourPackets == {1, 4, 6, 7}
=============================================================================
