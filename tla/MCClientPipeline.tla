-------------------------- MODULE MCClientPipeline --------------------------
(* Small instances of ClientPipeline: what HostSender sends of frames of 4 *)
(* and 1 bytes under PACKET_SIZE 3 and HEADER_SIZE 1.                      *)
EXTENDS ClientPipeline

Datagram(s, f, o, n, w) ==
    [seq |-> s, frame |-> f, offset |-> o, size |-> n, slidingWindow |-> w]

TwoFrames == {Datagram(0, 0, 0, 2, 4), Datagram(1, 0, 1, 2, 4), Datagram(2, 1, 0, 1, 1)}
ASSUME CutByHost
=============================================================================
