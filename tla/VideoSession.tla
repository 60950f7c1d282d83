---------------------------- MODULE VideoSession ----------------------------
(***************************************************************************)
(* VideoHost and VideoClient talking to each other: the host of HostSender *)
(* and the viewer of ClientPipeline share the two directions of one UDP    *)
(* path.  The path itself is perfect (Faults is empty): what arrives twice *)
(* here was sent twice by the host.                                        *)
(***************************************************************************)
EXTENDS Integers, Sequences, FiniteSets

CONSTANTS
    PACKET_SIZE, DEFAULT_FRAME_SIZE, HEADER_SIZE, WORD_SIZE, RECENT_PACKETS_SIZE,
    FrameSizes, MaxFrames, MaxDatagrams, MaxReceives, None

VARIABLES
    \* the host
    frameSize, frames, captured, sender, payloadSize, frame, frameNum, offset, pkt,
    sequenceNumber, recentPackets, cleared,
    \* the network
    toClient, toHost,
    \* the client
    globalOn, socketOpen, receives, receiver, held, packetQueue, permits, dataMutex,
    consumer, current, fbValid, activeFrames, frameNumQueue, decoder, decoding, decoded,
    frameNumBmpQueue, loadFrame, paintDue, timer, ui, bmpMutex, shown,
    \* history
    received,       \* sequence numbers the client has acknowledged
    consumed        \* sequence numbers of the datagrams the consumer is done with

(* No datagram of the code: ClientPipeline takes from InFlight which       *)
(* frames there are, and the path below is the host's.                     *)
FirstChunk(f) == [seq |-> f, frame |-> f, offset |-> 0, size |-> 1, slidingWindow |-> 1]

Host == INSTANCE HostSender WITH Faults <- {}
Client == INSTANCE ClientPipeline WITH
    InFlight <- {FirstChunk(f) : f \in 0..(MaxFrames - 1)}

ASSUME SessionAssumption ==
    /\ HEADER_SIZE \in Nat /\ PACKET_SIZE \in Nat /\ DEFAULT_FRAME_SIZE \in Nat
    /\ HEADER_SIZE < PACKET_SIZE /\ HEADER_SIZE < DEFAULT_FRAME_SIZE
    /\ RECENT_PACKETS_SIZE \in Nat /\ WORD_SIZE \in Nat \ {0}
    /\ FrameSizes \subseteq Nat \ {0}
    /\ MaxFrames \in Nat /\ MaxDatagrams \in Nat
    /\ None \notin Host!Packet \cup {"receiver", "consumer"}

hostVars == <<frameSize, frames, captured, sender, payloadSize, frame, frameNum, offset,
              pkt, sequenceNumber, recentPackets, cleared>>
clientVars == <<globalOn, socketOpen, receives, receiver, held, packetQueue, permits,
                dataMutex, consumer, current, fbValid, activeFrames, frameNumQueue,
                decoder, decoding, decoded, frameNumBmpQueue, loadFrame, paintDue, timer,
                ui, bmpMutex, shown>>
vars == <<hostVars, clientVars, toClient, toHost, received, consumed>>

Init == Host!Init /\ Client!ClientInit /\ consumed = {}

HostStep ==
    /\ Host!HostNext
    /\ UNCHANGED <<clientVars, received, consumed>>

ClientStep ==
    /\ Client!ClientNext
    /\ received' = received \cup toHost'
    /\ consumed' = consumed \cup (IF current # None /\ current' = None
                                  THEN {current.seq} ELSE {})
    /\ UNCHANGED hostVars

Next == HostStep \/ ClientStep

Spec == Init /\ [][Next]_vars

-----------------------------------------------------------------------------
(* The viewer is the peer the host was modelled with: every step of the    *)
(* session is a step of HostSender, acknowledgements included.             *)
ViewerIsHostsPeer == Host!Safety

(* No datagram falls between the hands of the two programs: each one sent  *)
(* is recorded by the host, or held, queued or used by the client, though  *)
(* the client acknowledges before it queues and the host sends before it   *)
(* records.                                                                *)
AtClient ==
    {p.seq : p \in ({held, current} \ {None}) \cup {packetQueue[i] : i \in DOMAIN packetQueue}}
NothingBetween ==
    ~cleared => \A s \in 0..(sequenceNumber - 1) :
        s \in Host!Recorded \cup Host!BeingRecorded \cup AtClient \cup consumed

(* "reconstructs frames and passes the finished frames to Decoder": what   *)
(* the consumer hands over is whole.                                       *)
FinishedFramesOnly == Client!HandedOverIsWhole
=============================================================================
