----------------------------- MODULE HostSender -----------------------------
(***************************************************************************)
(* The streaming host of VideoHost: main() configures the stream and       *)
(* captures frames, the sender thread cuts each frame into datagrams, the  *)
(* receiver thread takes acknowledgements off the socket and the ack       *)
(* thread resends whatever is still unacknowledged.  Datagrams travel over *)
(* UDP: they may be lost, duplicated, delivered in any order.  The peer is *)
(* reduced to what VideoClient's receiver does for the host: it            *)
(* acknowledges every datagram that fits its buffer.                       *)
(***************************************************************************)
EXTENDS Integers, Sequences, FiniteSets

CONSTANTS
    PACKET_SIZE,            \* datagram size main() asks for, and the peer's buffer
    DEFAULT_FRAME_SIZE,     \* (WORD)-1, the frame size before main() sets it
    HEADER_SIZE,            \* sizeof(rtmp_packet)
    WORD_SIZE,              \* how many values a WORD has
    RECENT_PACKETS_SIZE,    \* unacknowledged datagrams tolerated by the ack thread
    FrameSizes,             \* possible sizes of a captured frame
    MaxFrames,              \* bound of the model: frames captured
    MaxDatagrams,           \* bound of the liveness conditions: datagrams told apart
    Faults                  \* what the network does wrong: "lose", "duplicate"

ASSUME SizesAssumption ==
    /\ HEADER_SIZE \in Nat /\ PACKET_SIZE \in Nat /\ DEFAULT_FRAME_SIZE \in Nat
    /\ HEADER_SIZE < PACKET_SIZE /\ HEADER_SIZE < DEFAULT_FRAME_SIZE
    /\ RECENT_PACKETS_SIZE \in Nat /\ WORD_SIZE \in Nat \ {0}
    /\ FrameSizes \subseteq Nat \ {0}
    /\ MaxFrames \in Nat /\ MaxDatagrams \in Nat
    /\ Faults \subseteq {"lose", "duplicate"}

VARIABLES
    frameSize,      \* Stream::frameSize, the datagram size in force
    frames,         \* tsFrameQueue: sizes of the captured frames not yet sent
    captured,       \* frames captured so far
    sender,         \* where sendStream() is
    payloadSize,    \* sendStream()'s locals: bytes per datagram,
    frame,          \*   size of the frame being sent,
    frameNum,       \*   its number,
    offset,         \*   the next chunk's number,
    pkt,            \*   the datagram just sent
    sequenceNumber, \* of the next datagram
    recentPackets,  \* sent and not yet acknowledged
    toClient,       \* datagrams on their way to the client
    toHost,         \* acknowledgements on their way back
    received,       \* history: sequence numbers the client acknowledged
    cleared         \* history: has the ack thread given datagrams up?

streamVars == <<frameSize, frames, captured>>
senderVars == <<sender, payloadSize, frame, frameNum, offset, pkt, sequenceNumber>>
netVars == <<toClient, toHost>>
hostVars == <<streamVars, senderVars, recentPackets, cleared>>
vars == <<hostVars, netVars, received>>

(* What of an rtmp_packet the peers look at: size is the payload's length, *)
(* slidingWindow the whole frame's.                                        *)
Packet == [seq : Nat, frame : Nat, offset : Nat, size : Nat, slidingWindow : Nat]
NoPacket == [seq |-> 0, frame |-> 0, offset |-> 0, size |-> 0, slidingWindow |-> 0]

TypeOK ==
    /\ frameSize \in {DEFAULT_FRAME_SIZE, PACKET_SIZE}
    /\ frames \in Seq(FrameSizes)
    /\ captured \in 0..MaxFrames
    /\ sender \in {"chunk", "front", "packet", "track"}
    /\ payloadSize \in {DEFAULT_FRAME_SIZE - HEADER_SIZE, PACKET_SIZE - HEADER_SIZE}
    /\ frame \in FrameSizes \cup {0}
    /\ frameNum \in Nat /\ offset \in Nat /\ sequenceNumber \in Nat
    /\ pkt \in Packet
    /\ recentPackets \subseteq Packet
    /\ toClient \subseteq Packet
    /\ toHost \subseteq Nat
    /\ received \subseteq Nat
    /\ cleared \in BOOLEAN

(* main() starts the three threads before it touches the stream.  The      *)
(* constructor that could not bind its socket, and sets nothing, is left   *)
(* out: such a host sends and receives nothing.                            *)
HostInit ==
    /\ frameSize = DEFAULT_FRAME_SIZE
    /\ frames = <<>>
    /\ captured = 0
    /\ sender = "chunk"
    /\ payloadSize = DEFAULT_FRAME_SIZE - HEADER_SIZE
    /\ frame = 0
    /\ frameNum = 0
    /\ offset = 0
    /\ pkt = NoPacket
    /\ sequenceNumber = 0
    /\ recentPackets = {}
    /\ cleared = FALSE

Init ==
    /\ HostInit
    /\ toClient = {}
    /\ toHost = {}
    /\ received = {}

-----------------------------------------------------------------------------
(* main(): the stream's settings, then the capture loop *)

SetFrameSize ==
    /\ frameSize # PACKET_SIZE
    /\ frameSize' = PACKET_SIZE
    /\ UNCHANGED <<frames, captured, senderVars, recentPackets, cleared, netVars>>

Capture ==
    /\ frameSize = PACKET_SIZE
    /\ captured < MaxFrames
    /\ \E size \in FrameSizes : frames' = Append(frames, size)
    /\ captured' = captured + 1
    /\ UNCHANGED <<frameSize, senderVars, recentPackets, cleared, netVars>>

-----------------------------------------------------------------------------
(* sendStream(): the datagram size is read before the sender blocks for    *)
(* the next frame; a datagram is sent first and recorded afterwards.       *)

(* Mutant: the header is not taken off the datagram size.                  *)
ReadChunkSizeWithHeader ==
    /\ sender = "chunk" /\ sender' = "front"
    /\ payloadSize' = frameSize
    /\ UNCHANGED <<streamVars, frame, frameNum, offset, pkt, sequenceNumber,
                   recentPackets, cleared, netVars>>

ReadChunkSize ==
    /\ sender = "chunk"
    /\ payloadSize' = frameSize - HEADER_SIZE
    /\ sender' = "front"
    /\ UNCHANGED <<streamVars, frame, frameNum, offset, pkt, sequenceNumber,
                   recentPackets, cleared, netVars>>

(* The number of chunks is rounded up and cast to a WORD, so that a frame  *)
(* may seem to have none.  Mutant: it is rounded down.                     *)
TotalPacketsRoundedDown(size) == (size \div payloadSize) % WORD_SIZE
TotalPackets(size) == ((size + payloadSize - 1) \div payloadSize) % WORD_SIZE

FrontFrame ==
    /\ sender = "front"
    /\ frames # <<>>
    /\ frame' = Head(frames)
    /\ frames' = Tail(frames)
    /\ offset' = 0
    /\ IF 0 < TotalPackets(Head(frames))
       THEN sender' = "packet" /\ frameNum' = frameNum
       ELSE sender' = "chunk" /\ frameNum' = frameNum + 1
    /\ UNCHANGED <<frameSize, captured, payloadSize, pkt, sequenceNumber,
                   recentPackets, cleared, netVars>>

DataSize(i) ==
    LET left == frame - i * payloadSize
    IN IF payloadSize < left THEN payloadSize ELSE left

SendPacket ==
    /\ sender = "packet"
    /\ pkt' = [seq |-> sequenceNumber, frame |-> frameNum, offset |-> offset,
               size |-> DataSize(offset), slidingWindow |-> frame]
    /\ sequenceNumber' = sequenceNumber + 1
    /\ toClient' = toClient \cup {pkt'}
    /\ sender' = "track"
    /\ UNCHANGED <<streamVars, payloadSize, frame, frameNum, offset,
                   recentPackets, cleared, toHost>>

(* Mutant: the datagram size is read once, before the loop.                *)
AddRecentPacketSizeHoisted ==
    /\ sender = "track"
    /\ recentPackets' = recentPackets \cup {pkt}
    /\ offset' = offset + 1
    /\ IF offset + 1 < TotalPackets(frame)
       THEN sender' = "packet" /\ frameNum' = frameNum
       ELSE sender' = "front" /\ frameNum' = frameNum + 1
    /\ UNCHANGED <<streamVars, payloadSize, frame, pkt, sequenceNumber, cleared, netVars>>

AddRecentPacket ==
    /\ sender = "track"
    /\ recentPackets' = recentPackets \cup {pkt}
    /\ offset' = offset + 1
    /\ IF offset + 1 < TotalPackets(frame)
       THEN sender' = "packet" /\ frameNum' = frameNum
       ELSE sender' = "chunk" /\ frameNum' = frameNum + 1
    /\ UNCHANGED <<streamVars, payloadSize, frame, pkt, sequenceNumber, cleared, netVars>>

-----------------------------------------------------------------------------
(* ackPackets() and the receiver thread *)

(* Mutant: a pass resends the oldest datagram only.                        *)
AckPassOldest ==
    /\ recentPackets # {}
    /\ toClient' = toClient \cup
          {p \in recentPackets : \A q \in recentPackets : p.seq <= q.seq}
    /\ IF Cardinality(recentPackets) > RECENT_PACKETS_SIZE
       THEN recentPackets' = {} /\ cleared' = TRUE
       ELSE UNCHANGED <<recentPackets, cleared>>
    /\ UNCHANGED <<streamVars, senderVars, toHost>>

(* One pass of the ack thread, under recentPacketsMutex from end to end.   *)
AckPass ==
    /\ recentPackets # {}
    /\ toClient' = toClient \cup recentPackets
    /\ IF Cardinality(recentPackets) > RECENT_PACKETS_SIZE
       THEN recentPackets' = {} /\ cleared' = TRUE
       ELSE UNCHANGED <<recentPackets, cleared>>
    /\ UNCHANGED <<streamVars, senderVars, toHost>>

Consume(channel, m) ==
    \/ channel' = channel \ {m}
    \/ "duplicate" \in Faults /\ channel' = channel

(* Mutant: an acknowledgement counts for all earlier datagrams too.        *)
RemoveRecentPacketsUpTo(s) ==
    /\ s \in toHost /\ Consume(toHost, s)
    /\ recentPackets' = {p \in recentPackets : p.seq > s}
    /\ UNCHANGED <<streamVars, senderVars, cleared, toClient>>

(* controlPacketHandler(): erases the datagram if it is recorded.          *)
RemoveRecentPacket(s) ==
    /\ s \in toHost
    /\ Consume(toHost, s)
    /\ recentPackets' = {p \in recentPackets : p.seq # s}
    /\ UNCHANGED <<streamVars, senderVars, cleared, toClient>>

HostNext ==
    \/ SetFrameSize \/ Capture
    \/ ReadChunkSize \/ FrontFrame \/ SendPacket \/ AddRecentPacket
    \/ AckPass
    \/ \E s \in toHost : RemoveRecentPacket(s)

-----------------------------------------------------------------------------
(* The network, and the client as the host sees it *)

Fits(p) == p.size + HEADER_SIZE <= PACKET_SIZE

ClientReceives(p) ==
    /\ p \in toClient
    /\ Consume(toClient, p)
    /\ IF Fits(p)
       THEN toHost' = toHost \cup {p.seq} /\ received' = received \cup {p.seq}
       ELSE UNCHANGED <<toHost, received>>
    /\ UNCHANGED hostVars

Lose ==
    /\ "lose" \in Faults
    /\ \/ \E p \in toClient : toClient' = toClient \ {p} /\ toHost' = toHost
       \/ \E s \in toHost : toHost' = toHost \ {s} /\ toClient' = toClient
    /\ UNCHANGED <<hostVars, received>>

Next ==
    \/ HostNext /\ UNCHANGED received
    \/ \E p \in toClient : ClientReceives(p)
    \/ Lose

(* The host's threads keep running; a datagram that is sent again and      *)
(* again gets through in the end, in either direction.                     *)
SeqNums == 0..(MaxDatagrams - 1)
ownVars == <<hostVars, netVars>>
HostFairness ==
    /\ WF_ownVars(SetFrameSize) /\ WF_ownVars(ReadChunkSize) /\ WF_ownVars(FrontFrame)
    /\ WF_ownVars(SendPacket) /\ WF_ownVars(AddRecentPacket)
    /\ WF_ownVars(AckPass)
    /\ \A s \in SeqNums : SF_ownVars(RemoveRecentPacket(s))
NetworkFairness ==
    \A s \in SeqNums : SF_vars(\E p \in toClient : p.seq = s /\ ClientReceives(p))

Safety == Init /\ [][Next]_vars
Spec == Safety /\ HostFairness /\ NetworkFairness

-----------------------------------------------------------------------------
Recorded == {p.seq : p \in recentPackets}
BeingRecorded == IF sender = "track" THEN {pkt.seq} ELSE {}

(* Every datagram ever sent is acknowledged by the client or recorded for  *)
(* resending, through every order in which sending, recording, resending   *)
(* and acknowledging can meet: an acknowledgement may even overtake the    *)
(* recording of its datagram.  Only the ack thread's clear() breaks this.  *)
NothingForgotten ==
    ~cleared =>
        \A s \in 0..(sequenceNumber - 1) : s \in received \cup Recorded \cup BeingRecorded

(* Datagrams that a viewer can put frames together from: each is a chunk   *)
(* of the payload both programs were built for, those of one frame agree   *)
(* on its size, and no two of them carry the same chunk.                   *)
WellCut(datagrams) ==
    /\ \A p \in datagrams :
          LET payload == PACKET_SIZE - HEADER_SIZE
              left == p.slidingWindow - p.offset * payload
          IN left > 0 /\ p.size = IF payload < left THEN payload ELSE left
    /\ \A p, q \in datagrams : p.frame = q.frame =>
          p.slidingWindow = q.slidingWindow /\ (p.offset = q.offset => p = q)

(* The sender thread runs before main() has set the datagram size, and     *)
(* reads it once more each time BEFORE it waits for a frame: the first     *)
(* frame may be cut with the default size, no later one ever is, and a     *)
(* chunk of theirs is one datagram, however often it is resent.            *)
OnlyFirstFrameMischunked ==
    WellCut({p \in toClient \cup recentPackets : p.frame > 0})

(* The sender thread leaves a frame behind its last chunk only, if it has  *)
(* fewer chunks than a WORD can count; a longer one is cut short.          *)
FramesLeftWhole ==
    [][frameNum' # frameNum /\ frame' <= (WORD_SIZE - 1) * payloadSize
          => frame' <= offset' * payloadSize]_vars

(* A datagram the client can receive does not stay in recentPackets for    *)
(* ever, however often it or its acknowledgement is lost.                  *)
EventuallyReleased ==
    \A s \in SeqNums :
        (\E p \in recentPackets : p.seq = s /\ Fits(p)) ~> s \notin Recorded
=============================================================================
