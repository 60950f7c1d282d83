------------------------ MODULE ClientPipelineProofs ------------------------
(***************************************************************************)
(* The viewer for every set of datagrams on their way, in whatever order   *)
(* they arrive and however its threads interleave.                         *)
(***************************************************************************)
EXTENDS ClientPipeline, SequenceTheorems, FiniteSetTheorems, TLAPS

(* dataMutex and bmpMutex belong to whoever is in a section, a thread has  *)
(* a datagram or a frame in its hands where its code says so, and a buffer *)
(* a thread still refers to is there.                                      *)
HandsInv ==
    /\ dataMutex = "receiver" <=> receiver \in {"push", "release"}
    /\ dataMutex = "consumer" <=> consumer \in {"pop", "lookup", "update"}
    /\ bmpMutex = "ui" <=> ui = "paint"
    /\ held # None <=> receiver \in {"lock", "push", "release"}
    /\ current # None <=> consumer \in {"lookup", "update"}
    /\ decoding # None <=> decoder \in {"decode", "push", "erase"}
    /\ fbValid => consumer = "update" /\ activeFrames[current.frame] # None

(* There are as many permits as datagrams, but for the one the receiver is *)
(* about to release; only the consumer takes any away.                     *)
PermitsInv ==
    /\ permits = Len(packetQueue) - (IF receiver = "release" THEN 1 ELSE 0)
    /\ consumer \in {"lock", "pop"} => packetQueue # <<>>

IInv == TypeOK /\ HandsInv /\ PermitsInv

-----------------------------------------------------------------------------
Holds(s, e) == \E i \in DOMAIN s : s[i] = e
NoTwice(s) == \A i, j \in DOMAIN s : s[i] = s[j] => i = j

InHand(p) == receiver \in {"lock", "push"} /\ held = p
ToCount(p) == p \in toClient \/ InHand(p) \/ Holds(packetQueue, p) \/ current = p

(* A datagram that is still to be counted is in one place only.            *)
OnePlace ==
    /\ \A p \in toClient : held # p /\ current # p /\ ~Holds(packetQueue, p)
    /\ receiver \in {"lock", "push"} => held # current /\ ~Holds(packetQueue, held)
    /\ ~Holds(packetQueue, current)
    /\ NoTwice(packetQueue)

(* A buffer of a frame of size bytes has counted each of its chunks once.  *)
LastChunk(size) == (size + PAYLOAD_SIZE - 1) \div PAYLOAD_SIZE - 1
SizeOf(chunks, size) ==
    Cardinality(chunks \ {LastChunk(size)}) * PAYLOAD_SIZE
        + (IF LastChunk(size) \in chunks THEN size - LastChunk(size) * PAYLOAD_SIZE ELSE 0)
Counted(fb, size) ==
    /\ fb.expectedSize = size
    /\ fb.chunks \subseteq ChunksOf(size)
    /\ fb.totalSize = SizeOf(fb.chunks, size)

BuffersInv ==
    \A p \in InFlight : activeFrames[p.frame] # None =>
        /\ Counted(activeFrames[p.frame], p.slidingWindow)
        /\ ToCount(p) => p.offset \notin activeFrames[p.frame].chunks

(* The decoder is handed each frame once, and keeps it whole while it has  *)
(* not erased it.                                                          *)
HandedOver(f) == decoding = f \/ Holds(frameNumQueue, f)
HandedOverInv ==
    /\ \A f \in Frames : HandedOver(f) => Whole(activeFrames[f])
    /\ NoTwice(frameNumQueue) /\ ~Holds(frameNumQueue, decoding)

(* Of a frame whose bitmap has been made nothing arrives any more, and it  *)
(* waits to be shown or has been shown, once.                              *)
Retired(f) == Holds(frameNumBmpQueue, f) \/ Holds(shown, f)
ShownOnce == NoTwice(shown)
RetiredInv ==
    /\ \A p \in InFlight : Retired(p.frame) => ~ToCount(p)
    /\ \A f \in Frames : Retired(f) =>
          ~Holds(frameNumQueue, f) /\ (decoding = f => decoder = "erase")
    /\ \A f \in Frames : ~(Holds(frameNumBmpQueue, f) /\ Holds(shown, f))
    /\ NoTwice(frameNumBmpQueue) /\ ShownOnce

CutInv == IInv /\ OnePlace /\ BuffersInv /\ HandedOverInv /\ FrameBufferAlive /\ RetiredInv

-----------------------------------------------------------------------------
(* Nothing has happened yet.                                               *)
LEMMA InitIInv == Init => IInv
<1> SUFFICES ASSUME Init PROVE IInv
  OBVIOUS
<1> USE ClientAssumption DEF Init, ClientInit
<1>1. /\ globalOn \in BOOLEAN /\ socketOpen \in BOOLEAN /\ fbValid \in BOOLEAN
      /\ decoded \in BOOLEAN /\ loadFrame \in BOOLEAN /\ paintDue \in BOOLEAN
  OBVIOUS
<1>2. TypeOK
  BY <1>1 DEF TypeOK
<1>3. HandsInv
  BY DEF HandsInv
<1>4. PermitsInv
  BY DEF PermitsInv
<1>5. QED
  BY <1>2, <1>3, <1>4 DEF IInv

(* The receiver thread.                                                    *)
LEMMA ReceiverKeeps ==
    ASSUME IInv,
           (\E p \in toClient : Receive(p)) \/ Receiver \/ ReceiverLock
    PROVE  IInv'
<1> USE ClientAssumption
    DEF IInv, netVars, queueVars, consumerVars, decoderVars, paintVars, lifeVars
<1>1. ASSUME NEW p \in toClient, Receive(p) PROVE IInv'
  <2>1. p \in InFlight
    BY DEF TypeOK
  <2>2. TypeOK'
    BY <1>1, <2>1 DEF Receive, TypeOK
  <2>3. HandsInv'
    BY <1>1, <2>1 DEF Receive, HandsInv
  <2>4. PermitsInv'
    BY <1>1 DEF Receive, PermitsInv
  <2>5. QED
    BY <2>2, <2>3, <2>4
<1>2. CASE ReceiverCheck
  <2>1. TypeOK'
    BY <1>2 DEF ReceiverCheck, TypeOK
  <2>2. HandsInv' /\ PermitsInv'
    BY <1>2 DEF ReceiverCheck, HandsInv, PermitsInv
  <2>3. QED
    BY <2>1, <2>2
<1>3. CASE ReceiveError
  <2>1. TypeOK'
    BY <1>3 DEF ReceiveError, TypeOK
  <2>2. HandsInv' /\ PermitsInv'
    BY <1>3 DEF ReceiveError, HandsInv, PermitsInv
  <2>3. QED
    BY <2>1, <2>2
<1>4. CASE ReceiverLock
  <2>1. TypeOK'
    BY <1>4 DEF ReceiverLock, TypeOK
  <2>2. HandsInv' /\ PermitsInv'
    BY <1>4 DEF ReceiverLock, HandsInv, PermitsInv
  <2>3. QED
    BY <2>1, <2>2
<1>5. CASE ReceiverPush
  <2>1. packetQueue' \in Seq(InFlight) /\ Len(packetQueue') = Len(packetQueue) + 1
    BY <1>5 DEF ReceiverPush, TypeOK, HandsInv
  <2>2. TypeOK'
    BY <1>5, <2>1 DEF ReceiverPush, TypeOK
  <2>3. HandsInv'
    BY <1>5 DEF ReceiverPush, HandsInv
  <2>4. PermitsInv'
    BY <1>5, <2>1 DEF ReceiverPush, PermitsInv, TypeOK, HandsInv
  <2>5. QED
    BY <2>2, <2>3, <2>4
<1>6. CASE ReceiverRelease
  <2>1. TypeOK'
    BY <1>6 DEF ReceiverRelease, TypeOK
  <2>2. HandsInv'
    BY <1>6 DEF ReceiverRelease, HandsInv
  <2>3. PermitsInv'
    BY <1>6 DEF ReceiverRelease, PermitsInv, TypeOK
  <2>4. QED
    BY <2>1, <2>2, <2>3
<1>7. QED
  BY <1>1, <1>2, <1>3, <1>4, <1>5, <1>6 DEF Receiver

(* A buffer with one more chunk is a buffer.                               *)
LEMMA CountedIn ==
    ASSUME NEW fb \in Buffers, NEW n \in Nat, NEW chunk \in Nat
    PROVE  [fb EXCEPT !.totalSize = @ + n, !.chunks = @ \cup {chunk}] \in Buffers
<1>1. fb.totalSize + n \in Nat /\ fb.chunks \cup {chunk} \in SUBSET Nat
  BY DEF Buffers
<1>2. QED
  BY <1>1 DEF Buffers

(* What the consumer makes of a buffer is a buffer.                        *)
LEMMA ConsumerBuffers ==
    ASSUME IInv, ConsumerLookup \/ ConsumerUpdate
    PROVE  /\ current \in InFlight /\ current.frame \in Frames
           /\ activeFrames' \in [Frames -> Buffers \cup {None}]
           /\ ConsumerLookup => activeFrames'[current.frame] # None
<1> USE ClientAssumption DEF IInv
<1>1. current \in InFlight /\ current.frame \in Frames
  BY DEF ConsumerLookup, ConsumerUpdate, TypeOK, HandsInv, Frames
<1>2. current.slidingWindow \in Nat /\ current.size \in Nat /\ current.offset \in Nat
  BY <1>1 DEF Datagrams
<1>3. CASE ConsumerLookup
  <2> DEFINE old == IF activeFrames[current.frame] = None THEN NewBuffer
                    ELSE activeFrames[current.frame]
             new == IF old.expectedSize = 0
                    THEN [old EXCEPT !.expectedSize = current.slidingWindow] ELSE old
  <2>1. old \in Buffers
    BY <1>1 DEF TypeOK, Buffers, NewBuffer
  <2>2. new \in Buffers
    BY <1>2, <2>1 DEF Buffers
  <2>3. activeFrames' = [activeFrames EXCEPT ![current.frame] = new]
    BY <1>3 DEF ConsumerLookup
  <2> HIDE DEF old, new
  <2>4. QED
    BY <1>1, <2>2, <2>3 DEF TypeOK
<1>4. CASE ConsumerUpdate
  <2>1. CASE fbValid
    <3>1. activeFrames[current.frame] \in Buffers
      BY <1>1, <2>1 DEF HandsInv, TypeOK
    <3>2. [activeFrames[current.frame] EXCEPT !.totalSize = @ + current.size,
                                        !.chunks = @ \cup {current.offset}] \in Buffers
      BY <1>2, <3>1, CountedIn
    <3>3. consumer = "update"
      BY <1>4 DEF ConsumerUpdate
    <3>4. QED
      BY <1>1, <1>4, <2>1, <3>2, <3>3 DEF ConsumerUpdate, ConsumerLookup, TypeOK
  <2>2. CASE ~fbValid
    BY <1>1, <1>4, <2>2 DEF ConsumerUpdate, ConsumerLookup, TypeOK
  <2>3. QED
    BY <2>1, <2>2
<1>5. QED
  BY <1>3, <1>4

(* The consumer thread.                                                    *)
LEMMA ConsumerKeeps ==
    ASSUME IInv, Consumer \/ ConsumerLock
    PROVE  IInv'
<1> USE ClientAssumption
    DEF IInv, netVars, queueVars, receiverVars, decoderVars, paintVars, lifeVars
<1>1. CASE ConsumerCheck
  <2>1. TypeOK'
    BY <1>1, SMTT(30) DEF ConsumerCheck, TypeOK
  <2>2. HandsInv' /\ PermitsInv'
    BY <1>1 DEF ConsumerCheck, HandsInv, PermitsInv
  <2>3. QED
    BY <2>1, <2>2
<1>2. CASE ConsumerLock
  <2>1. TypeOK'
    BY <1>2, SMTT(30) DEF ConsumerLock, TypeOK
  <2>2. HandsInv' /\ PermitsInv'
    BY <1>2 DEF ConsumerLock, HandsInv, PermitsInv
  <2>3. QED
    BY <2>1, <2>2
<1>3. CASE ConsumerPop
  <2>1. /\ current' \in InFlight /\ packetQueue' \in Seq(InFlight)
        /\ Len(packetQueue') = Len(packetQueue) - 1
    BY <1>3 DEF ConsumerPop, TypeOK, PermitsInv
  <2>2. permits' \in Nat /\ permits' = permits - 1
    BY <1>3 DEF ConsumerPop, TypeOK
  <2>3. TypeOK'
    BY <1>3, <2>1, <2>2, SMTT(30) DEF ConsumerPop, TypeOK
  <2>4. ~fbValid
    BY <1>3 DEF ConsumerPop, HandsInv
  <2>5. HandsInv'
    BY <1>3, <2>1, <2>4 DEF ConsumerPop, HandsInv
  <2>6. PermitsInv'
    <3>1. receiver # "release"
      BY <1>3 DEF ConsumerPop, HandsInv, TypeOK
    <3>2. QED
      BY <1>3, <2>1, <2>2, <3>1 DEF ConsumerPop, PermitsInv
  <2>7. QED
    BY <2>3, <2>5, <2>6
<1>4. CASE ConsumerLookup
  <2>1. fbValid' \in BOOLEAN
    BY <1>4 DEF ConsumerLookup
  <2>2. TypeOK'
    BY <1>4, <2>1, ConsumerBuffers, SMTT(30) DEF ConsumerLookup, TypeOK
  <2>3. HandsInv'
    BY <1>4, ConsumerBuffers DEF ConsumerLookup, HandsInv
  <2>4. PermitsInv'
    BY <1>4 DEF ConsumerLookup, PermitsInv
  <2>5. QED
    BY <2>2, <2>3, <2>4
<1>5. CASE ConsumerUpdate
  <2>1. frameNumQueue' \in Seq(Frames)
    <3>1. Append(frameNumQueue, current.frame) \in Seq(Frames) /\ frameNumQueue \in Seq(Frames)
      BY <1>5, ConsumerBuffers DEF TypeOK
    <3>2. frameNumQueue' \in {frameNumQueue, Append(frameNumQueue, current.frame)}
      BY <1>5 DEF ConsumerUpdate
    <3>3. QED
      BY <3>1, <3>2
  <2>2. TypeOK'
    <3>1. current' \in InFlight \cup {None} /\ fbValid' \in BOOLEAN
      BY <1>5 DEF ConsumerUpdate
    <3>2. activeFrames' \in [Frames -> Buffers \cup {None}]
      BY <1>5, ConsumerBuffers
    <3>3. QED
      BY <1>5, <2>1, <3>1, <3>2, SMTT(30) DEF ConsumerUpdate, TypeOK
  <2>3. HandsInv'
    BY <1>5 DEF ConsumerUpdate, HandsInv
  <2>4. PermitsInv'
    BY <1>5 DEF ConsumerUpdate, PermitsInv
  <2>5. QED
    BY <2>2, <2>3, <2>4
<1>6. QED
  BY <1>1, <1>2, <1>3, <1>4, <1>5 DEF Consumer

(* The decoder thread.                                                     *)
LEMMA DecoderKeeps ==
    ASSUME IInv, Decoder \/ DecoderPush
    PROVE  IInv'
<1> USE ClientAssumption
    DEF IInv, netVars, queueVars, receiverVars, consumerVars, paintVars, lifeVars
<1>1. CASE DecoderCheck
  <2>1. TypeOK'
    <3>1. frameNumQueue # <<>> =>
             Head(frameNumQueue) \in Frames /\ Tail(frameNumQueue) \in Seq(Frames)
      BY DEF TypeOK
    <3>2. frameNumQueue' \in Seq(Frames)
      BY <1>1, <3>1 DEF DecoderCheck, TypeOK
    <3>3. decoding' \in Frames \cup {None}
      BY <1>1, <3>1 DEF DecoderCheck, TypeOK
    <3>4. QED
      BY <1>1, <3>2, <3>3, SMTT(30) DEF DecoderCheck, TypeOK
  <2>2. globalOn /\ frameNumQueue # <<>> => Head(frameNumQueue) \in Frames
    BY DEF TypeOK
  <2>3. \A f \in Frames : f # None
    BY DEF Frames, Datagrams
  <2>4. HandsInv'
    BY <1>1, <2>2, <2>3 DEF DecoderCheck, HandsInv
  <2>5. PermitsInv'
    BY <1>1 DEF DecoderCheck, PermitsInv
  <2>6. QED
    BY <2>1, <2>4, <2>5
<1>2. CASE DecoderDecode
  <2>1. activeFrames' \in [Frames -> Buffers \cup {None}]
    BY <1>2 DEF DecoderDecode, TypeOK, NewBuffer, Buffers
  <2>2. decoded' \in BOOLEAN
    BY <1>2 DEF DecoderDecode
  <2>3. TypeOK'
    BY <1>2, <2>1, <2>2, SMTT(30) DEF DecoderDecode, TypeOK
  <2>4. \A f \in Frames : activeFrames[f] # None => activeFrames'[f] # None
    BY <1>2 DEF DecoderDecode, TypeOK
  <2>5. fbValid => current.frame \in Frames
    BY DEF HandsInv, TypeOK, Frames
  <2>6. HandsInv'
    BY <1>2, <2>4, <2>5 DEF DecoderDecode, HandsInv
  <2>7. PermitsInv'
    BY <1>2 DEF DecoderDecode, PermitsInv
  <2>8. QED
    BY <2>3, <2>6, <2>7
<1>3. CASE DecoderPush
  <2>1. frameNumBmpQueue' \in Seq(Frames)
    BY <1>3 DEF DecoderPush, TypeOK, HandsInv
  <2>2. TypeOK'
    BY <1>3, <2>1, SMTT(30) DEF DecoderPush, TypeOK
  <2>3. HandsInv' /\ PermitsInv'
    BY <1>3 DEF DecoderPush, HandsInv, PermitsInv
  <2>4. QED
    BY <2>2, <2>3
<1>4. CASE DecoderErase
  <2>1. activeFrames' \in [Frames -> Buffers \cup {None}]
    BY <1>4 DEF DecoderErase, TypeOK
  <2>2. fbValid' \in BOOLEAN /\ decoded' \in BOOLEAN
    BY <1>4 DEF DecoderErase
  <2>3. TypeOK'
    BY <1>4, <2>1, <2>2, SMTT(30) DEF DecoderErase, TypeOK
  <2>4. fbValid' => fbValid /\ activeFrames'[current.frame] # None
    BY <1>4 DEF DecoderErase, HandsInv, TypeOK, Frames
  <2>5. HandsInv'
    BY <1>4, <2>4 DEF DecoderErase, HandsInv
  <2>6. PermitsInv'
    BY <1>4 DEF DecoderErase, PermitsInv
  <2>7. QED
    BY <2>3, <2>5, <2>6
<1>5. QED
  BY <1>1, <1>2, <1>3, <1>4 DEF Decoder

(* A sequence is one of the same elements when one is taken out.           *)
LEMMA RemoveAtType ==
    ASSUME NEW S, NEW s \in Seq(S), NEW i \in DOMAIN s
    PROVE  RemoveAt(s, i) \in Seq(S)
<1>1. i \in 1..Len(s)
  BY LenProperties
<1>2. SubSeq(s, 1, i - 1) \in Seq(S) /\ SubSeq(s, i + 1, Len(s)) \in Seq(S)
  BY <1>1, SubSeqProperties
<1>3. QED
  BY <1>2, ConcatProperties DEF RemoveAt

(* The timer and the window.                                               *)
LEMMA WindowKeeps ==
    ASSUME IInv, Timer \/ Window \/ Quit
    PROVE  IInv'
<1> USE DEF IInv, netVars, queueVars, receiverVars, consumerVars, decoderVars, paintVars
<1>1. CASE TimerArm
  <2>1. loadFrame' \in BOOLEAN
    BY <1>1 DEF TimerArm, TypeOK
  <2>2. TypeOK'
    BY <1>1, <2>1, SMTT(30) DEF TimerArm, TypeOK
  <2>3. HandsInv' /\ PermitsInv'
    BY <1>1 DEF TimerArm, HandsInv, PermitsInv
  <2>4. QED
    BY <2>2, <2>3
<1>2. CASE TimerInvalidate
  <2>1. paintDue' \in BOOLEAN
    BY <1>2 DEF TimerInvalidate
  <2>2. TypeOK'
    BY <1>2, <2>1, SMTT(30) DEF TimerInvalidate, TypeOK
  <2>3. HandsInv' /\ PermitsInv'
    BY <1>2 DEF TimerInvalidate, HandsInv, PermitsInv
  <2>4. QED
    BY <2>2, <2>3
<1>3. CASE PaintCheck
  <2>1. paintDue' \in BOOLEAN
    BY <1>3 DEF PaintCheck
  <2>2. TypeOK'
    BY <1>3, <2>1, SMTT(30) DEF PaintCheck, TypeOK
  <2>3. HandsInv' /\ PermitsInv'
    BY <1>3, ClientAssumption DEF PaintCheck, HandsInv, PermitsInv
  <2>4. QED
    BY <2>2, <2>3
<1>4. CASE PaintShow
  <2>1. frameNumBmpQueue' \in Seq(Frames) /\ shown' \in Seq(Frames)
    <3>1. PICK i \in DOMAIN frameNumBmpQueue :
             /\ shown' = Append(shown, frameNumBmpQueue[i])
             /\ frameNumBmpQueue' = RemoveAt(frameNumBmpQueue, i)
      BY <1>4 DEF PaintShow
    <3>2. frameNumBmpQueue \in Seq(Frames) /\ shown \in Seq(Frames)
      BY DEF TypeOK
    <3>3. frameNumBmpQueue[i] \in Frames
      BY <3>2, LenProperties, ElementOfSeq
    <3>4. QED
      BY <3>1, <3>2, <3>3, RemoveAtType
  <2>2. loadFrame' \in BOOLEAN
    BY <1>4 DEF PaintShow
  <2>3. TypeOK'
    BY <1>4, <2>1, <2>2, SMTT(30) DEF PaintShow, TypeOK
  <2>4. HandsInv' /\ PermitsInv'
    BY <1>4, ClientAssumption DEF PaintShow, HandsInv, PermitsInv
  <2>5. QED
    BY <2>3, <2>4
<1>5. CASE Quit
  <2>1. globalOn' \in BOOLEAN
    BY <1>5 DEF Quit
  <2>2. TypeOK'
    BY <1>5, <2>1, SMTT(30) DEF Quit, TypeOK
  <2>3. HandsInv' /\ PermitsInv'
    BY <1>5 DEF Quit, HandsInv, PermitsInv
  <2>4. QED
    BY <2>2, <2>3
<1>6. CASE CloseSocket
  <2>1. socketOpen' \in BOOLEAN
    BY <1>6 DEF CloseSocket
  <2>2. TypeOK'
    BY <1>6, <2>1, SMTT(30) DEF CloseSocket, TypeOK
  <2>3. HandsInv' /\ PermitsInv'
    BY <1>6 DEF CloseSocket, HandsInv, PermitsInv
  <2>4. QED
    BY <2>2, <2>3
<1>7. CASE Join
  <2>1. TypeOK'
    BY <1>7, SMTT(30) DEF Join, TypeOK
  <2>2. HandsInv' /\ PermitsInv'
    BY <1>7 DEF Join, HandsInv, PermitsInv
  <2>3. QED
    BY <2>1, <2>2
<1>8. QED
  BY <1>1, <1>2, <1>3, <1>4, <1>5, <1>6, <1>7 DEF Timer, Window

(* Every step keeps the invariant.                                         *)
LEMMA NextIInv == IInv /\ [ClientNext]_vars => IInv'
<1> SUFFICES ASSUME IInv, [ClientNext]_vars PROVE IInv'
  OBVIOUS
<1>1. CASE ClientNext
  BY <1>1, ReceiverKeeps, ConsumerKeeps, DecoderKeeps, WindowKeeps DEF ClientNext
<1>2. CASE UNCHANGED vars
  BY <1>2 DEF vars, clientVars, netVars, queueVars, receiverVars, consumerVars, decoderVars,
              paintVars, lifeVars, IInv, TypeOK, HandsInv, PermitsInv
<1>3. QED
  BY <1>1, <1>2

(* Every reachable state of the viewer has its type.                       *)
THEOREM TypeCorrect == Safety => []TypeOK
<1>1. IInv => TypeOK
  BY DEF IInv
<1>2. QED
  BY <1>1, InitIInv, NextIInv, PTL DEF Safety

(* Whatever the receiver is doing while the consumer asks isEmpty() and    *)
(* obtains dataMutex, a Pop under the mutex finds a permit and a datagram. *)
THEOREM PopNeverBlocks == Safety => []PopUnderMutexNeverBlocks
<1>1. IInv => PopUnderMutexNeverBlocks
  BY ClientAssumption DEF IInv, TypeOK, HandsInv, PermitsInv, PopUnderMutexNeverBlocks
<1>2. QED
  BY <1>1, InitIInv, NextIInv, PTL DEF Safety

-----------------------------------------------------------------------------
(* The chunks of a frame: all but the last one are as large as a datagram  *)
(* allows, and the last one is not empty.                                  *)
LEMMA ChunkFacts ==
    ASSUME NEW size \in Nat \ {0}
    PROVE  /\ PAYLOAD_SIZE \in Nat \ {0} /\ LastChunk(size) \in Nat
           /\ ChunksOf(size) = 0..LastChunk(size)
           /\ LastChunk(size) * PAYLOAD_SIZE < size
           /\ size <= LastChunk(size) * PAYLOAD_SIZE + PAYLOAD_SIZE
<1>1. PAYLOAD_SIZE \in Nat \ {0}
  BY ClientAssumption DEF PAYLOAD_SIZE
<1>2. PICK q \in Int : q = (size + PAYLOAD_SIZE - 1) \div PAYLOAD_SIZE
  BY <1>1
<1>3. q * PAYLOAD_SIZE < size + PAYLOAD_SIZE /\ size <= q * PAYLOAD_SIZE
  BY <1>1, <1>2
<1>4. q >= 1
  <2>1. SUFFICES ASSUME q <= 0 PROVE FALSE
    OBVIOUS
  <2>2. q * PAYLOAD_SIZE <= 0
    BY <1>1, <2>1
  <2>3. QED
    BY <1>1, <1>3, <2>2
<1>5. LastChunk(size) = q - 1 /\ ChunksOf(size) = 0..(q - 1)
  BY <1>2 DEF LastChunk, ChunksOf
<1>6. (q - 1) * PAYLOAD_SIZE = q * PAYLOAD_SIZE - PAYLOAD_SIZE
  BY <1>1
<1>7. QED
  BY <1>1, <1>3, <1>4, <1>5, <1>6

(* The size of some chunks is a number, and one more adds its own size.    *)
LEMMA SizeOfMore ==
    ASSUME NEW size \in Nat \ {0}, NEW chunks \in SUBSET ChunksOf(size),
           NEW chunk \in ChunksOf(size) \ chunks
    PROVE  LET left == size - chunk * PAYLOAD_SIZE
           IN SizeOf(chunks \cup {chunk}, size) =
                SizeOf(chunks, size) + (IF PAYLOAD_SIZE < left THEN PAYLOAD_SIZE ELSE left)
<1> DEFINE n == LastChunk(size)
           c == Cardinality(chunks \ {n})
<1>1. /\ PAYLOAD_SIZE \in Nat \ {0} /\ n \in Nat /\ chunk \in 0..n /\ chunks \subseteq 0..n
      /\ n * PAYLOAD_SIZE < size /\ size <= n * PAYLOAD_SIZE + PAYLOAD_SIZE
  BY ChunkFacts
<1>2. IsFiniteSet(chunks \ {n}) /\ c \in Nat
  <2>1. IsFiniteSet(0..n)
    BY <1>1, FS_Interval
  <2>2. IsFiniteSet(chunks \ {n})
    BY <1>1, <2>1, FS_Subset
  <2>3. QED
    BY <2>2, FS_CardinalityType
<1>3. CASE chunk = n
  <2>1. (chunks \cup {chunk}) \ {n} = chunks \ {n} /\ n \notin chunks
    BY <1>3
  <2>2. SizeOf(chunks \cup {chunk}, size) = c * PAYLOAD_SIZE + (size - n * PAYLOAD_SIZE)
    BY <1>3, <2>1 DEF SizeOf
  <2>3. SizeOf(chunks, size) = c * PAYLOAD_SIZE + 0
    BY <2>1 DEF SizeOf
  <2>4. ~(PAYLOAD_SIZE < size - chunk * PAYLOAD_SIZE)
    BY <1>1, <1>3
  <2>5. c * PAYLOAD_SIZE \in Nat /\ n * PAYLOAD_SIZE \in Nat
    BY <1>1, <1>2
  <2> HIDE DEF n, c
  <2>6. QED
    BY <1>3, <2>2, <2>3, <2>4, <2>5
<1>4. CASE chunk # n
  <2>1. /\ (chunks \cup {chunk}) \ {n} = (chunks \ {n}) \cup {chunk}
        /\ n \in chunks \cup {chunk} <=> n \in chunks
    BY <1>4
  <2>2. Cardinality((chunks \cup {chunk}) \ {n}) = c + 1
    BY <1>2, <2>1, FS_AddElement
  <2>3. chunk * PAYLOAD_SIZE + PAYLOAD_SIZE <= n * PAYLOAD_SIZE
    BY <1>1, <1>4
  <2>4. PAYLOAD_SIZE < size - chunk * PAYLOAD_SIZE
    BY <1>1, <2>3
  <2>5. (c + 1) * PAYLOAD_SIZE = c * PAYLOAD_SIZE + PAYLOAD_SIZE
    BY <1>1, <1>2
  <2>6. c * PAYLOAD_SIZE \in Nat /\ n * PAYLOAD_SIZE \in Nat
    BY <1>1, <1>2
  <2>7. SizeOf(chunks \cup {chunk}, size) =
           (c + 1) * PAYLOAD_SIZE + (IF n \in chunks THEN size - n * PAYLOAD_SIZE ELSE 0)
    BY <2>1, <2>2 DEF SizeOf
  <2>8. SizeOf(chunks, size) =
           c * PAYLOAD_SIZE + (IF n \in chunks THEN size - n * PAYLOAD_SIZE ELSE 0)
    BY DEF SizeOf
  <2> HIDE DEF n, c
  <2>9. QED
    BY <1>1, <2>4, <2>5, <2>6, <2>7, <2>8
<1>5. QED
  BY <1>3, <1>4

(* No other chunks of a frame than all of them have the frame's size.      *)
LEMMA WholeWhenSizesMatch ==
    ASSUME NEW size \in Nat \ {0}, NEW chunks \in SUBSET ChunksOf(size),
           SizeOf(chunks, size) = size
    PROVE  chunks = ChunksOf(size)
<1> DEFINE n == LastChunk(size)
           c == Cardinality(chunks \ {n})
<1>1. /\ PAYLOAD_SIZE \in Nat \ {0} /\ n \in Nat
      /\ chunks \subseteq 0..n /\ ChunksOf(size) = 0..n
      /\ n * PAYLOAD_SIZE < size /\ size <= n * PAYLOAD_SIZE + PAYLOAD_SIZE
  BY ChunkFacts
<1>2. IsFiniteSet(0..(n - 1)) /\ Cardinality(0..(n - 1)) = n
  <2> HIDE DEF n
  <2>1. 0 \in Int /\ n - 1 \in Int
    BY <1>1
  <2>2. Cardinality(0..(n - 1)) = IF 0 > n - 1 THEN 0 ELSE (n - 1) - 0 + 1
    BY <2>1, FS_Interval
  <2>3. QED
    BY <1>1, <2>1, <2>2, FS_Interval
<1>3. chunks \ {n} \in SUBSET (0..(n - 1))
  <2> HIDE DEF n
  <2>1. \A i \in 0..n : i # n => i \in 0..(n - 1)
    BY <1>1
  <2>2. QED
    BY <1>1, <2>1
<1>4. c \in Nat /\ c <= n /\ (c = n => chunks \ {n} = 0..(n - 1))
  BY <1>2, <1>3, FS_Subset, FS_CardinalityType
<1>5. c < n => c * PAYLOAD_SIZE + PAYLOAD_SIZE <= n * PAYLOAD_SIZE
  BY <1>1, <1>4
<1>6. c * PAYLOAD_SIZE \in Nat /\ n * PAYLOAD_SIZE \in Nat
  BY <1>1, <1>4
<1>7. size = c * PAYLOAD_SIZE + (IF n \in chunks THEN size - n * PAYLOAD_SIZE ELSE 0)
  BY DEF SizeOf
<1>8. n \in chunks /\ c = n
  <2> HIDE DEF n, c
  <2>1. c = n \/ c < n
    BY <1>1, <1>4
  <2>2. QED
    BY <1>1, <1>5, <1>6, <1>7, <2>1
<1>9. QED
  <2> HIDE DEF n, c
  <2>1. \A i \in 0..n : i = n \/ i \in 0..(n - 1)
    BY <1>1
  <2>2. QED
    BY <1>1, <1>4, <1>8, <2>1
-----------------------------------------------------------------------------
(* What a queue holds when something is put in, or taken out.              *)
LEMMA AppendHolds ==
    ASSUME NEW S, NEW s \in Seq(S), NEW e \in S
    PROVE  /\ \A x : Holds(Append(s, e), x) <=> Holds(s, x) \/ x = e
           /\ NoTwice(s) /\ ~Holds(s, e) => NoTwice(Append(s, e))
<1>1. /\ DOMAIN s = 1..Len(s) /\ Len(s) \in Nat
      /\ DOMAIN Append(s, e) = 1..(Len(s) + 1)
      /\ \A i \in 1..Len(s) : Append(s, e)[i] = s[i]
      /\ Append(s, e)[Len(s) + 1] = e
  BY AppendProperties, LenProperties
<1>2. QED
  BY <1>1 DEF Holds, NoTwice

LEMMA TailHolds ==
    ASSUME NEW S, NEW s \in Seq(S), s # <<>>
    PROVE  /\ \A x : Holds(s, x) <=> Holds(Tail(s), x) \/ x = Head(s)
           /\ NoTwice(s) => NoTwice(Tail(s)) /\ ~Holds(Tail(s), Head(s))
<1>1. /\ DOMAIN s = 1..Len(s) /\ Len(s) \in Nat \ {0} /\ Head(s) = s[1]
      /\ DOMAIN Tail(s) = 1..(Len(s) - 1)
      /\ \A i \in 1..(Len(s) - 1) : Tail(s)[i] = s[i + 1]
  BY HeadTailProperties, LenProperties
<1>2. \A i \in 2..Len(s) : i - 1 \in 1..(Len(s) - 1) /\ s[i] = Tail(s)[i - 1]
  BY <1>1
<1>3. ASSUME NEW x, Holds(s, x) PROVE Holds(Tail(s), x) \/ x = Head(s)
  <2>1. PICK i \in 1..Len(s) : s[i] = x
    BY <1>1, <1>3 DEF Holds
  <2>2. CASE i = 1
    BY <1>1, <2>1, <2>2
  <2>3. CASE i \in 2..Len(s)
    BY <1>1, <1>2, <2>1, <2>3 DEF Holds
  <2>4. QED
    BY <1>1, <2>1, <2>2, <2>3
<1>4. ASSUME NEW x, Holds(Tail(s), x) \/ x = Head(s) PROVE Holds(s, x)
  BY <1>1, <1>4 DEF Holds
<1>5. NoTwice(s) => NoTwice(Tail(s)) /\ ~Holds(Tail(s), Head(s))
  BY <1>1, SMTT(30) DEF NoTwice, Holds
<1>6. QED
  BY <1>3, <1>4, <1>5

LEMMA RemoveAtHolds ==
    ASSUME NEW S, NEW s \in Seq(S), NEW i \in DOMAIN s
    PROVE  /\ Holds(s, s[i])
           /\ \A x : Holds(RemoveAt(s, i), x) => Holds(s, x)
           /\ NoTwice(s) => NoTwice(RemoveAt(s, i)) /\ ~Holds(RemoveAt(s, i), s[i])
<1> DEFINE r == RemoveAt(s, i)
<1>1. i \in 1..Len(s) /\ Len(s) \in Nat /\ DOMAIN s = 1..Len(s)
  BY LenProperties
<1>2. /\ DOMAIN r = 1..(Len(s) - 1)
      /\ \A j \in 1..(Len(s) - 1) : r[j] = IF j < i THEN s[j] ELSE s[j + 1]
  <2> DEFINE a == SubSeq(s, 1, i - 1)
             b == SubSeq(s, i + 1, Len(s))
  <2>1. a \in Seq(S) /\ Len(a) = i - 1 /\ \A j \in 1..(i - 1) : a[j] = s[j]
    BY <1>1, SubSeqProperties
  <2>2. b \in Seq(S) /\ Len(b) = Len(s) - i /\ \A j \in 1..(Len(s) - i) : b[j] = s[i + j]
    BY <1>1, SubSeqProperties, SMTT(30)
  <2>3. r = a \o b
    BY DEF RemoveAt
  <2> HIDE DEF a, b, r
  <2>4. /\ r \in Seq(S) /\ Len(r) = Len(a) + Len(b)
        /\ \A j \in 1..Len(r) : r[j] = IF j <= Len(a) THEN a[j] ELSE b[j - Len(a)]
    BY <2>1, <2>2, <2>3, ConcatProperties, SMTT(30)
  <2>5. Len(r) = Len(s) - 1 /\ DOMAIN r = 1..(Len(s) - 1)
    BY <1>1, <2>1, <2>2, <2>4, LenProperties, SMTT(30)
  <2>6. ASSUME NEW j \in 1..(Len(s) - 1)
        PROVE  r[j] = IF j < i THEN s[j] ELSE s[j + 1]
    <3>1. CASE j < i
      BY <1>1, <2>1, <2>4, <2>5, <3>1, SMTT(30)
    <3>2. CASE ~(j < i)
      <4>1. j - (i - 1) \in 1..(Len(s) - i) /\ i + (j - (i - 1)) = j + 1
        BY <1>1, <3>2
      <4>2. r[j] = b[j - (i - 1)]
        BY <1>1, <2>1, <2>4, <2>5, <3>2, SMTT(30)
      <4>3. QED
        BY <2>2, <3>2, <4>1, <4>2
    <3>3. QED
      BY <3>1, <3>2
  <2>7. QED
    BY <2>5, <2>6
<1> HIDE DEF r
<1>3. \A j \in 1..(Len(s) - 1) : \E k \in 1..Len(s) : k # i /\ r[j] = s[k]
  BY <1>1, <1>2
<1>4. \A x : Holds(r, x) => Holds(s, x)
  BY <1>1, <1>2, <1>3 DEF Holds
<1>5. NoTwice(s) => NoTwice(r)
  BY <1>1, <1>2, SMTT(30) DEF NoTwice
<1>6. NoTwice(s) => ~Holds(r, s[i])
  BY <1>1, <1>2, <1>3 DEF NoTwice, Holds
<1>7. QED
  BY <1>1, <1>4, <1>5, <1>6 DEF Holds, r

-----------------------------------------------------------------------------
(* A datagram of the host's is a chunk of a frame that is not empty.       *)
LEMMA CutFacts ==
    ASSUME CutByHost, NEW p \in InFlight
    PROVE  /\ p.slidingWindow \in Nat \ {0} /\ p.size \in Nat /\ p.offset \in Nat
           /\ p.offset \in ChunksOf(p.slidingWindow)
           /\ p.size = LET left == p.slidingWindow - p.offset * PAYLOAD_SIZE
                       IN IF PAYLOAD_SIZE < left THEN PAYLOAD_SIZE ELSE left
<1>1. p.slidingWindow \in Nat /\ p.size \in Nat /\ p.offset \in Nat
  BY ClientAssumption DEF Datagrams
<1>2. p.offset \in ChunksOf(p.slidingWindow)
  BY DEF CutByHost, WellCut
<1>3. ChunksOf(0) = {}
  BY ClientAssumption DEF ChunksOf, PAYLOAD_SIZE
<1>4. QED
  BY <1>1, <1>2, <1>3 DEF CutByHost, WellCut

(* A datagram that is still to be counted is missing in its buffer, so its *)
(* frame has neither been handed over nor shown.                           *)
LEMMA FrameIsMissing ==
    ASSUME CutByHost, CutInv, NEW p \in InFlight, ToCount(p)
    PROVE  ~HandedOver(p.frame) /\ ~Retired(p.frame)
<1>1. p.frame \in Frames /\ p.offset \in ChunksOf(p.slidingWindow)
  BY DEF Frames, CutByHost, WellCut
<1>2. Whole(activeFrames[p.frame]) => p.offset \in activeFrames[p.frame].chunks
  BY <1>1 DEF CutInv, BuffersInv, Counted, Whole
<1>3. activeFrames[p.frame] # None => p.offset \notin activeFrames[p.frame].chunks
  BY DEF CutInv, BuffersInv
<1>4. ~HandedOver(p.frame)
  BY <1>1, <1>2, <1>3 DEF CutInv, HandedOverInv, Whole
<1>5. QED
  BY <1>4 DEF CutInv, RetiredInv

(* What is in some hand or place is a datagram or a frame, None is not.    *)
LEMMA Members ==
    ASSUME IInv
    PROVE  /\ \A p \in InFlight : p.frame \in Frames
           /\ \A p \in InFlight : p # None
           /\ \A f \in Frames : f # None
           /\ ~Holds(packetQueue, None) /\ ~Holds(frameNumQueue, None)
           /\ \A p : Holds(packetQueue, p) => p \in InFlight
           /\ \A f : Holds(frameNumQueue, f) => f \in Frames
<1>1. /\ \A p \in InFlight : p.frame \in Frames /\ p # None
      /\ \A f \in Frames : f # None
  BY ClientAssumption DEF Frames, Datagrams
<1>2. /\ \A p : Holds(packetQueue, p) => p \in InFlight
      /\ \A f : Holds(frameNumQueue, f) => f \in Frames
  BY LenProperties, ElementOfSeq DEF IInv, TypeOK, Holds
<1>3. QED
  BY <1>1, <1>2

(* Steps that leave the frames alone.                                      *)
FramesStay == UNCHANGED <<activeFrames, frameNumQueue, decoding, decoder, frameNumBmpQueue,
                          shown>>
LEMMA CutInvStays ==
    ASSUME CutInv, FramesStay, IInv', OnePlace', FrameBufferAlive',
           \A p \in InFlight : ToCount(p)' => ToCount(p)
    PROVE  CutInv'
<1>1. BuffersInv'
  BY DEF CutInv, BuffersInv, Counted, FramesStay
<1>2. HandedOverInv'
  BY DEF CutInv, HandedOverInv, HandedOver, NoTwice, Holds, Whole, FramesStay
<1>3. RetiredInv'
  BY DEF CutInv, RetiredInv, Retired, ShownOnce, NoTwice, Holds, FramesStay
<1>4. QED
  BY <1>1, <1>2, <1>3 DEF CutInv

(* A datagram goes from the path into the receiver's hand.                 *)
LEMMA ReceiveKeepsCut ==
    ASSUME CutInv, IInv', NEW p \in toClient, Receive(p)
    PROVE  CutInv'
<1> USE DEF CutInv
<1>1. p \in InFlight /\ toClient' = toClient \ {p}
      /\ UNCHANGED <<packetQueue, current, consumer, fbValid>> /\ FramesStay
  BY DEF IInv, TypeOK, Receive, queueVars, consumerVars, decoderVars, paintVars, FramesStay
<1>2. CASE held' = p /\ receiver' = "lock"
  <2>1. OnePlace'
    BY <1>1, <1>2 DEF OnePlace, Holds, NoTwice
  <2>2. \A q \in InFlight : ToCount(q)' => ToCount(q)
    BY <1>1, <1>2 DEF ToCount, InHand, Holds
  <2>3. QED
    BY <1>1, <2>1, <2>2, CutInvStays DEF FrameBufferAlive
<1>3. CASE held' = held /\ receiver' = "check"
  <2>1. OnePlace'
    BY <1>1, <1>3 DEF OnePlace, Holds, NoTwice
  <2>2. \A q \in InFlight : ToCount(q)' => ToCount(q)
    BY <1>1, <1>3 DEF ToCount, InHand, Holds
  <2>3. QED
    BY <1>1, <2>1, <2>2, CutInvStays DEF FrameBufferAlive
<1>4. QED
  BY <1>2, <1>3 DEF Receive

(* Then into the queue.                                                    *)
LEMMA ReceiverPushKeepsCut ==
    ASSUME CutInv, IInv', ReceiverPush
    PROVE  CutInv'
<1> USE DEF CutInv
<1>1. /\ receiver = "push" /\ receiver' = "release" /\ held \in InFlight
      /\ packetQueue' = Append(packetQueue, held) /\ packetQueue \in Seq(InFlight)
      /\ UNCHANGED <<toClient, held, current, consumer, fbValid>> /\ FramesStay
  BY DEF IInv, TypeOK, HandsInv, ReceiverPush, netVars, consumerVars, decoderVars, paintVars,
         FramesStay
<1>2. \A q : Holds(packetQueue', q) <=> Holds(packetQueue, q) \/ q = held
  BY <1>1, AppendHolds
<1>3. NoTwice(packetQueue')
  BY <1>1, AppendHolds DEF OnePlace
<1>4. OnePlace'
  BY <1>1, <1>2, <1>3 DEF OnePlace
<1>5. \A q \in InFlight : ToCount(q)' => ToCount(q)
  BY <1>1, <1>2 DEF ToCount, InHand
<1>6. QED
  BY <1>1, <1>4, <1>5, CutInvStays DEF FrameBufferAlive

(* The receiver's other steps.                                             *)
LEMMA ReceiverKeepsCut ==
    ASSUME CutInv, IInv', ReceiverCheck \/ ReceiveError \/ ReceiverLock \/ ReceiverRelease
    PROVE  CutInv'
<1> USE DEF CutInv
<1>1. UNCHANGED <<toClient, packetQueue, current, consumer, fbValid>> /\ FramesStay
  BY DEF ReceiverCheck, ReceiveError, ReceiverLock, ReceiverRelease, netVars, queueVars,
         consumerVars, decoderVars, paintVars, FramesStay
<1>2. \A q : InHand(q)' => InHand(q)
  BY DEF ReceiverCheck, ReceiveError, ReceiverLock, ReceiverRelease, InHand
<1>3. OnePlace'
  <2>1. \A p \in toClient : held' # p
    BY Members DEF ReceiverCheck, ReceiveError, ReceiverLock, ReceiverRelease, OnePlace, IInv,
                   TypeOK
  <2>2. receiver' \in {"lock", "push"} => receiver \in {"lock", "push"} /\ held' = held
    BY DEF ReceiverCheck, ReceiveError, ReceiverLock, ReceiverRelease
  <2>3. QED
    BY <1>1, <2>1, <2>2 DEF OnePlace
<1>4. \A q \in InFlight : ToCount(q)' => ToCount(q)
  BY <1>1, <1>2 DEF ToCount
<1>5. QED
  BY <1>1, <1>3, <1>4, CutInvStays DEF FrameBufferAlive

(* The consumer takes a datagram out of the queue.                         *)
LEMMA ConsumerPopKeepsCut ==
    ASSUME CutInv, IInv', ConsumerPop
    PROVE  CutInv'
<1> USE DEF CutInv
<1>1. /\ packetQueue \in Seq(InFlight) /\ packetQueue # <<>> /\ consumer' = "lookup"
      /\ packetQueue' = Tail(packetQueue) /\ current' = Head(packetQueue)
      /\ UNCHANGED <<toClient, held, receiver>> /\ FramesStay
  BY DEF IInv, TypeOK, PermitsInv, ConsumerPop, netVars, receiverVars, decoderVars, paintVars,
         FramesStay
<1>2. /\ \A q : Holds(packetQueue, q) <=> Holds(packetQueue', q) \/ q = current'
      /\ NoTwice(packetQueue') /\ ~Holds(packetQueue', current')
  BY <1>1, TailHolds DEF OnePlace
<1>3. OnePlace'
  BY <1>1, <1>2 DEF OnePlace
<1>4. \A q \in InFlight : ToCount(q)' => ToCount(q)
  BY <1>1, <1>2 DEF ToCount, InHand
<1>5. QED
  BY <1>1, <1>3, <1>4, CutInvStays DEF FrameBufferAlive
(* It decides to go for one, and obtains the mutex.                        *)
LEMMA ConsumerWaitKeepsCut ==
    ASSUME CutInv, IInv', ConsumerCheck \/ ConsumerLock
    PROVE  CutInv'
<1> USE DEF CutInv
<1>1. /\ UNCHANGED <<toClient, packetQueue, current, held, receiver>> /\ FramesStay
      /\ consumer' # "update"
  BY DEF ConsumerCheck, ConsumerLock, netVars, queueVars, receiverVars, decoderVars, paintVars,
         FramesStay
<1>2. OnePlace' /\ \A q \in InFlight : ToCount(q)' => ToCount(q)
  BY <1>1 DEF OnePlace, ToCount, InHand
<1>3. QED
  BY <1>1, <1>2, CutInvStays DEF FrameBufferAlive

(* The consumer finds the buffer, or makes one that has counted nothing.   *)
LEMMA ConsumerLookupKeepsCut ==
    ASSUME CutByHost, CutInv, IInv', ConsumerLookup
    PROVE  CutInv'
<1> USE DEF CutInv
<1> DEFINE f == current.frame
<1>1. /\ current \in InFlight /\ f \in Frames /\ consumer' = "update" /\ fbValid'
      /\ activeFrames \in [Frames -> Buffers \cup {None}]
      /\ UNCHANGED <<toClient, packetQueue, current, held, receiver, frameNumQueue, decoding,
                     decoder, frameNumBmpQueue, shown>>
  BY ConsumerBuffers DEF ConsumerLookup, IInv, TypeOK, netVars, queueVars, receiverVars,
                         decoderVars, paintVars
<1>2. current.slidingWindow \in Nat \ {0}
  BY <1>1, CutFacts
<1>3. activeFrames[f] # None => activeFrames' = activeFrames
  <2>1. SUFFICES ASSUME activeFrames[f] # None PROVE activeFrames' = activeFrames
    OBVIOUS
  <2>2. activeFrames[f].expectedSize = current.slidingWindow
    BY <1>1, <2>1 DEF BuffersInv, Counted
  <2>3. activeFrames' = [activeFrames EXCEPT ![f] = activeFrames[f]]
    BY <1>2, <2>1, <2>2 DEF ConsumerLookup
  <2>4. QED
    BY <1>1, <2>3
<1>4. activeFrames[f] = None =>
        activeFrames' = [activeFrames EXCEPT ![f] =
            [expectedSize |-> current.slidingWindow, totalSize |-> 0, chunks |-> {}]]
  <2>1. NewBuffer.expectedSize = 0 /\
        [NewBuffer EXCEPT !.expectedSize = current.slidingWindow] =
            [expectedSize |-> current.slidingWindow, totalSize |-> 0, chunks |-> {}]
    BY DEF NewBuffer
  <2>2. QED
    BY <2>1 DEF ConsumerLookup
<1>5. OnePlace' /\ FrameBufferAlive'
  BY <1>1 DEF OnePlace, FrameBufferAlive
<1>6. BuffersInv'
  <2> SUFFICES ASSUME NEW p \in InFlight, activeFrames'[p.frame] # None
               PROVE  /\ Counted(activeFrames'[p.frame], p.slidingWindow)
                      /\ ToCount(p)' => p.offset \notin activeFrames'[p.frame].chunks
    BY DEF BuffersInv, Counted
  <2>1. ToCount(p)' <=> ToCount(p)
    BY <1>1 DEF ToCount, InHand
  <2>2. p.frame \in Frames
    BY DEF Frames
  <2>3. CASE activeFrames'[p.frame] = activeFrames[p.frame]
    BY <2>1, <2>3 DEF BuffersInv
  <2>4. CASE activeFrames'[p.frame] # activeFrames[p.frame]
    <3>1. p.frame = f /\ activeFrames[f] = None
      BY <1>1, <1>3, <1>4, <2>2, <2>4
    <3>2. activeFrames'[p.frame] =
            [expectedSize |-> current.slidingWindow, totalSize |-> 0, chunks |-> {}]
      BY <1>1, <1>4, <3>1
    <3>3. p.slidingWindow = current.slidingWindow
      BY <1>1, <3>1 DEF CutByHost, WellCut
    <3>4. SizeOf({}, p.slidingWindow) = 0
      <4>1. {} \ {LastChunk(p.slidingWindow)} = {}
        OBVIOUS
      <4>2. Cardinality({}) = 0 /\ PAYLOAD_SIZE \in Nat
        BY FS_EmptySet, ClientAssumption DEF PAYLOAD_SIZE
      <4>3. QED
        BY <4>1, <4>2 DEF SizeOf
    <3>5. QED
      BY <3>2, <3>3, <3>4 DEF Counted
  <2>5. QED
    BY <2>3, <2>4
<1>7. HandedOverInv' /\ RetiredInv'
  <2>1. ~HandedOver(f)
    BY <1>1, FrameIsMissing DEF ToCount
  <2>2. \A g \in Frames : HandedOver(g) => activeFrames'[g] = activeFrames[g]
    BY <1>1, <1>3, <1>4, <2>1
  <2>3. HandedOverInv'
    BY <1>1, <2>2 DEF HandedOverInv, HandedOver, Whole
  <2>4. RetiredInv'
    BY <1>1 DEF RetiredInv, Retired, ShownOnce, ToCount, InHand
  <2>5. QED
    BY <2>3, <2>4
<1>8. QED
  BY <1>5, <1>6, <1>7

(* It counts the datagram; if that completes the frame, the frame is whole. *)
LEMMA ConsumerUpdateKeepsCut ==
    ASSUME CutByHost, CutInv, IInv', ConsumerUpdate
    PROVE  CutInv'
<1> USE DEF CutInv
<1> DEFINE f == current.frame
           fb == activeFrames[f]
           new == activeFrames'[f]
           size == current.slidingWindow
<1>1. /\ current \in InFlight /\ f \in Frames /\ fbValid /\ fb # None /\ fb \in Buffers
      /\ activeFrames \in [Frames -> Buffers \cup {None}]
      /\ frameNumQueue \in Seq(Frames)
      /\ consumer' = "check" /\ current' = None
      /\ UNCHANGED <<toClient, packetQueue, held, receiver, decoding, decoder,
                     frameNumBmpQueue, shown>>
  BY ConsumerBuffers DEF ConsumerUpdate, IInv, TypeOK, HandsInv, FrameBufferAlive, netVars,
                         receiverVars, decoderVars, paintVars
<1>2. /\ activeFrames' = [activeFrames EXCEPT ![f] =
              [fb EXCEPT !.totalSize = @ + current.size,
                         !.chunks = @ \cup {current.offset}]]
      /\ frameNumQueue' = IF new.totalSize = new.expectedSize
                          THEN Append(frameNumQueue, f) ELSE frameNumQueue
  BY <1>1 DEF ConsumerUpdate
<1>3. /\ new.expectedSize = fb.expectedSize /\ new # None
      /\ new.totalSize = fb.totalSize + current.size
      /\ new.chunks = fb.chunks \cup {current.offset}
  <2>1. new = [fb EXCEPT !.totalSize = @ + current.size, !.chunks = @ \cup {current.offset}]
    BY <1>1, <1>2
  <2>2. new \in Buffers
    <3>1. current.size \in Nat /\ current.offset \in Nat
      BY <1>1, CutFacts
    <3> HIDE DEF fb, new
    <3>2. QED
      BY <1>1, <2>1, <3>1, CountedIn
  <2>3. QED
    BY <1>1, <2>1, <2>2, ClientAssumption DEF Buffers
<1>4. size \in Nat \ {0} /\ current.offset \in ChunksOf(size)
  BY <1>1, CutFacts
<1>5. Counted(fb, size) /\ current.offset \notin fb.chunks
  BY <1>1 DEF BuffersInv, ToCount
<1>6. Counted(new, size)
  <2>1. SizeOf(new.chunks, size) = SizeOf(fb.chunks, size) + current.size
    <3>1. fb.chunks \in SUBSET ChunksOf(size)
      BY <1>5 DEF Counted
    <3>2. current.size = LET left == size - current.offset * PAYLOAD_SIZE
                         IN IF PAYLOAD_SIZE < left THEN PAYLOAD_SIZE ELSE left
      BY <1>1, CutFacts
    <3> HIDE DEF fb, new, size
    <3>3. QED
      BY <1>3, <1>4, <1>5, <3>1, <3>2, SizeOfMore
  <2>2. QED
    BY <1>3, <1>4, <1>5, <2>1 DEF Counted
<1>7. new.totalSize = new.expectedSize => Whole(new)
  BY <1>3, <1>4, <1>6, WholeWhenSizesMatch DEF Counted, Whole
<1>8. ~HandedOver(f) /\ ~Retired(f)
  BY <1>1, FrameIsMissing DEF ToCount
<1>9. \A q \in InFlight : ToCount(q)' => ToCount(q) /\ q # current
  <2>1. current # None /\ (receiver \in {"lock", "push"} => held # current)
        /\ ~Holds(packetQueue, current) /\ current \notin toClient
    BY <1>1, Members DEF OnePlace
  <2>2. QED
    BY <1>1, <2>1, Members DEF ToCount, InHand
<1> HIDE DEF new, fb
<1>10. OnePlace' /\ FrameBufferAlive'
  BY <1>1, Members DEF OnePlace, FrameBufferAlive, IInv, TypeOK, HandsInv
<1>11. BuffersInv'
  <2> SUFFICES ASSUME NEW p \in InFlight, activeFrames'[p.frame] # None
               PROVE  /\ Counted(activeFrames'[p.frame], p.slidingWindow)
                      /\ ToCount(p)' => p.offset \notin activeFrames'[p.frame].chunks
    BY DEF BuffersInv, Counted
  <2>1. CASE p.frame = f
    <3>1. p.slidingWindow = size /\ (p # current => p.offset # current.offset)
      BY <1>1, <2>1 DEF CutByHost, WellCut
    <3>2. Counted(activeFrames'[p.frame], p.slidingWindow)
      BY <1>6, <2>1, <3>1 DEF new
    <3>3. ToCount(p)' => p.offset \notin fb.chunks
      BY <1>1, <1>9, <2>1 DEF BuffersInv, fb
    <3>4. QED
      BY <1>3, <1>9, <2>1, <3>1, <3>2, <3>3 DEF new
  <2>2. CASE p.frame # f
    <3>1. activeFrames'[p.frame] = activeFrames[p.frame]
      BY <1>1, <1>2, <2>2 DEF Frames
    <3>2. QED
      BY <1>9, <3>1 DEF BuffersInv
  <2>3. QED
    BY <2>1, <2>2
<1>12. HandedOverInv' /\ RetiredInv'
  <2>1. \A g \in Frames : g # f => activeFrames'[g] = activeFrames[g]
    BY <1>1, <1>2
  <2>2. CASE new.totalSize = new.expectedSize
    <3>1. /\ \A g : Holds(frameNumQueue', g) <=> Holds(frameNumQueue, g) \/ g = f
          /\ NoTwice(frameNumQueue')
      BY <1>1, <1>2, <1>8, <2>2, AppendHolds DEF HandedOverInv, HandedOver
    <3>2. HandedOverInv'
      BY <1>1, <1>7, <1>8, <2>1, <2>2, <3>1 DEF HandedOverInv, HandedOver, Whole, new
    <3>3. RetiredInv'
      BY <1>1, <1>8, <1>9, <3>1 DEF RetiredInv, Retired, ShownOnce
    <3>4. QED
      BY <3>2, <3>3
  <2>3. CASE new.totalSize # new.expectedSize
    <3>1. frameNumQueue' = frameNumQueue
      BY <1>2, <2>3
    <3>2. HandedOverInv'
      BY <1>1, <1>8, <2>1, <3>1 DEF HandedOverInv, HandedOver, Whole
    <3>3. RetiredInv'
      BY <1>1, <1>9, <3>1 DEF RetiredInv, Retired, ShownOnce
    <3>4. QED
      BY <3>2, <3>3
  <2>4. QED
    BY <2>2, <2>3
<1>13. QED
  BY <1>10, <1>11, <1>12
(* The decoder takes over the first of the frames that are whole.          *)
LEMMA DecoderCheckKeepsCut ==
    ASSUME CutInv, IInv', DecoderCheck
    PROVE  CutInv'
<1> USE DEF CutInv
<1>1. UNCHANGED <<toClient, packetQueue, current, held, receiver, consumer, fbValid,
                  activeFrames, frameNumBmpQueue, shown>>
  BY DEF DecoderCheck, netVars, queueVars, receiverVars, consumerVars, paintVars
<1>2. OnePlace' /\ BuffersInv' /\ FrameBufferAlive'
  BY <1>1 DEF OnePlace, BuffersInv, Counted, ToCount, InHand, FrameBufferAlive
<1>3. CASE decoding' = decoding /\ frameNumQueue' = frameNumQueue
  <2>1. HandedOverInv'
    BY <1>1, <1>3 DEF HandedOverInv, HandedOver, Whole
  <2>2. decoding = None
    BY <1>3, Members DEF DecoderCheck, IInv, HandsInv
  <2>3. RetiredInv'
    BY <1>1, <1>3, <2>2, Members DEF RetiredInv, Retired, ShownOnce, ToCount, InHand
  <2>4. QED
    BY <1>2, <2>1, <2>3
<1>4. CASE /\ frameNumQueue # <<>> /\ decoder = "check"
           /\ decoding' = Head(frameNumQueue) /\ frameNumQueue' = Tail(frameNumQueue)
  <2>1. frameNumQueue \in Seq(Frames)
    BY DEF IInv, TypeOK
  <2>2. /\ \A f : Holds(frameNumQueue, f) <=> Holds(frameNumQueue', f) \/ f = decoding'
        /\ NoTwice(frameNumQueue') /\ ~Holds(frameNumQueue', decoding')
    BY <1>4, <2>1, TailHolds DEF HandedOverInv
  <2>3. HandedOverInv'
    BY <1>1, <2>2 DEF HandedOverInv, HandedOver, Whole
  <2>4. RetiredInv'
    BY <1>1, <2>2 DEF RetiredInv, Retired, ShownOnce, ToCount, InHand
  <2>5. QED
    BY <1>2, <2>3, <2>4
<1>5. QED
  BY <1>3, <1>4 DEF DecoderCheck

(* It makes the bitmap of a whole frame, puts it in the queue of those to  *)
(* be shown, and erases the buffer.                                        *)
LEMMA DecoderKeepsCut ==
    ASSUME CutByHost, CutInv, IInv', DecoderDecode \/ DecoderPush \/ DecoderErase
    PROVE  CutInv'
<1> USE DEF CutInv
<1>1. /\ UNCHANGED <<toClient, packetQueue, current, held, receiver, consumer, frameNumQueue,
                     shown>>
      /\ decoding \in Frames
  BY DEF DecoderDecode, DecoderPush, DecoderErase, netVars, queueVars, receiverVars,
         consumerVars, paintVars, IInv, TypeOK, HandsInv
<1>2. Whole(activeFrames[decoding]) /\ activeFrames \in [Frames -> Buffers \cup {None}]
  BY <1>1 DEF HandedOverInv, HandedOver, IInv, TypeOK
<1>3. OnePlace' /\ \A q \in InFlight : ToCount(q)' <=> ToCount(q)
  BY <1>1 DEF OnePlace, ToCount, InHand
<1>4. CASE DecoderDecode
  <2>1. /\ UNCHANGED <<activeFrames, fbValid, decoding, frameNumBmpQueue>>
        /\ decoder = "decode"
    BY <1>2, <1>4 DEF DecoderDecode, Whole, consumerVars, paintVars
  <2>2. BuffersInv' /\ HandedOverInv' /\ FrameBufferAlive'
    BY <1>1, <1>3, <2>1 DEF BuffersInv, Counted, HandedOverInv, HandedOver, Whole,
                            FrameBufferAlive
  <2>3. RetiredInv'
    BY <1>1, <1>3, <2>1 DEF RetiredInv, Retired, ShownOnce
  <2>4. QED
    BY <1>3, <2>2, <2>3
<1>5. CASE DecoderPush
  <2>1. /\ UNCHANGED <<activeFrames, fbValid, decoding>> /\ decoder' = "erase"
        /\ frameNumBmpQueue' = Append(frameNumBmpQueue, decoding)
        /\ frameNumBmpQueue \in Seq(Frames)
    BY <1>5 DEF DecoderPush, consumerVars, IInv, TypeOK
  <2>2. BuffersInv' /\ HandedOverInv' /\ FrameBufferAlive'
    BY <1>1, <1>3, <2>1 DEF BuffersInv, Counted, HandedOverInv, HandedOver, Whole,
                            FrameBufferAlive
  <2>3. ~Retired(decoding)
    BY <1>1, <1>5 DEF DecoderPush, RetiredInv
  <2>4. /\ \A f : Holds(frameNumBmpQueue', f) <=> Holds(frameNumBmpQueue, f) \/ f = decoding
        /\ NoTwice(frameNumBmpQueue')
    BY <1>1, <2>1, <2>3, AppendHolds DEF RetiredInv, Retired
  <2>5. \A p \in InFlight : p.frame = decoding => ~ToCount(p)
    BY FrameIsMissing DEF HandedOver
  <2>6. RetiredInv'
    BY <1>1, <1>3, <2>1, <2>3, <2>4, <2>5 DEF RetiredInv, Retired, ShownOnce, HandedOverInv
  <2>7. QED
    BY <1>3, <2>2, <2>6
<1>6. CASE DecoderErase
  <2>1. /\ UNCHANGED frameNumBmpQueue /\ decoding' = None
        /\ activeFrames' = [activeFrames EXCEPT ![decoding] = None]
        /\ fbValid' = (fbValid /\ current.frame # decoding)
    BY <1>6 DEF DecoderErase, paintVars
  <2>2. FrameBufferAlive'
    <3>1. SUFFICES ASSUME consumer = "update" PROVE current.frame # decoding
      BY <1>1, <2>1 DEF FrameBufferAlive
    <3>2. current \in InFlight
      BY <3>1 DEF IInv, TypeOK, HandsInv
    <3>3. QED
      BY <3>2, FrameIsMissing DEF ToCount, HandedOver
  <2>3. BuffersInv'
    <3> SUFFICES ASSUME NEW p \in InFlight, activeFrames'[p.frame] # None
                 PROVE  /\ Counted(activeFrames'[p.frame], p.slidingWindow)
                        /\ ToCount(p)' => p.offset \notin activeFrames'[p.frame].chunks
      BY DEF BuffersInv, Counted
    <3>1. activeFrames'[p.frame] = activeFrames[p.frame]
      BY <1>2, <2>1 DEF Frames
    <3>2. QED
      BY <1>3, <3>1 DEF BuffersInv
  <2>4. HandedOverInv'
    <3>1. \A f \in Frames : HandedOver(f)' => HandedOver(f) /\ f # decoding
      BY <1>1, <2>1, Members DEF HandedOver, HandedOverInv
    <3>2. \A f \in Frames : f # decoding => activeFrames'[f] = activeFrames[f]
      BY <1>2, <2>1
    <3>3. QED
      BY <1>1, <2>1, <3>1, <3>2, Members DEF HandedOverInv, Whole
  <2>5. RetiredInv'
    BY <1>1, <1>3, <2>1, Members DEF RetiredInv, Retired, ShownOnce
  <2>6. QED
    BY <1>3, <2>2, <2>3, <2>4, <2>5
<1>7. QED
  BY <1>4, <1>5, <1>6

(* The window shows a bitmap and takes it out of the queue.                *)
LEMMA PaintShowKeepsCut ==
    ASSUME CutInv, IInv', PaintShow
    PROVE  CutInv'
<1> USE DEF CutInv
<1>1. UNCHANGED <<toClient, packetQueue, current, held, receiver, consumer, fbValid,
                  activeFrames, frameNumQueue, decoding, decoder>>
  BY DEF PaintShow, netVars, queueVars, receiverVars, consumerVars, decoderVars
<1>2. OnePlace' /\ BuffersInv' /\ HandedOverInv' /\ FrameBufferAlive'
  BY <1>1 DEF OnePlace, BuffersInv, Counted, ToCount, InHand, HandedOverInv, HandedOver, Whole,
              FrameBufferAlive
<1>3. PICK i \in DOMAIN frameNumBmpQueue :
         /\ shown' = Append(shown, frameNumBmpQueue[i])
         /\ frameNumBmpQueue' = RemoveAt(frameNumBmpQueue, i)
  BY DEF PaintShow
<1> DEFINE f == frameNumBmpQueue[i]
<1>4. frameNumBmpQueue \in Seq(Frames) /\ shown \in Seq(Frames) /\ f \in Frames
  BY LenProperties, ElementOfSeq DEF IInv, TypeOK
<1>5. /\ Holds(frameNumBmpQueue, f) /\ ~Holds(frameNumBmpQueue', f)
      /\ \A g : Holds(frameNumBmpQueue', g) => Holds(frameNumBmpQueue, g)
      /\ NoTwice(frameNumBmpQueue')
  BY <1>3, <1>4, RemoveAtHolds DEF RetiredInv
<1>6. ~Holds(shown, f)
  BY <1>4, <1>5 DEF RetiredInv
<1>7. NoTwice(shown') /\ \A g : Holds(shown', g) <=> Holds(shown, g) \/ g = f
  BY <1>3, <1>4, <1>6, AppendHolds DEF RetiredInv, ShownOnce
<1> HIDE DEF f
<1>8. \A g : Retired(g)' => Retired(g)
  BY <1>5, <1>7 DEF Retired
<1>9. \A q \in InFlight : ToCount(q)' <=> ToCount(q)
  BY <1>1 DEF ToCount, InHand
<1>10. RetiredInv'
  BY <1>1, <1>5, <1>7, <1>8, <1>9 DEF RetiredInv, ShownOnce
<1>11. QED
  BY <1>2, <1>10

(* The timer, and what else the window's thread does.                      *)
LEMMA WindowKeepsCut ==
    ASSUME CutInv, IInv', Timer \/ PaintCheck \/ CloseSocket \/ Join \/ Quit
    PROVE  CutInv'
<1> USE DEF CutInv
<1>1. /\ UNCHANGED <<toClient, packetQueue, current, held, receiver, consumer, fbValid>>
      /\ FramesStay
  BY DEF Timer, TimerArm, TimerInvalidate, PaintCheck, CloseSocket, Join, Quit, netVars,
         queueVars, receiverVars, consumerVars, decoderVars, paintVars, FramesStay
<1>2. OnePlace' /\ FrameBufferAlive' /\ \A q \in InFlight : ToCount(q)' => ToCount(q)
  BY <1>1 DEF OnePlace, FrameBufferAlive, ToCount, InHand
<1>3. QED
  BY <1>1, <1>2, CutInvStays

(* All datagrams are on their way at the start.                            *)
LEMMA InitCutInv == Init => CutInv
<1> SUFFICES ASSUME Init PROVE CutInv
  OBVIOUS
<1>1. IInv
  BY InitIInv
<1>2. /\ \A e : ~Holds(packetQueue, e) /\ ~Holds(frameNumQueue, e)
                /\ ~Holds(frameNumBmpQueue, e) /\ ~Holds(shown, e)
      /\ NoTwice(packetQueue) /\ NoTwice(frameNumQueue) /\ NoTwice(frameNumBmpQueue)
      /\ NoTwice(shown)
  BY DEF Init, ClientInit, Holds, NoTwice
<1>3. OnePlace
  BY <1>1, <1>2, Members DEF OnePlace, Init, ClientInit
<1>4. BuffersInv
  BY DEF BuffersInv, Init, ClientInit, Frames
<1>5. HandedOverInv /\ RetiredInv /\ FrameBufferAlive
  BY <1>1, <1>2, Members DEF HandedOverInv, HandedOver, RetiredInv, Retired, ShownOnce,
                             FrameBufferAlive, Init, ClientInit
<1>6. QED
  BY <1>1, <1>3, <1>4, <1>5 DEF CutInv

(* Every step keeps the invariant, if the datagrams are the host's.        *)
LEMMA NextCutInv == CutByHost => (CutInv /\ [ClientNext]_vars => CutInv')
<1> SUFFICES ASSUME CutByHost, CutInv, [ClientNext]_vars PROVE CutInv'
  OBVIOUS
<1>1. IInv'
  BY NextIInv DEF CutInv
<1>2. ASSUME NEW p \in toClient, Receive(p) PROVE CutInv'
  BY <1>1, <1>2, ReceiveKeepsCut
<1>3. CASE Receiver \/ ReceiverLock
  BY <1>1, <1>3, ReceiverKeepsCut, ReceiverPushKeepsCut DEF Receiver
<1>4. CASE Consumer \/ ConsumerLock
  BY <1>1, <1>4, ConsumerWaitKeepsCut, ConsumerPopKeepsCut, ConsumerLookupKeepsCut,
     ConsumerUpdateKeepsCut DEF Consumer
<1>5. CASE Decoder \/ DecoderPush
  BY <1>1, <1>5, DecoderCheckKeepsCut, DecoderKeepsCut DEF Decoder
<1>6. CASE Timer \/ Window \/ Quit
  BY <1>1, <1>6, PaintShowKeepsCut, WindowKeepsCut DEF Window
<1>7. CASE UNCHANGED vars
  <2>1. /\ UNCHANGED <<toClient, packetQueue, current, held, receiver, consumer, fbValid>>
        /\ FramesStay
    BY <1>7 DEF vars, clientVars, netVars, queueVars, receiverVars, consumerVars, decoderVars,
                paintVars, FramesStay
  <2>2. OnePlace' /\ FrameBufferAlive' /\ \A q \in InFlight : ToCount(q)' => ToCount(q)
    BY <2>1 DEF CutInv, OnePlace, FrameBufferAlive, ToCount, InHand
  <2>3. QED
    BY <1>1, <2>1, <2>2, CutInvStays
<1>8. QED
  BY <1>2, <1>3, <1>4, <1>5, <1>6, <1>7 DEF ClientNext

(* Every frame that the decoder is handed is whole, in whatever order its  *)
(* datagrams arrive, if the host cut it and no datagram arrives twice.     *)
THEOREM FramesAreWhole == CutByHost => (Safety => []HandedOverIsWhole)
<1> SUFFICES ASSUME CutByHost PROVE Safety => []HandedOverIsWhole
  OBVIOUS
<1>1. CutInv => HandedOverIsWhole
  BY LenProperties, ElementOfSeq
     DEF CutInv, HandedOverInv, HandedOver, Holds, HandedOverIsWhole, IInv, TypeOK
<1>2. CutInv /\ [ClientNext]_vars => CutInv'
  BY NextCutInv
<1>3. QED
  BY <1>1, <1>2, InitCutInv, PTL DEF Safety

(* Then the decoder never erases the buffer that the consumer refers to,   *)
(* although it does so without dataMutex.                                  *)
THEOREM BuffersOutliveReferences == CutByHost => (Safety => []FrameBufferAlive)
<1> SUFFICES ASSUME CutByHost PROVE Safety => []FrameBufferAlive
  OBVIOUS
<1>1. CutInv => FrameBufferAlive
  BY DEF CutInv
<1>2. CutInv /\ [ClientNext]_vars => CutInv'
  BY NextCutInv
<1>3. QED
  BY <1>1, <1>2, InitCutInv, PTL DEF Safety

(* And no frame is shown twice: the safe half of EachFrameShown.           *)
THEOREM NoFrameShownTwice == CutByHost => (Safety => []ShownOnce)
<1> SUFFICES ASSUME CutByHost PROVE Safety => []ShownOnce
  OBVIOUS
<1>1. CutInv => ShownOnce
  BY DEF CutInv, RetiredInv
<1>2. CutInv /\ [ClientNext]_vars => CutInv'
  BY NextCutInv
<1>3. QED
  BY <1>1, <1>2, InitCutInv, PTL DEF Safety
=============================================================================
