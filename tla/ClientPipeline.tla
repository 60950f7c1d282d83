--------------------------- MODULE ClientPipeline ---------------------------
(***************************************************************************)
(* The viewer of VideoClient/main.cpp: a receiver thread acknowledges the  *)
(* host's datagrams and queues them, a consumer thread puts the chunks of  *)
(* each frame together in activeFrames, a decoder thread turns finished    *)
(* frames into bitmaps, a timer thread asks for repaints and the window's  *)
(* thread shows the bitmap with the least frame number, until it is told   *)
(* to quit and joins the others.  packetQueue is modelled with its         *)
(* semaphore, because the consumer pops it while it owns dataMutex; the    *)
(* other two queues are the atomic ones of QueueSpec.                      *)
(***************************************************************************)
EXTENDS Integers, Sequences, FiniteSets, SequencesExt

CONSTANTS
    PACKET_SIZE, HEADER_SIZE,   \* as compiled into the client
    InFlight,                   \* datagrams the host has on their way at the start
    MaxReceives,                \* bound of the model: datagrams received
    None                        \* no datagram, no buffer, no owner

PAYLOAD_SIZE == PACKET_SIZE - HEADER_SIZE

(* rtmp_packet and FrameBuffer, as far as they are looked at.              *)
Datagrams == [seq : Nat, frame : Nat, offset : Nat, size : Nat, slidingWindow : Nat]
Buffers == [expectedSize : Nat, totalSize : Nat, chunks : SUBSET Nat]

ASSUME ClientAssumption ==
    /\ HEADER_SIZE \in Nat /\ PACKET_SIZE \in Nat /\ HEADER_SIZE < PACKET_SIZE
    /\ MaxReceives \in Nat
    /\ InFlight \subseteq Datagrams
    /\ None \notin InFlight \cup Buffers \cup Nat \cup {"receiver", "consumer", "ui"}

VARIABLES
    toClient,       \* datagrams on their way to the client
    toHost,         \* acknowledgements sent to the host
    globalOn,       \* the flag all threads run on
    socketOpen,     \* clientSock
    receives,       \* datagrams received so far
    receiver, held,             \* the receiver thread, the datagram in its hands
    packetQueue, permits,       \* packetQueue: container and semaphore
    dataMutex,                  \* owner: "receiver", "consumer" or None
    consumer, current, fbValid, \* the consumer thread, its datagram, is its fb alive?
    activeFrames,               \* frame number -> FrameBuffer, or None if absent
    frameNumQueue,              \* frames handed to the decoder
    decoder, decoding, decoded, \* the decoder thread, its frame, its bitmap or None
    frameNumBmpQueue,           \* bitmaps to be shown, by frame number
    loadFrame, paintDue,        \* the timer's flag, WM_PAINT pending
    timer, ui,                  \* the timer thread, the window's thread
    bmpMutex,                   \* owner: "ui" or None
    shown                       \* history: bitmaps shown, in order

netVars == <<toClient, toHost>>
queueVars == <<packetQueue, permits, dataMutex>>
receiverVars == <<receives, receiver, held>>
consumerVars == <<consumer, current, fbValid>>
decoderVars == <<decoder, decoding, decoded>>
paintVars == <<frameNumBmpQueue, loadFrame, paintDue, bmpMutex, shown>>
lifeVars == <<globalOn, socketOpen, timer, ui>>
clientVars == <<queueVars, receiverVars, consumerVars, decoderVars, paintVars,
                lifeVars, activeFrames, frameNumQueue>>
vars == <<netVars, clientVars>>

Frames == {p.frame : p \in InFlight}
NewBuffer == [expectedSize |-> 0, totalSize |-> 0, chunks |-> {}]

TypeOK ==
    /\ toClient \subseteq InFlight /\ toHost \subseteq {p.seq : p \in InFlight}
    /\ globalOn \in BOOLEAN /\ socketOpen \in BOOLEAN
    /\ receives \in 0..MaxReceives
    /\ receiver \in {"check", "recv", "lock", "push", "release", "done"}
    /\ held \in InFlight \cup {None}
    /\ packetQueue \in Seq(InFlight) /\ permits \in Nat
    /\ dataMutex \in {"receiver", "consumer", None}
    /\ consumer \in {"check", "lock", "pop", "lookup", "update", "done"}
    /\ current \in InFlight \cup {None} /\ fbValid \in BOOLEAN
    /\ activeFrames \in [Frames -> Buffers \cup {None}]
    /\ frameNumQueue \in Seq(Frames)
    /\ decoder \in {"check", "decode", "push", "erase", "done"}
    /\ decoding \in Frames \cup {None}
    /\ decoded \in BOOLEAN
    /\ frameNumBmpQueue \in Seq(Frames) /\ shown \in Seq(Frames)
    /\ loadFrame \in BOOLEAN /\ paintDue \in BOOLEAN
    /\ timer \in {"arm", "invalidate", "done"}
    /\ ui \in {"loop", "paint", "close", "join_timer", "join_decoder",
               "join_consumer", "join_receiver", "exited"}
    /\ bmpMutex \in {"ui", None}

ClientInit ==
    /\ globalOn = TRUE /\ socketOpen = TRUE
    /\ receives = 0 /\ receiver = "check" /\ held = None
    /\ packetQueue = <<>> /\ permits = 0 /\ dataMutex = None
    /\ consumer = "check" /\ current = None /\ fbValid = FALSE
    /\ activeFrames = [f \in Frames |-> None] /\ frameNumQueue = <<>>
    /\ decoder = "check" /\ decoding = None /\ decoded = FALSE
    /\ frameNumBmpQueue = <<>> /\ loadFrame = FALSE /\ paintDue = FALSE
    /\ timer = "arm" /\ ui = "loop" /\ bmpMutex = None /\ shown = <<>>

Init == ClientInit /\ toClient = InFlight /\ toHost = {}

-----------------------------------------------------------------------------
(* receiverThread() *)

ReceiverCheck ==
    /\ receiver = "check"
    /\ receiver' = IF globalOn THEN "recv" ELSE "done"
    /\ UNCHANGED <<netVars, queueVars, receives, held, consumerVars, decoderVars,
                   paintVars, lifeVars, activeFrames, frameNumQueue>>

(* Mutant: a truncated datagram is acknowledged as well.                   *)
ReceiveAcksAll(p) ==
    /\ receiver = "recv" /\ socketOpen /\ p \in toClient
    /\ receives < MaxReceives /\ receives' = receives + 1
    /\ toClient' = toClient \ {p} /\ toHost' = toHost \cup {p.seq}
    /\ held' = p /\ receiver' = "lock"
    /\ UNCHANGED <<queueVars, consumerVars, decoderVars, paintVars, lifeVars,
                   activeFrames, frameNumQueue>>

(* recvfrom and the acknowledgement, which leaves BEFORE the datagram is   *)
(* queued; a datagram longer than the buffer is an error and is dropped.   *)
Receive(p) ==
    /\ receiver = "recv" /\ socketOpen
    /\ p \in toClient
    /\ receives < MaxReceives /\ receives' = receives + 1
    /\ toClient' = toClient \ {p}
    /\ IF p.size + HEADER_SIZE <= PACKET_SIZE
       THEN toHost' = toHost \cup {p.seq} /\ held' = p /\ receiver' = "lock"
       ELSE receiver' = "check" /\ UNCHANGED <<toHost, held>>
    /\ UNCHANGED <<queueVars, consumerVars, decoderVars, paintVars, lifeVars,
                   activeFrames, frameNumQueue>>

(* recvfrom fails at once on the closed socket.                            *)
ReceiveError ==
    /\ receiver = "recv" /\ ~socketOpen
    /\ receiver' = "check"
    /\ UNCHANGED <<netVars, queueVars, receives, held, consumerVars, decoderVars,
                   paintVars, lifeVars, activeFrames, frameNumQueue>>

(* Mutant: the receiver only tries to lock, and drops the datagram.        *)
ReceiverTryLock ==
    /\ receiver = "lock"
    /\ IF dataMutex = None
       THEN dataMutex' = "receiver" /\ receiver' = "push" /\ held' = held
       ELSE dataMutex' = dataMutex /\ receiver' = "check" /\ held' = None
    /\ UNCHANGED <<netVars, packetQueue, permits, receives, consumerVars, decoderVars,
                   paintVars, lifeVars, activeFrames, frameNumQueue>>

ReceiverLock ==
    /\ receiver = "lock"
    /\ dataMutex = None /\ dataMutex' = "receiver"
    /\ receiver' = "push"
    /\ UNCHANGED <<netVars, packetQueue, permits, receives, held, consumerVars,
                   decoderVars, paintVars, lifeVars, activeFrames, frameNumQueue>>

(* Mutant: the mutex is given back between the item and its permit.        *)
ReceiverPushUnlocks ==
    /\ receiver = "push" /\ receiver' = "release"
    /\ packetQueue' = Append(packetQueue, held)
    /\ dataMutex' = None
    /\ UNCHANGED <<netVars, permits, receives, held, consumerVars, decoderVars,
                   paintVars, lifeVars, activeFrames, frameNumQueue>>

ReceiverPush ==
    /\ receiver = "push"
    /\ packetQueue' = Append(packetQueue, held)
    /\ receiver' = "release"
    /\ UNCHANGED <<netVars, permits, dataMutex, receives, held, consumerVars,
                   decoderVars, paintVars, lifeVars, activeFrames, frameNumQueue>>

ReceiverRelease ==
    /\ receiver = "release"
    /\ permits' = permits + 1
    /\ dataMutex' = None
    /\ held' = None /\ receiver' = "check"
    /\ UNCHANGED <<netVars, packetQueue, receives, consumerVars, decoderVars,
                   paintVars, lifeVars, activeFrames, frameNumQueue>>

-----------------------------------------------------------------------------
(* consumerThread() *)

(* isEmpty() is asked without the mutex.                                   *)
ConsumerCheck ==
    /\ consumer = "check"
    /\ \/ ~globalOn /\ consumer' = "done"
       \/ globalOn /\ packetQueue # <<>> /\ consumer' = "lock"
    /\ UNCHANGED <<netVars, queueVars, receiverVars, current, fbValid, decoderVars,
                   paintVars, lifeVars, activeFrames, frameNumQueue>>

ConsumerLock ==
    /\ consumer = "lock"
    /\ dataMutex = None /\ dataMutex' = "consumer"
    /\ consumer' = "pop"
    /\ UNCHANGED <<netVars, packetQueue, permits, receiverVars, current, fbValid,
                   decoderVars, paintVars, lifeVars, activeFrames, frameNumQueue>>

ConsumerPop ==
    /\ consumer = "pop"
    /\ permits > 0 /\ permits' = permits - 1
    /\ current' = Head(packetQueue) /\ packetQueue' = Tail(packetQueue)
    /\ consumer' = "lookup"
    /\ UNCHANGED <<netVars, dataMutex, receiverVars, fbValid, decoderVars, paintVars,
                   lifeVars, activeFrames, frameNumQueue>>

(* Mutant: a new buffer expects the size of the chunk, not of the frame.   *)
ConsumerLookupChunk ==
    /\ consumer = "lookup" /\ consumer' = "update" /\ fbValid' = TRUE
    /\ activeFrames' = [activeFrames EXCEPT ![current.frame] =
          IF @ = None THEN [NewBuffer EXCEPT !.expectedSize = current.size] ELSE @]
    /\ UNCHANGED <<netVars, queueVars, receiverVars, current, decoderVars, paintVars,
                   lifeVars, frameNumQueue>>

(* activeFrames[frameNum] finds or creates the buffer; an empty one is     *)
(* given the frame's size.  A datagram of another type would be skipped,   *)
(* but the host sends the stream's only.                                   *)
ConsumerLookup ==
    /\ consumer = "lookup"
    /\ LET old == IF activeFrames[current.frame] = None THEN NewBuffer
                                                        ELSE activeFrames[current.frame]
           new == IF old.expectedSize = 0
                  THEN [old EXCEPT !.expectedSize = current.slidingWindow] ELSE old
       IN activeFrames' = [activeFrames EXCEPT ![current.frame] = new]
    /\ fbValid' = TRUE
    /\ consumer' = "update"
    /\ UNCHANGED <<netVars, queueVars, receiverVars, current, decoderVars, paintVars,
                   lifeVars, frameNumQueue>>

(* The rest of the loop body, through the reference fb.  What is written   *)
(* after the decoder has erased the buffer lands in freed memory, where    *)
(* the comparison may find anything.                                       *)
ConsumerUpdate ==
    /\ consumer = "update"
    /\ IF fbValid
       THEN LET f == current.frame
                fb == activeFrames[f]
                new == [fb EXCEPT !.totalSize = @ + current.size,
                                  !.chunks = @ \cup {current.offset}]
            IN /\ activeFrames' = [activeFrames EXCEPT ![f] = new]
               /\ frameNumQueue' = IF new.totalSize = new.expectedSize
                                   THEN Append(frameNumQueue, f) ELSE frameNumQueue
       ELSE /\ UNCHANGED activeFrames
            /\ frameNumQueue' \in {frameNumQueue, Append(frameNumQueue, current.frame)}
    /\ current' = None /\ fbValid' = FALSE
    /\ dataMutex' = None
    /\ consumer' = "check"
    /\ UNCHANGED <<netVars, packetQueue, permits, receiverVars, decoderVars, paintVars,
                   lifeVars>>

-----------------------------------------------------------------------------
(* decoderThread() *)

DecoderCheck ==
    /\ decoder = "check"
    /\ \/ ~globalOn /\ decoder' = "done" /\ UNCHANGED <<decoding, frameNumQueue>>
       \/ /\ globalOn /\ frameNumQueue # <<>>
          /\ decoding' = Head(frameNumQueue) /\ frameNumQueue' = Tail(frameNumQueue)
          /\ decoder' = "decode"
    /\ UNCHANGED <<netVars, queueVars, receiverVars, consumerVars, decoded, paintVars,
                   lifeVars, activeFrames>>

(* A buffer is whole when every chunk of PAYLOAD_SIZE bytes is in place.   *)
ChunksOf(size) == 0..((size + PAYLOAD_SIZE - 1) \div PAYLOAD_SIZE - 1)
Whole(fb) == fb # None /\ fb.expectedSize > 0 /\ fb.chunks = ChunksOf(fb.expectedSize)

(* Mutant: the frame number is reset before it is pushed.                  *)
DecoderDecodeResets ==
    /\ decoder = "decode" /\ decoder' = "push"
    /\ decoding' = None /\ decoded' = TRUE
    /\ UNCHANGED <<netVars, queueVars, receiverVars, consumerVars, paintVars,
                   lifeVars, activeFrames, frameNumQueue>>

(* decodeImage() makes a bitmap of a whole frame; of one with holes it may *)
(* or may not.  operator[] creates the buffer if it is not there.          *)
DecoderDecode ==
    /\ decoder = "decode"
    /\ activeFrames' = [activeFrames EXCEPT ![decoding] = IF @ = None THEN NewBuffer ELSE @]
    /\ \/ decoded' = TRUE
       \/ ~Whole(activeFrames[decoding]) /\ decoded' = FALSE
    /\ decoder' = IF decoded' THEN "push" ELSE "erase"
    /\ UNCHANGED <<netVars, queueVars, receiverVars, consumerVars, decoding, paintVars,
                   lifeVars, frameNumQueue>>

DecoderPush ==
    /\ decoder = "push"
    /\ bmpMutex = None
    /\ frameNumBmpQueue' = Append(frameNumBmpQueue, decoding)
    /\ decoder' = "erase"
    /\ UNCHANGED <<netVars, queueVars, receiverVars, consumerVars, decoding, decoded,
                   loadFrame, paintDue, bmpMutex, shown, lifeVars, activeFrames,
                   frameNumQueue>>

DecoderErase ==
    /\ decoder = "erase"
    /\ activeFrames' = [activeFrames EXCEPT ![decoding] = None]
    /\ fbValid' = (fbValid /\ current.frame # decoding)
    /\ decoding' = None /\ decoded' = FALSE /\ decoder' = "check"
    /\ UNCHANGED <<netVars, queueVars, receiverVars, consumer, current, paintVars,
                   lifeVars, frameNumQueue>>

-----------------------------------------------------------------------------
(* timerThread() and the window's thread *)

TimerArm ==
    /\ timer = "arm"
    /\ IF globalOn THEN loadFrame' = TRUE /\ timer' = "invalidate"
                   ELSE loadFrame' = loadFrame /\ timer' = "done"
    /\ UNCHANGED <<netVars, queueVars, receiverVars, consumerVars, decoderVars,
                   activeFrames, frameNumQueue, frameNumBmpQueue, paintDue, bmpMutex,
                   shown, globalOn, socketOpen, ui>>

TimerInvalidate ==
    /\ timer = "invalidate"
    /\ paintDue' = TRUE
    /\ timer' = "arm"
    /\ UNCHANGED <<netVars, queueVars, receiverVars, consumerVars, decoderVars,
                   activeFrames, frameNumQueue, frameNumBmpQueue, loadFrame, bmpMutex,
                   shown, globalOn, socketOpen, ui>>

(* WM_PAINT: with bmpMutex, and back at once if there is nothing to show.  *)
PaintCheck ==
    /\ ui = "loop" /\ paintDue
    /\ paintDue' = FALSE
    /\ bmpMutex = None
    /\ IF loadFrame /\ frameNumBmpQueue # <<>>
       THEN bmpMutex' = "ui" /\ ui' = "paint"
       ELSE UNCHANGED <<bmpMutex, ui>>
    /\ UNCHANGED <<netVars, queueVars, receiverVars, consumerVars, decoderVars,
                   activeFrames, frameNumQueue, frameNumBmpQueue, loadFrame, shown,
                   globalOn, socketOpen, timer>>

(* Mutant: the later bitmaps are thrown away with the one shown.           *)
PaintShowAndEmpty ==
    /\ ui = "paint" /\ ui' = "loop"
    /\ shown' = Append(shown, Head(frameNumBmpQueue)) /\ frameNumBmpQueue' = <<>>
    /\ loadFrame' = FALSE /\ bmpMutex' = None
    /\ UNCHANGED <<netVars, queueVars, receiverVars, consumerVars, decoderVars,
                   activeFrames, frameNumQueue, paintDue, globalOn, socketOpen, timer>>

PaintShow ==
    /\ ui = "paint"
    /\ \E i \in DOMAIN frameNumBmpQueue :
          /\ \A j \in DOMAIN frameNumBmpQueue : frameNumBmpQueue[i] <= frameNumBmpQueue[j]
          /\ shown' = Append(shown, frameNumBmpQueue[i])
          /\ frameNumBmpQueue' = RemoveAt(frameNumBmpQueue, i)
    /\ loadFrame' = FALSE
    /\ bmpMutex' = None
    /\ ui' = "loop"
    /\ UNCHANGED <<netVars, queueVars, receiverVars, consumerVars, decoderVars,
                   activeFrames, frameNumQueue, paintDue, globalOn, socketOpen, timer>>

(* The user closes the window: GetMessage() returns 0.                     *)
Quit ==
    /\ ui = "loop"
    /\ globalOn' = FALSE
    /\ ui' = "close"
    /\ UNCHANGED <<netVars, queueVars, receiverVars, consumerVars, decoderVars,
                   paintVars, activeFrames, frameNumQueue, socketOpen, timer>>

(* Mutant: the threads are joined with the socket still open.              *)
CloseSocketForgotten ==
    /\ ui = "close" /\ ui' = "join_timer"
    /\ UNCHANGED <<netVars, queueVars, receiverVars, consumerVars, decoderVars,
                   paintVars, activeFrames, frameNumQueue, globalOn, socketOpen, timer>>

CloseSocket ==
    /\ ui = "close"
    /\ socketOpen' = FALSE
    /\ ui' = "join_timer"
    /\ UNCHANGED <<netVars, queueVars, receiverVars, consumerVars, decoderVars,
                   paintVars, activeFrames, frameNumQueue, globalOn, timer>>

Join ==
    /\ \/ ui = "join_timer" /\ timer = "done" /\ ui' = "join_decoder"
       \/ ui = "join_decoder" /\ decoder = "done" /\ ui' = "join_consumer"
       \/ ui = "join_consumer" /\ consumer = "done" /\ ui' = "join_receiver"
       \/ ui = "join_receiver" /\ receiver = "done" /\ ui' = "exited"
    /\ UNCHANGED <<netVars, queueVars, receiverVars, consumerVars, decoderVars,
                   paintVars, activeFrames, frameNumQueue, globalOn, socketOpen, timer>>

-----------------------------------------------------------------------------
Receiver == ReceiverCheck \/ ReceiveError \/ ReceiverPush \/ ReceiverRelease
Consumer == ConsumerCheck \/ ConsumerPop \/ ConsumerLookup \/ ConsumerUpdate
Decoder == DecoderCheck \/ DecoderDecode \/ DecoderErase
Timer == TimerArm \/ TimerInvalidate
Window == PaintCheck \/ PaintShow \/ CloseSocket \/ Join

ClientNext ==
    \/ \E p \in toClient : Receive(p)
    \/ Receiver \/ ReceiverLock
    \/ Consumer \/ ConsumerLock
    \/ Decoder \/ DecoderPush
    \/ Timer \/ Window \/ Quit

(* Every thread is scheduled; one that waits for a mutex which the other   *)
(* gives back again and again obtains it in the end.  The network delivers *)
(* what is on its way.  Nothing makes the user quit.                       *)
Fairness ==
    /\ WF_vars(Receiver) /\ SF_vars(ReceiverLock)
    /\ WF_vars(Consumer) /\ SF_vars(ConsumerLock)
    /\ WF_vars(Decoder) /\ SF_vars(DecoderPush)
    /\ WF_vars(Timer) /\ WF_vars(Window)
    /\ WF_vars(\E p \in toClient : Receive(p))

Safety == Init /\ [][ClientNext]_vars
Spec == Safety /\ Fairness

-----------------------------------------------------------------------------
(* What HostSender's SendPacket makes of frames, and no datagram twice: the *)
(* condition under which frames are put together again.                    *)
WellCut(datagrams) ==
    /\ \A p \in datagrams :
          LET left == p.slidingWindow - p.offset * PAYLOAD_SIZE
          IN /\ p.offset \in ChunksOf(p.slidingWindow)
             /\ p.size = IF PAYLOAD_SIZE < left THEN PAYLOAD_SIZE ELSE left
    /\ \A p, q \in datagrams : p.frame = q.frame =>
          p.slidingWindow = q.slidingWindow /\ (p.offset = q.offset => p = q)
CutByHost == WellCut(InFlight)

(* The consumer asks isEmpty() without dataMutex and pops with it, on a    *)
(* semaphore that waits for ever: if Pop could block there, the receiver   *)
(* could never push again.  It cannot: a push is visible to a thread that  *)
(* obtains the mutex only together with its permit.                        *)
PopUnderMutexNeverBlocks ==
    consumer = "pop" => permits > 0 /\ packetQueue # <<>>

(* What the decoder is handed is a whole frame ("passes the finished       *)
(* frames to Decoder").                                                    *)
HandedOverIsWhole ==
    \A i \in DOMAIN frameNumQueue : Whole(activeFrames[frameNumQueue[i]])

(* The consumer never writes through a reference to a buffer that the      *)
(* decoder, which takes no mutex, has erased meanwhile.                    *)
FrameBufferAlive == consumer = "update" => fbValid

(* Every frame whose datagrams were all on their way is shown in the end,  *)
(* and only once, unless the user quits: no order of the datagrams and of  *)
(* the five threads loses a frame or a repaint.                            *)
EachFrameShown ==
    \A f \in Frames : <>[](Len(SelectSeq(shown, LAMBDA g : g = f)) = 1 \/ ~globalOn)

(* When the user quits, the joins come to an end: the closed socket wakes  *)
(* the receiver, and no thread is left waiting for an item or a mutex.     *)
QuitTerminates == ~globalOn ~> ui = "exited"
=============================================================================
