# LLLSI in TLA+

Specifications of LLLSI (Low Latency Live Stream Infrastructure): the
rendezvous server that brings a host and its clients together, the test
programs that punch a hole with it, the screen-sharing host, the viewer, and
the thread-safe queues all of them run on. Each module is translated from the
C++ source; `PROJECT.json` gives the lines every definition stands for. TLC
checks small instances (the `.cfg` files), TLAPS checks the proofs.

## 1. The system

A session has two phases (README of the repository, "Program's Phases").

1. *Over TCP, with the server* (`RDIBY/`): the host connects and creates a
   room, clients connect and join it, the host asks the server to start; the
   server sends the host every address, sends every client the host's address
   and its own, and sends everybody away.
2. *Over UDP, without it* (`VideoHost/`, `VideoClient/`): the host captures the
   screen, cuts each JPEG into datagrams and resends what is not acknowledged;
   the viewer acknowledges, reassembles, decodes and paints.

| Component | Source | State | Operations | Talks to |
|---|---|---|---|---|
| Thread-safe queues | `*/datastructures.h` | container, semaphore, critical section | Push, Pop, Peek, Size, isEmpty, Clear | shared by the threads of each program |
| Streaming host | `VideoHost/host.*`, `main.cpp`, `stream.h`, `video.cpp` | frame queue, `recentPackets`, `sequenceNumber`, `frameSize` | capture, cut and send, record, resend, erase on acknowledgement, give up | viewer (UDP); three threads and `main()` share `PacketManager` |
| Viewer | `VideoClient/main.cpp`, `client.*` | `packetQueue`, `activeFrames`, `frameNumQueue`, `frameNumBmpQueue`, flags, two mutexes | receive and acknowledge, reassemble, decode, arm and paint, quit and join | host (UDP); five threads |
| Rooms and client handlers | `RDIBY/server.*`, `room.*`, `serverNetwork.*` | `roomMap`, each `Room` on its host handler's stack, `isLeaving` | create, look up, join, leave, end with or without start | one TCP connection per handler thread; `roomMap` and the rooms shared without a lock |
| Accept loop, ThreadManager | `RDIBY/server.cpp`, `concurrency.*` | `threadMap`, the accept loop's local `tData` | accept, create, register, kill | handler threads |
| Test programs | `RDIBYClient/clienttest.cpp`, `client.*`, `RDIBY/servertest1.cpp` | `clientAddrVec`, place in the script | connect, start, collect addresses, close, ask the echo, punch or listen | server (TCP, UDP), each other (UDP) |
| ConditionVariable, CriticalSection | `*/concurrency.cpp` | critical section, condition variable, timeout | enter, release, sleep, wake, wakeAll, setTimeout | nobody uses it yet |
| Sockets of a process | `*/client.cpp`, `*/host.cpp`, `serverNetwork.cpp`, `network.cpp` | each object's `sock`, WSAStartup count, open sockets | construct, initTCP, initUDP, init, close, destroy | every program; the objects of a process share what WSACleanup() ends |
| First interaction | `protocols.h`, `*/client.cpp`, `serverNetwork.cpp`, `server.cpp` | the structure with three names | send empty, fill in, read back as strings | peers and their handlers, before RoomServer's part |
| Action mediator | `*/IActionMediator.h` | listeners and their two pointers, queue, critical section | add, remove, request, delete | every `executeAction()` is a TODO |
| Library streams | `RDIBY/client.*`, `host.*`, `stream.h` | packet and frame maps | the viewer of the library | no program runs it |
| Input events | `*/events.*`, hooks of `VideoClient/main.cpp` | `eventDataQueue`, the sender's flags | hook, pop, translate, send | host (UDP); the line that starts the sender is commented out |
| Capture and codec | `*/video.*` | GDI+ handles | capture, encode | host |
| Audio, media, scaffolding | headers, `framework.h`, resources | none | none | |

What is hard here, and what makes each component correct:

* **Queues.** The item and its permit are changed in different steps, by
  different threads, and `Clear()` changes one and not the other. Correct means:
  no item without a permit, no error a caller did not ask for, one atomic queue
  to the outside.
* **Host.** A datagram is sent before it is recorded, acknowledgements arrive
  late, twice or never, `ackPackets()` may throw the whole record away, and the
  threads start before the stream is configured. Correct means: nothing is
  forgotten silently, what can be delivered is delivered and then released.
* **Viewer.** Five threads, two mutexes that do not cover everything they
  should, a blocking Pop under a mutex, a reference into a map that another
  thread erases from, a quit that closes the socket under a blocked thread.
  Correct means: whole frames only, each shown once, no deadlock, quitting ends.
* **Rooms.** A map whose lookup inserts, a vector without a lock, rooms on the
  stack of another thread, and peers that come early, leave or break down.
  Correct means: hole punching is mutual, everybody admitted is told and sent
  away, and the server survives.
* **Accept loop.** A pointer to a local of a loop that goes on, socket numbers
  that are given out again, registration after the thread runs. Correct means:
  each handler serves its own connection and finds its own thread.
* **Test programs.** They read addresses by position and count on the order of
  messages and datagrams. Correct means: the punch arrives.

* **Sockets.** Objects keep the number of a socket they have closed, numbers are
  given out again, and every failure ends Windows sockets for the whole process.
  Correct means: no two objects on one open socket, none lost.
* **First interaction.** Names of 16 letters fit their field without a NUL.
  Correct means: who types a host's room and password meets that host, whatever
  the names.
* **Input events.** Two kinds of events share a queue, a flags variable and a
  thread that need not be there. Correct means: sent as they were made, in order,
  and all of them.
* **ConditionVariable.** No predicate, three copies, one of which never leaves its
  critical section. Correct means: the section is returned, sleepers return.
* **Mediator.** Two pointers are set and taken back while a request uses them.
  Correct means: whoever finds the section finds the queue and gets out again.

`PROJECT.json` lists each of these hazards at its line.

## 2. The modules

| Module | Models | Composes |
|---|---|---|
| `QueueSpec` | what the queues promise: one atomic queue | |
| `ThreadSafeQueue` | `ThreadSafeQueue<T>` and `ThreadSafePrioQueue<T, Comp>` step by step | implements `QueueSpec` |
| `ThreadSafeQueueProofs` | theorems about it | extends `ThreadSafeQueue` |
| `HostSender` | the streaming host, a lossy network, the peer reduced to its acknowledgements | |
| `HostSenderProofs` | theorems about it | extends `HostSender` |
| `ClientPipeline` | the viewer | |
| `ClientPipelineProofs` | theorems about it | extends `ClientPipeline` |
| `VideoSession` | both programs on one path | `HostSender`, `ClientPipeline`; implements `HostSender` |
| `VideoSessionProofs` | theorems about it | extends `VideoSession`, instantiates `HostSenderProofs` |
| `RoomServer` | `RoomManager`, `clientHandlerFunc()`, `endRoom()`, and what peers may do | |
| `RoomServerProofs` | theorems about it | extends `RoomServer` |
| `PunchClients` | `test1()`, `test2()` and the UDP echo | extends `RoomServer` |
| `PunchClientsProofs` | theorems about it | extends `PunchClients`, `RoomServerProofs` |
| `AcceptLoop` | `acceptFunc()`, `acceptNewConnection()`, `createNewThread()`, `killThread()` | |
| `AcceptLoopProofs` | theorems about it | extends `AcceptLoop` |
| `Sockets` | the socket classes of one process, in all copies | |
| `InputEvents` | hooks, event queue and event sender of the viewer | |
| `ConditionVariable` | `CriticalSection` and `ConditionVariable`, in all copies | |
| `Mediator` | `Mediator` and `IActionListener` | |
| `FirstInteraction` | what host and server know of each other's names after the first exchange | |
| `LibraryParts` | nothing of its own | one of the six small modules per behaviour |
| `LibraryPartsProofs` | theorems about the six modules and their composition | extends `LibraryParts`, `AcceptLoopProofs` |

The `MC*` modules only name model values and give values to constants. Next to
some definitions stands a variant called *Mutant*: a plausible mistake in that
definition, which no specification uses. Putting it in the place of the
original makes the property listed with it in `PROJECT.json` fail; this shows
that the property depends on that piece of code.

### ThreadSafeQueue

`queue`, `sem`, `access` are the members of the class; `pc[t]` says where a
thread is between the calls that can block or be seen: `PushEnter`, `PushBody`,
`PushRelease` are the two halves and the tail of `Push()`, and so on. What
happens between `EnterCriticalSection` and `LeaveCriticalSection` is one step,
because the other threads that touch the container wait for the section (that
they do is `LockInv`). The early `throw` of Pop and Peek leaves the section in
the code and so it does here. `Timed` selects the copy of `RDIBYClient`, whose
timeout is 3 ms, `Prioritised` the priority queue; items with equal priority
leave in any order. `PushEnter` is not taken beyond `Capacity`, a bound of the
model; `MaxSem` is MAXINT in the code and small here, so that the failure of
`ReleaseSemaphore` after `Clear()` happens.

Callers that read without the lock (`isEmpty()`) are modelled where they are
(`ClientPipeline!ConsumerCheck`, `PaintCheck`, `DecoderCheck`).

### HostSender

`main()` is `SetFrameSize` and `Capture`; the sender thread is `ReadChunkSize`,
`FrontFrame`, `SendPacket`, `AddRecentPacket`; the ack thread is `AckPass`, one
pass under `recentPacketsMutex`; the receiver thread is `RemoveRecentPacket`.
Datagrams are sets, which makes them unordered and free to be delayed;
`Faults` adds loss and duplication. A datagram that does not fit the client's
buffer is received as an error and not acknowledged, as `recvfrom` does.
The number of a frame's datagrams is cast to a WORD (`TotalPackets`): a frame with
more chunks than a WORD can count is cut short, and one with exactly as many as a
WORD has values is skipped, which is the ELSE branch of `FrontFrame`. `WORD_SIZE` is
65536 in the code and 3 in the run, where both happen.
`received` and `cleared` are history: what the client has acknowledged, and
whether the ack thread has emptied its record (`host.cpp:93`).

### ClientPipeline

One action per step between two points where another thread can interfere: the
check of a loop's condition, the wait for a mutex, the push and its permit, the
lookup in `activeFrames` and the write through the reference it returns. The
packet queue is modelled with its semaphore because it is popped under
`dataMutex`; the other two queues have one consumer and are the atomic ones of
`QueueSpec`, which section 4 shows to be what the code implements. `decoded` is
open when a frame is not whole: a JPEG with holes may decode. A write through
the reference after the decoder has erased the buffer may compare to anything.
The data race on the hash table itself is not modelled: it has no set of
outcomes to choose from.

### VideoSession

`HostSender` and `ClientPipeline` side by side on shared `toClient` and
`toHost`; the history variable `received` is computed from what the viewer
really acknowledges. The path loses nothing: what arrives twice was sent twice.

### RoomServer and PunchClients

`pc[p]` is the position of the handler of connection `p`; `found`, `slot`,
`ending`, `msgBuffer` are its locals. A room exists only as long as the handler
of its host (`Alive`), and following a pointer to one that has gone may do
anything the surrounding code can do with garbage, or crash. The copied vector of
`endRoom()` points to such stacks as well: for a client whose handler has returned any
address may be read, what is said to it reaches nobody, and the loop may end the
process (`AddressesRead`, `AfterFollowing`; the crash stands after the last client of
the loop, so that what the others were told is seen). `push_back` is two
steps, reading the end and writing there; if other handlers have moved the end
meanwhile, the new vector is what the vector still holds of the places below,
and anything in the places it no longer does. `recv()` returning -1 is not 0 as a
`DWORD` and leaves the previous message in the buffer (`ReceiveError`). What the
peers do beyond the order of the repository's README is chosen per
configuration by `Faults`. `Crashed` is where a handler ends whose exception or
access violation takes the process down; nothing happens afterwards.

`PunchClients` adds what the test programs do with what they are told. `told`
of `RoomServer` is the TCP stream to each peer; `messagesRead` is how far the
program has got. The server starts its UDP echo on another port; NAT is reduced
to "the UDP port gets the name the TCP port had", which is what the programs
count on.

### AcceptLoop

`tData` is the local of the loop, and `ReadParameter` reads it whenever the
handler gets to run. `accept()` may fail, which `clientSocket <= 1` does not see
because SOCKET is unsigned: the failure gets a handler and the key
`INVALID_SOCKET`. `CreateThread` may give no thread, which is neither noticed nor
registered. Handlers end in the three orders of closing and killing the code has.
`raced` is history: which of three races has happened so far. `Next` stops when
a handler has crashed.

### Sockets

`sockOf[o]` is the member `sock` of each object, `open` the sockets the system
holds for the process, `wsa` the starts of Windows sockets, of which every
program makes one, in the initialiser of a global of `network.cpp`. `initTCP()`
is two steps, before and in `connect()`, which blocks while another object may
fail and close everything; the rest is one step per function. A member that no
constructor sets (`HostSocket`, `ServerSocket` when `init()` fails) reads as any
number. `class` says which objects the program has; `SomeLayouts` lists the
combinations that the sources have or allow. `NoSharedSocket` holds because
WSACleanup() runs with every failure: what looks like a mistake there (a failed
`initTCP()` closes the sockets of everybody) is what keeps a stale number from
being given out again.

### FirstInteraction

A name is a sequence of letters, a field `FieldSize` places (16 in the code) that
the peer fills from the front over zeros, and the handler reads a string from the
start of a field up to a NUL, through the following fields if there is none, and
into the memory behind the structure if all are full. The structure arrives whole
or, if the connection breaks, not at all; the hash of a name stands for the
name. `RoomsMeet` is what `RoomServer` assumes when it uses `RoomOf` and
`Guessers`.

### InputEvents

`HookCallback` is called by the window's thread; the pointer the hook was given
is good until it returns (`callback`), afterwards it finds `Garbage`. `SenderPop`
and `SenderSend` are one turn of the loop of `eventSenderThread()`. `senderRuns`
is chosen once: the program as it is has no sender, the program as its comments
describe it has one. `MouseFilter` and `KeyboardFilter` are the filters of
`RDIBY/events.cpp`, which the library wrote for the same messages; `SentAsHooked`
compares the viewer's switches with them.

### ConditionVariable

`copy` tells the copies of the library from the one of VideoClient. `sleep()` is
entering the section, falling asleep (which leaves it), being woken by another
thread, the timeout or for no reason, entering it again, and leaving it, which
VideoClient's copy forgets. `csDepth` counts the recursive entries this leads
to. A wake with nobody asleep does nothing.

### Mediator

`queuePtr[l]` and `sectionPtr[l]` are the pointers of each listener; `AddQueue`,
`AddSection`, `RemoveQueue`, `RemoveSection` the two halves of `addListener()` and
`removeListener()`, which are not guarded; `requestAction()` enters the section,
pushes, and leaves it by reading the pointer again. `excused` is history: the
listeners that are asking while they are being removed, or the mediator deleted,
which nothing in the code protects.

### LibraryParts

The six modules above share no variable and no call, so one run checks them all:
`part` is chosen at the start and only that module steps. States are then a sum
and not a product. In a part that stands by no action is enabled that a fairness
condition asks for.

## 3. The runs

| Run | Instance | What it shows |
|---|---|---|
| `queue_fifo` | 2 producers, 2 consumers, 1 reader, items {1,2}, capacity and semaphore 2 | lock discipline; nobody gets "empty queue"; implements the atomic queue with its liveness |
| `queue_prio` | 2 producers, 1 consumer, 1 caller of Clear, items {1,2,3}, timeout, semaphore 2 | items stay reachable and leave in order after Clear and a failed release; implements the atomic queue, whose waiting Pop is not forgotten |
| `host` | datagrams of 3 (default 5), header 1, record of 2, a WORD of 3 values, frames of 1, 4, 6 or 7 bytes, 2 frames, loss and duplication | nothing forgotten; only the first frame can be mis-cut, and every chunk of the others is one datagram; a frame is left behind its last chunk only, unless a WORD cannot count them; records are released |
| `client` | frames of 2 chunks and of 1 chunk, each datagram once, any order, quit at any time | whole frames, no dangling reference, every frame shown once, quit terminates, no blocking Pop under the mutex |
| `session` | one frame of two chunks (which is mis-cut or not), host resends | refinement of `HostSender`; no datagram falls between |
| `session_incomplete` | the same | a resent datagram makes an unfinished frame look finished |
| `punch` | one host, two clients, datagrams to clients may be lost | the whole way of phase 1: told, dismissed, closed, asked, punched, heard |
| `room_faults` | two hosts with one room name, one client, every fault | hole punching stays mutual |
| `room_leave` | one host, one client that leaves | the server goes down |
| `room_early` | one host, one client that comes first | the host does not own its room |
| `parts` | three connections or one failure among them on 2 socket numbers; 3 socket objects and 3 numbers; 2 events; 2 sleepers twice each; 2 listeners, 2 actions, 2 entries; 2 peers, fields of 2 letters, names of 1 to 3 | accept loop: without the named races handlers and threads match, stopped handlers end. Sockets: none shared, none lost. Events: sent as hooked, all sent. Sleepers return and return the section. Requests find what they need and return. Peers meet in rooms by name |
| `accept_burst` | 2 connections, one of which may be a failure | a handler serves another connection's socket |

The four runs that end in a violation are disagreements between the code and
what its comments say; `findings` quotes both.

**Bounds.** Two producers and two consumers are enough for every pair of
operations to overlap, and a third item never changes which pair of steps
conflicts; capacity 2 lets FIFO and priority order be told apart and lets Clear
leave a full semaphore. In `host` the record overflows at 3 (`RECENT_PACKETS_SIZE`
is 2), a frame of 4 bytes is cut into one datagram with the default size and
into two with the right one, one of 6 or 7 bytes has as many chunks as a WORD has
values or one more, and a second frame shows that only the first can be mis-cut. `MaxDatagrams` bounds only for which sequence numbers liveness is
stated. `MaxReceives` bounds the datagrams a viewer takes; `client` lets it take
all three, `session` two, which suffices for one datagram twice. In the room
runs every kind of peer appears, and a room with two clients tells the order of
addresses apart. Two socket numbers for three connections force reuse, and a
failure of `accept()` beside two connections meets each of their steps; a second
failure would be one more reuse of one number, a case the first number already
gives. Two socket objects can collide, a third keeps a number in use meanwhile.
Two events make an order, one of each device or two of one. Two sleepers tell a
wake from a wake of all, and a second sleep of each meets what the first left.
Fields of two letters have names that fit, that fill the field and that are too
long, as 15, 16 and 17 letters are in the code. Wrong
passwords and absent rooms take the same branch of `Check`; the runs reach it
through the absent room (`room_faults`).

**Deadlock** is checked for the queues. The other programs may stop: the network
has nothing more, the user has quit, the peers have gone.

**Fairness.** A thread that is inside an operation goes on (weak fairness of its
steps); nothing makes a thread call one. Critical sections and mutexes give no
order to those who wait, but the scheduler is fair, so taking one has strong
fairness where others can take it again and again. A datagram that is sent again
and again arrives in the end (strong fairness of its reception); the code's
resending is useless without that. Users, peers and races are not obliged to
happen. `EventsFairness` is that of the sender's loop and of a hook that returns;
`ConditionFairness` and `MediatorFairness` ask only weak fairness for entering
the critical section, because sleeps and actions are bounded there and nobody
can be passed over for ever; `SleepReturns` counts on the timeout and on no wake.
`EveryClientHearsItsHost` loses datagrams to the clients only: the
question for the own address is sent once, so a loss on the way to the server or
to the host leaves the program waiting.

**Where the properties stop.** They are stated for the behaviours in which the
code keeps them, and what lies beyond is known: `NothingForgotten` has the premise
`~cleared` because `host.cpp:93` empties the record; `NobodyStranded` needs
clients that join one by one and before the start (two `push_back`s at a time lose
one, and `endRoom()` works on a copy of the vector); `DismissedIsLeaving` needs a
room that is ended by a start (`server.cpp:52` marks clients on that branch only);
`HandedOverIsWhole` needs each datagram once (`session_incomplete`);
`FramesLeftWhole` has the premise that a WORD can count the chunks;
`OwnSocketOnly` and `KillFindsThread` name the races they exclude; `RoomsMeet` is
about names of at most 15 letters, for which the programs ask, and the check
before sending lets 16 through; `SectionIsReturned` excepts a thread of the
viewer's copy that has come back from `sleep()`, and `SleepReturns` is about the
other copies with a finite timeout (which they leave to chance until setTimeout()); `QueueBehindSection`
excepts listeners that are removed while they ask; `EventsAreSent` is about the
sender that the program does not start.

## 4. The proofs

Every theorem is about the specification of its module without fairness (`Safety`,
`SocketsSpec`, `ConditionSafety`, ...; what holds of it holds of the fair one), and
holds for every value of the constants the module's assumptions admit. TLC has
checked first, in the runs of section 3, every property that is proved; the other
conjuncts of the inductive invariants are checked by their proofs. Every safety
property of a passing run is the subject of a theorem. Six theorems
about rooms and programs and three about the viewer have a hypothesis on the constants
(`Faults`, `RoomOf`, `InFlight`); it is said below what it excludes, why the property
fails without it, and which run's instance satisfies it. The two properties that
`room_leave` and `room_early` find violated are proved under such a hypothesis: the
runs show what breaks them, the theorems that nothing else does.

### The queues (`ThreadSafeQueueProofs`)

For any finite set of threads, any set of integer items, any capacity and any
maximum count not below it:

* `TypeCorrect`, `LockDiscipline`, `ItemsReachable`, `PermitsBacked`,
  `ErrorsNeedClear`: `Safety => []P` for `TypeOK`, `LockInv`, `NoStrandedItem`,
  `NoSparePermit`, `NoErrorWithoutClear`; `NoSparePermit` (without a caller of Clear,
  no more permits than items) is what the last one rests on and no run lists it;
* `QueueRefinement`: the steps of Push, Pop, Peek and Clear implement the atomic
  queue (`Safety` of `QueueSpec` under the mapping `Abstract`);
* `LeastTaken`: `PopTakesLeast`, by the invariant `Sorted`: the container is in
  ascending order. `InsertPlaces` says which element is where after an insertion,
  `InsertSorts` that the place chosen by the comparator keeps the order.

The assumptions are those of the module: threads are finite in number and none
of them is called `Nobody`, items are integers and none is an answer, and
`Capacity <= MaxSem` (the container runs out of memory before the semaphore
reaches MAXINT).

The invariant is `IInv == TypeOK /\ LockInv /\ PushRoom /\ NoStrandedItem /\
NoSparePermit`. `NoStrandedItem` alone is not inductive: when a Pop's body takes
an item it gives up its claim, which is balanced only if no other body runs at
the same time (`LockInv`); `PushRoom` carries `Len(queue) < Capacity` from the
check of `PushEnter` to the insertion. Permits are counted as `sem` plus two
cardinalities; the lemma `MoveCount` says how moving one thread changes these,
and every action's proof uses it. `ErrorsNeedClear` follows from `IInv` by
counting: a thread on its way is one permit, so without spare ones there is an
item for it, and with room in the container there is room in the semaphore. In
the refinement, only the three bodies and the returns are visible steps; a Pop
that takes its permit or its lock stutters.

### The streaming host (`HostSenderProofs`)

For every datagram size, header, default size, size of the record, set of frame
sizes, number of frames, and every loss and duplication:

* `TypeCorrect`: `TypeOK`;
* `HostRemembers`: `NothingForgotten`, so that only `recentPackets.clear()`
  (`host.cpp:93`) ever gives up a datagram that is not acknowledged;
* `LaterFramesWellCut`: `OnlyFirstFrameMischunked`, that is `WellCut` of the datagrams
  of all frames but the first, on their way or recorded for resending: each is the
  chunk of the payload both programs were built for, those of one frame agree on its
  size, and no two are the same chunk;
* `ShortFramesLeftWhole`: the action property `FramesLeftWhole`. A frame whose chunks
  a WORD can count is left behind its last chunk only, and never skipped.

`NothingForgotten` needs to know that an acknowledgement on its way is one the
client has given (`AcksGiven`), or erasing on it could forget. That a later frame is
well cut is carried from `main()` to the datagrams by `Configured` (whoever has
sent a whole frame waits for the next with the size read after the stream was
configured); that no chunk is cut twice, by `SentInOrder`: whatever is out
(`Outgoing`: on its way, recorded, or sent and not yet recorded) belongs to an earlier
frame or to an earlier chunk of this one, or is the present one.
`InsideFrame` makes sizes natural numbers. It and `FramesLeftWhole` rest on
`DatagramsOfAFrame`, which puts together what the rounded-up division of `host.h:60`
does (`ChunksRoundedUp`) and what the cast to a WORD does (`WordCast`).
The assumption says only that the header is shorter than a datagram, that a WORD
has values, and that no frame is empty.

### The viewer (`ClientPipelineProofs`)

For every payload size and every set of datagrams on their way:

* `TypeCorrect`: `TypeOK`; `PopNeverBlocks`: `PopUnderMutexNeverBlocks`. The
  consumer asks `isEmpty()` without the mutex, so the invariant says what makes the
  answer last: only the consumer takes datagrams away (`PermitsInv`: it has seen one
  and none has gone since), the receiver is the only one between storing and
  releasing, and it holds `dataMutex` there (`HandsInv`), so item and permit reach
  the consumer together.
* `FramesAreWhole`, `BuffersOutliveReferences`: `HandedOverIsWhole`, `FrameBufferAlive`
  if `CutByHost`; `NoFrameShownTwice`, the safe half of `EachFrameShown`, likewise.
  `CutByHost` says that the datagrams are those into which a host
  cuts frames: offsets inside the frame, sizes that fit, one frame size per frame,
  one datagram per chunk. It is an assumption of `MCClientPipeline`, and what the host
  does to all frames but the first is just that (`HostCutsForTheViewer` below). The model takes a datagram off the path when it is
  received, so each arrives at most once; `session_incomplete` shows what the code
  does otherwise.

The invariant behind the last three is `CutInv`. A datagram that is still to be
counted is in one place only (`OnePlace`: path, receiver, queue, consumer), and a
buffer holds the sizes of exactly the chunks it has (`BuffersInv`), so
`totalSize == expectedSize` can hold only with all chunks there (the lemmas on
`SizeOf`: every chunk but the last is a whole payload). Then nothing of this
frame is left to arrive, which is why the consumer has no reference into
the buffer when the decoder erases it, and why no second frame of that number
is ever begun (`RetiredInv`).

### Host and viewer together (`VideoSessionProofs`)

For every datagram, header, record and frame size and any number of frames:

* `SessionImplementsHostSender`: `ViewerIsHostsPeer`, the refinement as a whole (the
  abstract specification states no fairness): each
  step of the viewer is a reception, which is `HostSender`'s `ClientReceives`, or
  invisible to the host.
* `NothingFallsBetween`: `NothingBetween`. Because of the refinement, what
  `HostSenderProofs` proves of the host holds in the session; the module instantiates
  it (`HostProofs`) and uses `HostRemembers` for the host's side. The rest is
  the viewer's: whatever it has acknowledged is in the receiver's hands, in the
  queue, in the consumer's hands or counted (`ReceivedKept`), which rests on
  each of the two threads having a datagram exactly where its code says so
  (`HandsInv`).
* `HostCutsForTheViewer`: the viewer's `WellCut` holds of the datagrams of all frames
  but the first, at every moment of a session. So the two programs' ideas of a chunk
  agree: the host cuts by a division, the viewer counts chunks below one
  (`ChunkCounts`). Two things are left between this and `FramesAreWhole`: the first
  frame, which may be cut with the default size, and resending, by which a datagram
  can arrive again (`session_incomplete`).

### The rooms (`RoomServerProofs`)

For any sets of hosts and clients (no peer is both), any naming of rooms, any
set of wrong passwords and any faults:

* `TypeCorrect`: `TypeOK`;
* `PunchMutual`: `PunchIsMutual`. The invariant adds `EndingFoundRoom` (who
  is inside `endRoom()` has the room of a host) and `HostToldFirst`: between the two
  loops over the copied vector, the host has been told of every client of that
  copy whose handler is there: of another one it is told what its memory holds by
  then, and that one itself is told nothing. What is said is never taken back, so this survives the steps of all other
  handlers, even of one that ends the same room;
* `NoClientEverRemoved`: `removeClientFromRoom()` removes nobody, in a room of any
  number of clients: its bound counts the host, so `at()` throws and the process
  goes down (`room_leave` shows the shortest way there);
* `DismissalsAreMarked`: `DismissedIsLeaving` if `"hostLeave" \notin Faults`, whatever
  else the peers do. `server.cpp:52` marks clients on the branch of a start only,
  so the invariant (`DInv`) says that a host which stays reaches `endRoom()`
  through a start, and that the clients of the copied vector are marked when
  the loop that dismisses them begins. With `hostLeave` the property is false;
* `NobodyLeftBehind`: `NobodyStranded` if `OrderKept`: clients come after their room
  and before the start (`early`, `late`), one at a time (`together`), and hosts
  start before they leave (`hostLeave`). Clients and hosts may leave
  and break down as they like, and several hosts may give the same name. The
  four exclusions are those for which the code has no answer: a `nullptr` for a
  client that comes first, a lost element when two threads `push_back`, a copy of
  the vector that misses who comes later, a departure without a start;
* `HostsKeepTheirRooms`: `HostOwnsRoom` if `OneHost` (no two hosts give the same name)
  and `"early" \notin Faults`. A client that comes early leaves a `nullptr` in the
  place of the room (`room_early`), a second host ends the room of the first;
  joining late or together, leaving and breaking down do not take a room away;
* `ServerSurvives`: `NoCrash` if `OneHost` and `PeersStay`: nobody comes `early` or
  `late`, clients join one at a time (`together`) and do not leave (`leave`), no host
  leaves without a start or breaks down (`hostLeave`, `hostReset`). Each of the six is
  needed; with one host TLC finds a crash as soon as one of them is dropped. `leave` is
  `room_leave`; a client that comes early looks up a `nullptr`, one that comes late the
  room of a handler that has gone, a host that leaves or breaks down ends a room that
  others still use, or ends it twice, and where five clients join together what a
  `push_back` has skipped can be a pointer to a client that was refused. Clients may lose
  their connections, and clients with a wrong password come and go.

`NInv` is the invariant of `NobodyLeftBehind`: a room belongs to a host that names it
(`RoomsOfHosts`); nobody joins once a host has said that it starts
(`Sealed`); who joins will write behind the vector's last element (`OneByOne`); who
is within is in the vector, then in the copy, until it is told to leave (`Counted`).
`OInv` follows a host from the making of its room, which it finds absent, to its
end (`Owner`): with one host to a room nobody else ends it (`EndsItsOwn`). `SInv` says
what is left to do to a host and its clients that stay: one start is on its way or
being served (`HostServed`), and who joins finds the living room of a host that has
not said that it starts (`ClientServed`, `JoinsALiveHost`). Everybody in a room's
vector is within or has been sent away, everybody in a copy that is still gone
through is within (`VectorServed`), so that the loops of `endRoom()` follow pointers to
handlers that are there.
`Faults = {}` and `OneRoom` in `punch` satisfy all hypotheses.

The assumption separates peers, `nullptr`, absent entries and `Crashed`.

### The test programs (`PunchClientsProofs`)

For any sets of hosts and clients and any losses of datagrams:

* `ProgramsArePeers`: `PunchSpec => Safety`. The programs around the server do nothing that
  `RoomServer` does not allow its peers, so all theorems above hold of them;
* `PunchTypeCorrect`: `PunchTypeOK`;
* `ProgramsAreMarked`: `DismissedIsLeaving` without a hypothesis, since `test1()` never
  leaves before it is told to;
* `ProgramsAreServed`: `NoCrash` and `NobodyStranded` if `OneHost` and `PeersStay`, the
  hypotheses of `ServerSurvives`, which contain that of `NobodyLeftBehind`;
* `AddressesArrive`: `AddressesInPlace` if `ProgramOrder`: one host per room, and clients
  that join one at a time. A second host of a room would start it once more, and its
  owner be told the addresses twice; two `push_back`s at a time can leave a client out
  or put it in twice. Clients may come before their room is there and after its start.

`RInv` says what the server has told each peer in terms of the place its host's
handler is at: nothing, or the host's own address and those of the copied
vector, then to leave (`HostHears`); nothing, or the host's address and the
client's own, then to leave (`ClientHears`). For this the vector must hold each
client once, each of them still there until it is sent away (`Members`, `Quiet`), so
that the addresses read from the copy are theirs, and a room start once (`StartsOnce`). `ReadSoFar` adds that
`clientAddrVec` is the list of the addresses among the messages read so far: the
programs count messages, and it is the order of `RInv` that makes the count right.
The lemmas are about `Plays`, what a program does at the server, and not about all that
`RoomServer` allows. `Faults = {}` and `OneRoom` in `punch` satisfy the hypothesis.

### The accept loop (`AcceptLoopProofs`)

For any number of connections, failures and socket numbers:

* `TypeCorrect`: `TypeOK`;
* `HandlersKeepToTheirSockets`: `OwnSocketOnly`. The invariant says what a calm
  loop keeps: the one handler that has not read its parameter is the one the local
  variable is about (`VariableIsTheirs`), and a connection that is being created,
  served or still to be closed has its number to itself (`NumbersHeld`), so that
  closing a number never closes another connection's socket. What happens to
  `threadMap` plays no part.
* `HandlersFindTheirThreads`: `KillFindsThread`. While none of the races has happened
  (`Quiet`), the entries of `threadMap` are exactly the handlers that have not
  forgotten their thread, each under its socket's number (`Registered`,
  `EntriesLive`), but for the one that the loop is about to register, whose key is
  free (`KeyIsFree`) and which has not stopped yet (`StillServing`). Each of the
  three races breaks one of these: a burst the parameter (`ParameterRead`), the
  reuse of a number the free key, an early end the handler that still serves.

The assumption separates connections, numbers and the places of `TypeOK`.

### The library's parts (`LibraryPartsProofs`)

*Sockets.* For any set of objects and of numbers, and any combination of classes in which a
test program has one object:

* `SocketsTypeCorrect`: `SocketsTypeOK`;
* `SocketsNotShared`, `SocketsNotLost`: `NoSharedSocket`, `NothingLeaks`. Every
  failure ends Windows sockets (`CleanupEnds`), after which nothing is open
  (`EndedKeeps`); so the proof is about the time before the first failure, when a
  number in a living object is that of an open socket (`NumbersOpen`) and a new
  number is in no other object (`OpensKeeps`). Without the WSACleanup() of a failed
  `connect()` the first half breaks, which is the mutant of the run.

*ConditionVariable.* For any set of threads and any number of sleeps,
`SectionReturned`: `SectionIsReturned`. A thread between its calls inside `sleep()`
owns the section, and only a thread that sleeps for the second time in the
viewer's copy owns it twice (`SectionInv`); a sleeper gives back one of what it
holds, which is all of it except there.

*Mediator.* For any set of listeners and any bounds, `RequestsFindQueue`:
`QueueBehindSection`. `SectionGivenLast` is the order of `addListener()`: who has the
pointer to the section, and is not being removed, has the one to the queue;
`RequestsEquipped` keeps both for as long as a request runs undisturbed.

*Input events.* For any number of events, `EventsInOrder`: `SentAsHooked`. The events
sent, the one in the sender's hand and those in the queue are, in this order,
the events hooked (`InOrder`), and each was sent with the flags of its own
message (`SentRight`), which needs the sender to start from no flags each time.

*First interaction.* For every size of the fields and every set of names and
letters, `RoomsAreFound`: `RoomsMeet`. The lemmas on `Field` and `CStrings` say that a
name that leaves room for the NUL is the one string that can be read back, from the
field of its own and from no other of the structure; the invariant (`GInv`) carries
it through the answer.

*All of them.* `PartsAreThemselves`: `PartsSpec` implies the specification of each part,
fairness included, so that the one run that checks them is a run of each;
`PartsTypeCorrect`: `PartsTypeOK`. For the queue of the mediator, `PlacesReserved` keeps a
place for every listener inside a request; the length of the listeners' vector after
`removeListener()` needs the first index at which a listener is found
(`RemoveFirstType`, `LeastOfNaturals` from the well-foundedness of the naturals).

### Only model-checked

Liveness under fairness is out of the prover's reach: the fairness part of
`ImplementsQueue`, `EventuallyReleased`, `EachFrameShown`, `QuitTerminates`,
`HandlersReturn`, `EveryClientHearsItsHost`, `StoppedHandlersEnd`, `EventsAreSent`,
`SleepReturns` and `RequestReturns`. So is induction over data, and it was not needed: what a
buffer has counted (`SizeOf`) is stated with the cardinality of the set of its chunks,
and the least index of a vector with the well-foundedness of the naturals. Of the four
properties that runs find violated, two are theorems under a hypothesis that excludes
what the run does (`NoCrash`, `HostOwnsRoom`); the others are no theorems.

## 5. Not modelled

* The library streams (`PacketManager`, `FramePacketsStream`, `FrameBufferStream` of
  `RDIBY/`): no program creates one, and constructors and pure virtual functions
  they need have no definition, so there is no behaviour to be faithful to.
  VideoHost and VideoClient contain the code that runs.
* Popping from the mediator's queue and executing actions: no code does it.
* The event managers of the library, whose callbacks are empty, and the arithmetic
  of mouse coordinates.
* `tryEntry()`: nothing calls it.
* The memory of a handler that has returned being the stack of another one: a
  pointer into it reads as anything or ends the process, but does not name the
  other.
* `bind()` failing in the constructor of `PacketManager` (`host.cpp:21`): that host
  sends and receives nothing. `EncryptedHostSocket` (`RDIBY/host.cpp:115`), a stub that
  opens no socket, and datagrams that are not of the stream, which the host does
  not send (`main.cpp:240` skips them).
* Socket options, GDI+, registration of window classes: data and library calls
  without control of their own. Collisions of `std::hash` are outside the
  models, and TCP segments that split the first structure.
* Wrap-around of the DWORD counters of frames and datagrams: a stream would have to
  run for months.
* Chunk sizes that wrap: the two sizes in use are far from the ends of a WORD.
* `main()` of the host returning: `initStream()` does not return while the
  program is on, and nothing turns it off.
* What the test programs do when the connection ends without the message to
  leave (they read the last message again for ever).
* The unsynchronised access to the hash table `activeFrames` beyond the reference
  into it (`ClientPipeline`).

## 6. Plan

1. **Core** (done): queues, host, viewer, session, rooms, accept loop, test
   programs; proofs about the queues, the host and the rooms.
2. **More of the system** (done): sockets, first interaction, input events,
   `ConditionVariable`, the mediator, failures of `accept()`; one run for the six
   small modules; proofs about the accept loop, the sockets and the mediator.
3. **More proofs** (done): every safety property of a passing run, the refinements of the
   queues and of the session, the test programs as peers of the server, who owns a
   room and when the server survives, the cutting of frames on both sides, WORD
   widths included.
4. **Left**: what the server does for a room whose host leaves without a start, as a
   property of its own beside `DismissalsAreMarked` (`NobodyStranded` is false there);
   a viewer that gets datagrams twice, for which the property would have to be that
   of a corrected count; a server that goes down under the test programs.

Theorems stay with the component they are about, in a module `...Proofs` of its own;
the six small modules share one.
