-------------------------- MODULE ThreadSafeQueue --------------------------
(***************************************************************************)
(* ThreadSafeQueue<T> and ThreadSafePrioQueue<T, Comp> of datastructures.h *)
(* as their callers' threads run them: a container guarded by the critical *)
(* section "access" and a counting semaphore that holds one permit per     *)
(* stored item.  The two are changed in DIFFERENT steps: Push stores under *)
(* the lock and releases the permit after leaving it, Pop takes the permit *)
(* first and enters the lock afterwards, Clear never touches the permits.  *)
(***************************************************************************)
EXTENDS Integers, Sequences, FiniteSets

CONSTANTS
    Producers, Consumers, Clearers, Readers,    \* threads, by the operation they call
    Item,                                       \* what is stored, ordered by <=
    Prioritised,    \* TRUE: the priority_queue (least item on top); FALSE: the FIFO
    Timed,          \* TRUE: timeout is finite (RDIBYClient, 3 ms); FALSE: INFINITE
    MaxSem,         \* the semaphore's maximum count, MAXINT in the code
    Capacity,       \* bound of the model: items the container has memory for
    Nobody,         \* the owner of a free critical section
    NoResult, Done, EmptyQueue, TimedOut, ReleaseFailed     \* answers

Threads == Producers \cup Consumers \cup Clearers \cup Readers
Answers == {NoResult, Done, EmptyQueue, TimedOut, ReleaseFailed}

ASSUME ThreadsAssumption ==
    /\ IsFiniteSet(Threads)
    /\ Nobody \notin Threads

ASSUME ItemAssumption == Item \subseteq Int /\ Item \cap Answers = {}

ASSUME BoundsAssumption ==
    /\ Capacity \in Nat /\ MaxSem \in Nat
    /\ Capacity <= MaxSem
    /\ Prioritised \in BOOLEAN /\ Timed \in BOOLEAN

VARIABLES
    queue,      \* this->queue, the element front() / top() returns first
    sem,        \* count of this->queue_semaphore
    access,     \* owner of the critical section
    pc,         \* where each thread is inside an operation
    ret         \* what each thread's latest operation returned or threw

vars == <<queue, sem, access, pc, ret>>

TypeOK ==
    /\ queue \in Seq(Item) /\ Len(queue) <= Capacity
    /\ sem \in 0..MaxSem
    /\ access \in Threads \cup {Nobody}
    /\ pc \in [Threads -> {"idle", "push", "release", "wait", "claimed",
                           "pop", "clear", "peek"}]
    /\ ret \in [Threads -> Item \cup Answers]

Init ==
    /\ queue = <<>>
    /\ sem = 0
    /\ access = Nobody
    /\ pc = [t \in Threads |-> "idle"]
    /\ ret = [t \in Threads |-> NoResult]

Goto(t, l) == pc' = [pc EXCEPT ![t] = l]
Return(t, r) == ret' = [ret EXCEPT ![t] = r] /\ Goto(t, "idle")

EnterCriticalSection(t) == access = Nobody /\ access' = t
LeaveCriticalSection(t) == access = t /\ access' = Nobody

-----------------------------------------------------------------------------
(* Push *)

PushEnter(p) ==
    /\ pc[p] = "idle"
    /\ Len(queue) < Capacity
    /\ EnterCriticalSection(p)
    /\ Goto(p, "push")
    /\ UNCHANGED <<queue, sem, ret>>

(* Mutant: the comparator of the priority queue the wrong way round.       *)
FitsReversed(k, x) ==
    /\ \A i \in 1..k : Prioritised => queue[i] >= x
    /\ \A i \in (k + 1)..Len(queue) : Prioritised /\ x > queue[i]

(* Where the container keeps a new item x: at the end of a std::queue,     *)
(* after the items that must leave before it in a std::priority_queue.     *)
Fits(k, x) ==
    /\ \A i \in 1..k : Prioritised => queue[i] <= x
    /\ \A i \in (k + 1)..Len(queue) : Prioritised /\ x < queue[i]

Insert(k, x) ==
    SubSeq(queue, 1, k) \o <<x>> \o SubSeq(queue, k + 1, Len(queue))

(* Mutant: Push returns without LeaveCriticalSection.                      *)
PushBodyKeepsLock(p) ==
    /\ pc[p] = "push" /\ access = p
    /\ \E x \in Item, k \in 0..Len(queue) : Fits(k, x) /\ queue' = Insert(k, x)
    /\ Goto(p, "release")
    /\ UNCHANGED <<sem, access, ret>>

PushBody(p) ==
    /\ pc[p] = "push"
    /\ \E x \in Item, k \in 0..Len(queue) : Fits(k, x) /\ queue' = Insert(k, x)
    /\ LeaveCriticalSection(p)
    /\ Goto(p, "release")
    /\ UNCHANGED <<sem, ret>>

(* Mutant: Push stores without releasing a permit.                         *)
PushReleaseForgotten(p) ==
    /\ pc[p] = "release"
    /\ Return(p, Done)
    /\ UNCHANGED <<queue, sem, access>>

PushRelease(p) ==
    /\ pc[p] = "release"
    /\ IF sem < MaxSem
       THEN sem' = sem + 1 /\ Return(p, Done)
       ELSE sem' = sem /\ Return(p, ReleaseFailed)
    /\ UNCHANGED <<queue, access>>

-----------------------------------------------------------------------------
(* Pop *)

PopCall(c) ==
    /\ pc[c] = "idle"
    /\ Goto(c, "wait")
    /\ UNCHANGED <<queue, sem, access, ret>>

(* Mutants: the wait goes through without a permit and counts one all the  *)
(* same, or goes through without a permit.                                 *)
PopWaitUnguarded(c) ==
    pc[c] = "wait" /\ sem' = sem - 1 /\ Goto(c, "claimed") /\ UNCHANGED <<queue, access, ret>>
PopWaitIgnored(c) ==
    pc[c] = "wait" /\ Goto(c, "claimed") /\ sem' \in {sem - 1, 0} \cap Nat
    /\ UNCHANGED <<queue, access, ret>>

PopWait(c) ==
    /\ pc[c] = "wait"
    /\ sem > 0
    /\ sem' = sem - 1
    /\ Goto(c, "claimed")
    /\ UNCHANGED <<queue, access, ret>>

PopTimeout(c) ==
    /\ pc[c] = "wait"
    /\ Timed
    /\ sem = 0
    /\ Return(c, TimedOut)
    /\ UNCHANGED <<queue, sem, access>>

PopEnter(c) ==
    /\ pc[c] = "claimed"
    /\ EnterCriticalSection(c)
    /\ Goto(c, "pop")
    /\ UNCHANGED <<queue, sem, ret>>

(* Mutant: Pop takes what was stored last.                                 *)
PopBodyNewest(c) ==
    /\ pc[c] = "pop"
    /\ IF queue = <<>>
       THEN queue' = queue /\ Return(c, EmptyQueue)
       ELSE queue' = SubSeq(queue, 1, Len(queue) - 1) /\ Return(c, queue[Len(queue)])
    /\ LeaveCriticalSection(c)
    /\ UNCHANGED sem

PopBody(c) ==
    /\ pc[c] = "pop"
    /\ IF queue = <<>>
       THEN queue' = queue /\ Return(c, EmptyQueue)
       ELSE queue' = Tail(queue) /\ Return(c, Head(queue))
    /\ LeaveCriticalSection(c)
    /\ UNCHANGED sem

-----------------------------------------------------------------------------
(* Clear, and Peek / Size, which only look *)

ClearEnter(t) ==
    /\ pc[t] = "idle"
    /\ EnterCriticalSection(t)
    /\ Goto(t, "clear")
    /\ UNCHANGED <<queue, sem, ret>>

ClearBody(t) ==
    /\ pc[t] = "clear"
    /\ queue' = <<>>
    /\ LeaveCriticalSection(t)
    /\ Goto(t, "idle")
    /\ UNCHANGED <<sem, ret>>

PeekEnter(t) ==
    /\ pc[t] = "idle"
    /\ EnterCriticalSection(t)
    /\ Goto(t, "peek")
    /\ UNCHANGED <<queue, sem, ret>>

PeekBody(t) ==
    /\ pc[t] = "peek"
    /\ Return(t, IF queue = <<>> THEN EmptyQueue ELSE Head(queue))
    /\ LeaveCriticalSection(t)
    /\ UNCHANGED <<queue, sem>>

-----------------------------------------------------------------------------
Push(p) == PushEnter(p) \/ PushBody(p) \/ PushRelease(p)
Pop(c) == PopCall(c) \/ PopWait(c) \/ PopTimeout(c) \/ PopEnter(c) \/ PopBody(c)
Clear(t) == ClearEnter(t) \/ ClearBody(t)
Peek(t) == PeekEnter(t) \/ PeekBody(t)

Next ==
    \/ \E p \in Producers : Push(p)
    \/ \E c \in Consumers : Pop(c)
    \/ \E t \in Clearers : Clear(t)
    \/ \E t \in Readers : Peek(t)

(* A thread inside an operation keeps running; whether it calls another is *)
(* its own affair.  Critical sections are not first-come first-served, but *)
(* the system is fair to the threads that wait for one: strong fairness.   *)
Fairness ==
    /\ \A p \in Producers : WF_vars(PushBody(p)) /\ WF_vars(PushRelease(p))
    /\ \A c \in Consumers :
          WF_vars(PopWait(c)) /\ SF_vars(PopEnter(c)) /\ WF_vars(PopBody(c))
    /\ \A t \in Clearers : WF_vars(ClearBody(t))
    /\ \A t \in Readers : WF_vars(PeekBody(t))

Safety == Init /\ [][Next]_vars
Spec == Safety /\ Fairness

-----------------------------------------------------------------------------
(* Permits that are on their way: stored items whose Push has yet to       *)
(* release, and released permits whose Pop has yet to take an item.        *)
Releasing == {t \in Threads : pc[t] = "release"}
Claiming == {t \in Threads : pc[t] \in {"claimed", "pop"}}
Permits == sem + Cardinality(Releasing) + Cardinality(Claiming)

(* Mutual exclusion: the container is touched only by the owner of access, *)
(* and the owner is always a thread inside one of the guarded bodies, so   *)
(* no path (the throw of Pop and Peek included) keeps the lock.            *)
LockInv ==
    \A t \in Threads : access = t <=> pc[t] \in {"push", "pop", "clear", "peek"}

(* No stored item is stranded: whatever the interleaving, and even when    *)
(* ReleaseSemaphore fails after a Clear has left spare permits, there are  *)
(* at least as many permits as items, so a Pop can reach each of them.     *)
NoStrandedItem == Len(queue) <= Permits

(* Unless somebody calls Clear, there are no spare permits either.         *)
NoSparePermit == Clearers = {} => Permits <= Len(queue)

(* ... hence Pop never throws "empty queue" to the owner of a permit, and  *)
(* ReleaseSemaphore has room for every Push.                               *)
NoErrorWithoutClear ==
    Clearers = {} =>
        /\ \A t \in Claiming : queue # <<>>
        /\ \A t \in Releasing : sem < MaxSem

(* A Pop of the prio queue returns an item no stored item should precede.  *)
PopTakesLeast ==
    [][\A c \in Consumers :
          (pc[c] = "pop" /\ pc'[c] = "idle" /\ queue # <<>> /\ Prioritised) =>
              \A i \in 1..Len(queue) : ret'[c] <= queue[i]]_vars

(* The steps of Push and Pop implement the atomic queue of QueueSpec, with *)
(* its promise that a waiting Pop is served while items are there.         *)
Abstract == INSTANCE QueueSpec WITH
    items <- queue,
    waiting <- {c \in Consumers : pc[c] \in {"wait", "claimed", "pop"}},
    result <- ret

ImplementsQueue == Abstract!Spec
=============================================================================
