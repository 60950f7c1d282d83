----------------------------- MODULE QueueSpec -----------------------------
(***************************************************************************)
(* What the queues of datastructures.h promise their callers: Push, Pop,   *)
(* Peek and Clear look like single steps on one sequence, a Pop takes the  *)
(* element at the front, it fails with "empty queue" only where Clear is   *)
(* used and the queue is empty, and some waiting Pop is served as long as  *)
(* items and waiters are there.                                            *)
(***************************************************************************)
EXTENDS Integers, Sequences

CONSTANTS
    Producers, Consumers, Clearers, Readers,    \* who calls Push / Pop / Clear / Peek
    Item,                                       \* what is stored, ordered by <=
    Prioritised,                                \* ThreadSafePrioQueue or ThreadSafeQueue
    Timed,                                      \* is the semaphore wait bounded?
    NoResult, Done, EmptyQueue, TimedOut, ReleaseFailed

VARIABLES
    items,      \* the stored items, next to be taken first
    waiting,    \* the callers of Pop that have no answer yet
    result      \* the answer of each caller's latest call

vars == <<items, waiting, result>>

Callers == Producers \cup Consumers \cup Clearers \cup Readers

(* x may be stored between the first k items and the others: at the end of *)
(* a FIFO queue, behind its equals and before its betters in a prioritised *)
(* one.                                                                    *)
Fits(q, k, x) ==
    /\ \A i \in 1..k : Prioritised => q[i] <= x
    /\ \A i \in (k + 1)..Len(q) : Prioritised /\ x < q[i]

Insert(q, k, x) == SubSeq(q, 1, k) \o <<x>> \o SubSeq(q, k + 1, Len(q))

Init ==
    /\ items = <<>>
    /\ waiting = {}
    /\ result = [t \in Callers |-> NoResult]

Answer(t, r) == result' = [result EXCEPT ![t] = r]

Enqueue ==
    /\ \E x \in Item, k \in 0..Len(items) :
          Fits(items, k, x) /\ items' = Insert(items, k, x)
    /\ UNCHANGED <<waiting, result>>

(* The caller of Push learns the outcome later; its item is stored in      *)
(* either case.                                                            *)
Pushed(p) ==
    /\ \/ Answer(p, Done)
       \/ Clearers # {} /\ Answer(p, ReleaseFailed)
    /\ UNCHANGED <<items, waiting>>

CallPop(c) ==
    /\ waiting' = waiting \cup {c}
    /\ UNCHANGED <<items, result>>

Dequeue(c) ==
    /\ c \in waiting
    /\ items # <<>>
    /\ Answer(c, Head(items))
    /\ items' = Tail(items)
    /\ waiting' = waiting \ {c}

FailPop(c) ==
    /\ c \in waiting
    /\ \/ Timed /\ Answer(c, TimedOut)
       \/ Clearers # {} /\ items = <<>> /\ Answer(c, EmptyQueue)
    /\ waiting' = waiting \ {c}
    /\ UNCHANGED items

Peek(r) ==
    /\ Answer(r, IF items = <<>> THEN EmptyQueue ELSE Head(items))
    /\ UNCHANGED <<items, waiting>>

Clear ==
    /\ items' = <<>>
    /\ UNCHANGED <<waiting, result>>

Next ==
    \/ Enqueue
    \/ \E p \in Producers : Pushed(p)
    \/ \E c \in Consumers : CallPop(c) \/ Dequeue(c) \/ FailPop(c)
    \/ \E r \in Readers : Peek(r)
    \/ Clearers # {} /\ Clear

Safety == Init /\ [][Next]_vars

Spec == Safety /\ WF_vars(\E c \in Consumers : Dequeue(c))
=============================================================================
