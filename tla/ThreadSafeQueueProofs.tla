---------------------- MODULE ThreadSafeQueueProofs ------------------------
(***************************************************************************)
(* The safety of the queues of datastructures.h for every number of        *)
(* threads, every set of items and every size of container and semaphore.  *)
(***************************************************************************)
EXTENDS ThreadSafeQueue, FiniteSetTheorems, TLAPS

(* PushEnter found room and nobody else stores while it owns the lock.     *)
PushRoom == \A t \in Threads : pc[t] = "push" => Len(queue) < Capacity

(* The inductive invariant.  The permit count needs the lock discipline    *)
(* (LockInv keeps Len(queue) still while a body runs) and PushRoom keeps   *)
(* the container within the memory the semaphore can count.                *)
IInv ==
    /\ TypeOK
    /\ LockInv
    /\ PushRoom
    /\ NoStrandedItem
    /\ NoSparePermit

-----------------------------------------------------------------------------
(* Storing an item makes the sequence one longer and keeps its type.       *)
LEMMA InsertType ==
    ASSUME TypeOK, NEW x \in Item, NEW k \in 0..Len(queue)
    PROVE  /\ Insert(k, x) \in Seq(Item)
           /\ Len(Insert(k, x)) = Len(queue) + 1
<1>1. queue \in Seq(Item) /\ Len(queue) \in Nat /\ k \in Nat /\ k <= Len(queue)
  BY DEF TypeOK
<1>2. /\ SubSeq(queue, 1, k) \in Seq(Item)
      /\ Len(SubSeq(queue, 1, k)) = k
  BY <1>1
<1>3. /\ SubSeq(queue, k + 1, Len(queue)) \in Seq(Item)
      /\ Len(SubSeq(queue, k + 1, Len(queue))) = Len(queue) - k
  BY <1>1
<1>4. <<x>> \in Seq(Item) /\ Len(<<x>>) = 1
  OBVIOUS
<1>5. /\ SubSeq(queue, 1, k) \o <<x>> \in Seq(Item)
      /\ Len(SubSeq(queue, 1, k) \o <<x>>) = k + 1
  BY <1>1, <1>2, <1>4
<1>6. \A a, b \in Seq(Item) : a \o b \in Seq(Item) /\ Len(a \o b) = Len(a) + Len(b)
  OBVIOUS
<1>7. /\ Insert(k, x) \in Seq(Item)
      /\ Len(Insert(k, x)) = (k + 1) + (Len(queue) - k)
  BY <1>3, <1>5, <1>6, Zenon DEF Insert
<1>8. QED
  BY <1>1, <1>7

(* The two sets of threads that hold a permit on its way are finite.       *)
LEMMA PermitSetsFinite ==
    /\ IsFiniteSet(Releasing) /\ Cardinality(Releasing) \in Nat
    /\ IsFiniteSet(Claiming) /\ Cardinality(Claiming) \in Nat
<1>1. Releasing \subseteq Threads /\ Claiming \subseteq Threads
  BY DEF Releasing, Claiming
<1>2. QED
  BY <1>1, ThreadsAssumption, FS_Subset, FS_CardinalityType

(* How moving one thread changes the two sets, and so the number of        *)
(* permits on their way.                                                   *)
LEMMA MoveCount ==
    ASSUME TypeOK, NEW t \in Threads, NEW l, Goto(t, l)
    PROVE  /\ Cardinality(Releasing)' =
                 IF l = "release"
                 THEN IF pc[t] = "release" THEN Cardinality(Releasing)
                                           ELSE Cardinality(Releasing) + 1
                 ELSE IF pc[t] = "release" THEN Cardinality(Releasing) - 1
                                           ELSE Cardinality(Releasing)
           /\ Cardinality(Claiming)' =
                 IF l \in {"claimed", "pop"}
                 THEN IF pc[t] \in {"claimed", "pop"} THEN Cardinality(Claiming)
                                                      ELSE Cardinality(Claiming) + 1
                 ELSE IF pc[t] \in {"claimed", "pop"} THEN Cardinality(Claiming) - 1
                                                      ELSE Cardinality(Claiming)
<1>1. /\ t \in Releasing <=> pc[t] = "release"
      /\ t \in Claiming <=> pc[t] \in {"claimed", "pop"}
  BY DEF Releasing, Claiming
<1>2. /\ Cardinality(Releasing \cup {t}) =
            IF t \in Releasing THEN Cardinality(Releasing)
                               ELSE Cardinality(Releasing) + 1
      /\ Cardinality(Releasing \ {t}) =
            IF t \in Releasing THEN Cardinality(Releasing) - 1
                               ELSE Cardinality(Releasing)
  BY PermitSetsFinite, FS_AddElement, FS_RemoveElement
<1>3. /\ Cardinality(Claiming \cup {t}) =
            IF t \in Claiming THEN Cardinality(Claiming)
                              ELSE Cardinality(Claiming) + 1
      /\ Cardinality(Claiming \ {t}) =
            IF t \in Claiming THEN Cardinality(Claiming) - 1
                              ELSE Cardinality(Claiming)
  BY PermitSetsFinite, FS_AddElement, FS_RemoveElement
<1>4. \A u \in Threads : pc'[u] = IF u = t THEN l ELSE pc[u]
  BY DEF TypeOK, Goto
<1>5. Releasing' = IF l = "release" THEN Releasing \cup {t} ELSE Releasing \ {t}
  BY <1>4 DEF Releasing
<1>6. Claiming' = IF l \in {"claimed", "pop"} THEN Claiming \cup {t}
                                              ELSE Claiming \ {t}
  BY <1>4 DEF Claiming
<1>7. Cardinality(Releasing)' =
         IF l = "release" THEN Cardinality(Releasing \cup {t})
                          ELSE Cardinality(Releasing \ {t})
  <2>1. CASE l = "release"
    BY <1>5, <2>1
  <2>2. CASE l # "release"
    BY <1>5, <2>2
  <2>3. QED
    BY <2>1, <2>2
<1>8. Cardinality(Claiming)' =
         IF l \in {"claimed", "pop"} THEN Cardinality(Claiming \cup {t})
                                     ELSE Cardinality(Claiming \ {t})
  <2>1. CASE l \in {"claimed", "pop"}
    BY <1>6, <2>1
  <2>2. CASE l \notin {"claimed", "pop"}
    BY <1>6, <2>2
  <2>3. QED
    BY <2>1, <2>2
<1>9. QED
  BY <1>1, <1>2, <1>3, <1>7, <1>8

-----------------------------------------------------------------------------
(* The constructor establishes the inductive invariant.                    *)
LEMMA InitInv == Init => IInv
<1> SUFFICES ASSUME Init PROVE IInv
  OBVIOUS
<1>1. TypeOK /\ LockInv /\ PushRoom
  BY ThreadsAssumption, BoundsAssumption
     DEF Init, TypeOK, LockInv, PushRoom, Answers
<1>2. Releasing = {} /\ Claiming = {}
  BY DEF Init, Releasing, Claiming
<1>3. Permits = 0
  BY <1>2, FS_EmptySet DEF Init, Permits
<1>4. Len(queue) = 0
  BY DEF Init
<1>5. QED
  BY <1>1, <1>3, <1>4 DEF IInv, NoStrandedItem, NoSparePermit

(* Every step preserves the type, the lock discipline and the room.        *)
LEMMA NextBasics ==
    ASSUME IInv, Next
    PROVE  TypeOK' /\ LockInv' /\ PushRoom'
<1> USE ThreadsAssumption, BoundsAssumption DEF IInv, PushRoom, LockInv, Threads
<1>1. ASSUME NEW p \in Producers, PushEnter(p)
      PROVE  TypeOK' /\ LockInv' /\ PushRoom'
  BY <1>1 DEF PushEnter, EnterCriticalSection, Goto, TypeOK
<1>2. ASSUME NEW p \in Producers, PushBody(p)
      PROVE  TypeOK' /\ LockInv' /\ PushRoom'
  <2>1. PICK x \in Item, k \in 0..Len(queue) : queue' = Insert(k, x)
    BY <1>2 DEF PushBody
  <2>2. queue' \in Seq(Item) /\ Len(queue') = Len(queue) + 1
    BY <2>1, InsertType
  <2>3. Len(queue) \in Nat /\ Len(queue) < Capacity
    BY <1>2 DEF PushBody, TypeOK
  <2>4. QED
    BY <1>2, <2>2, <2>3 DEF PushBody, LeaveCriticalSection, Goto, TypeOK
<1>3. ASSUME NEW p \in Producers, PushRelease(p)
      PROVE  TypeOK' /\ LockInv' /\ PushRoom'
  <2>1. /\ pc[p] = "release" /\ pc' = [pc EXCEPT ![p] = "idle"]
        /\ \E r \in Answers : ret' = [ret EXCEPT ![p] = r]
        /\ sem' = sem \/ (sem < MaxSem /\ sem' = sem + 1)
        /\ queue' = queue /\ access' = access
    BY <1>3 DEF PushRelease, Return, Goto, Answers
  <2>2. QED
    BY <2>1 DEF TypeOK
<1>4. ASSUME NEW c \in Consumers, PopCall(c)
      PROVE  TypeOK' /\ LockInv' /\ PushRoom'
  BY <1>4 DEF PopCall, Goto, TypeOK
<1>5. ASSUME NEW c \in Consumers, PopWait(c)
      PROVE  TypeOK' /\ LockInv' /\ PushRoom'
  BY <1>5 DEF PopWait, Goto, TypeOK
<1>6. ASSUME NEW c \in Consumers, PopTimeout(c)
      PROVE  TypeOK' /\ LockInv' /\ PushRoom'
  BY <1>6 DEF PopTimeout, Return, Goto, TypeOK, Answers
<1>7. ASSUME NEW c \in Consumers, PopEnter(c)
      PROVE  TypeOK' /\ LockInv' /\ PushRoom'
  BY <1>7 DEF PopEnter, EnterCriticalSection, Goto, TypeOK
<1>8. ASSUME NEW c \in Consumers, PopBody(c)
      PROVE  TypeOK' /\ LockInv' /\ PushRoom'
  <2>1. /\ queue' \in Seq(Item) /\ Len(queue') <= Len(queue)
        /\ \E r \in Item \cup Answers : ret' = [ret EXCEPT ![c] = r]
    <3>1. CASE queue = <<>>
      BY <1>8, <3>1 DEF PopBody, Return, TypeOK, Answers
    <3>2. CASE queue # <<>>
      <4>1. Head(queue) \in Item /\ Tail(queue) \in Seq(Item)
            /\ Len(Tail(queue)) = Len(queue) - 1 /\ Len(queue) \in Nat
        BY <3>2 DEF TypeOK
      <4>2. QED
        BY <1>8, <3>2, <4>1 DEF PopBody, Return
    <3>3. QED
      BY <3>1, <3>2
  <2>2. Len(queue') <= Capacity /\ Len(queue) \in Nat /\ Len(queue') \in Nat
    BY <2>1 DEF TypeOK
  <2>3. pc' = [pc EXCEPT ![c] = "idle"] /\ pc[c] = "pop" /\ sem' = sem
    BY <1>8 DEF PopBody, Return, Goto
  <2>4. access = c /\ access' = Nobody
    BY <1>8 DEF PopBody, LeaveCriticalSection
  <2>5. QED
    BY <2>1, <2>2, <2>3, <2>4 DEF TypeOK
<1>9. ASSUME NEW t \in Clearers, Clear(t)
      PROVE  TypeOK' /\ LockInv' /\ PushRoom'
  <2>1. CASE ClearEnter(t)
    BY <2>1 DEF ClearEnter, EnterCriticalSection, Goto, TypeOK
  <2>2. CASE ClearBody(t)
    BY <2>2 DEF ClearBody, LeaveCriticalSection, Goto, TypeOK
  <2>3. QED
    BY <1>9, <2>1, <2>2 DEF Clear
<1>10. ASSUME NEW t \in Readers, Peek(t)
      PROVE  TypeOK' /\ LockInv' /\ PushRoom'
  <2>1. CASE PeekEnter(t)
    BY <2>1 DEF PeekEnter, EnterCriticalSection, Goto, TypeOK
  <2>2. CASE PeekBody(t)
    <3>1. \E r \in Item \cup Answers : ret' = [ret EXCEPT ![t] = r]
      <4>1. queue # <<>> => Head(queue) \in Item
        BY DEF TypeOK
      <4>2. QED
        BY <2>2, <4>1 DEF PeekBody, Return, Answers
    <3>2. /\ pc' = [pc EXCEPT ![t] = "idle"] /\ pc[t] = "peek"
          /\ access = t /\ access' = Nobody
          /\ queue' = queue /\ sem' = sem
      BY <2>2 DEF PeekBody, Return, Goto, LeaveCriticalSection
    <3>3. QED
      BY <3>1, <3>2 DEF TypeOK
  <2>3. QED
    BY <1>10, <2>1, <2>2 DEF Peek
<1>11. QED
  BY <1>1, <1>2, <1>3, <1>4, <1>5, <1>6, <1>7, <1>8, <1>9, <1>10
     DEF Next, Push, Pop

(* Every step preserves the balance of items and permits.                  *)
LEMMA NextPermits ==
    ASSUME IInv, Next
    PROVE  NoStrandedItem' /\ NoSparePermit'
<1> USE BoundsAssumption DEF Threads
<1>0. /\ TypeOK /\ LockInv /\ PushRoom /\ NoStrandedItem /\ NoSparePermit
      /\ sem \in Nat /\ sem <= MaxSem /\ Len(queue) \in Nat
      /\ Len(queue) <= Capacity
      /\ Cardinality(Releasing) \in Nat /\ Cardinality(Claiming) \in Nat
  BY PermitSetsFinite DEF IInv, TypeOK
<1> USE <1>0 DEF NoStrandedItem, NoSparePermit, Permits
<1>1. ASSUME NEW p \in Producers, PushEnter(p)
      PROVE  NoStrandedItem' /\ NoSparePermit'
  BY <1>1, MoveCount, SMTT(30) DEF PushEnter
<1>2. ASSUME NEW p \in Producers, PushBody(p)
      PROVE  NoStrandedItem' /\ NoSparePermit'
  <2>1. Len(queue') = Len(queue) + 1
    BY <1>2, InsertType DEF PushBody
  <2>2. QED
    BY <1>2, <2>1, MoveCount, SMTT(30) DEF PushBody
<1>3. ASSUME NEW p \in Producers, PushRelease(p)
      PROVE  NoStrandedItem' /\ NoSparePermit'
  <2>1. /\ pc[p] = "release" /\ Goto(p, "idle")
        /\ sem' = IF sem < MaxSem THEN sem + 1 ELSE sem
        /\ queue' = queue
    BY <1>3 DEF PushRelease, Return
  <2>2. /\ Cardinality(Releasing)' = Cardinality(Releasing) - 1
        /\ Cardinality(Claiming)' = Cardinality(Claiming)
    BY <2>1, MoveCount
  <2>3. CASE sem < MaxSem
    BY <2>1, <2>2, <2>3
  <2>4. CASE sem >= MaxSem
    <3>1. Len(queue) <= sem
      BY <2>4
    <3>2. Cardinality(Releasing)' \in Nat
      <4>1. p \in Releasing
        BY <2>1 DEF Releasing
      <4>2. Cardinality(Releasing) # 0
        BY <4>1, PermitSetsFinite, FS_EmptySet
      <4>3. QED
        BY <2>2, <4>2
    <3>3. QED
      BY <2>1, <2>2, <2>4, <3>1, <3>2
  <2>5. QED
    BY <2>3, <2>4
<1>4. ASSUME NEW c \in Consumers, PopCall(c)
      PROVE  NoStrandedItem' /\ NoSparePermit'
  BY <1>4, MoveCount, SMTT(30) DEF PopCall
<1>5. ASSUME NEW c \in Consumers, PopWait(c)
      PROVE  NoStrandedItem' /\ NoSparePermit'
  BY <1>5, MoveCount DEF PopWait
<1>6. ASSUME NEW c \in Consumers, PopTimeout(c)
      PROVE  NoStrandedItem' /\ NoSparePermit'
  BY <1>6, MoveCount DEF PopTimeout, Return
<1>7. ASSUME NEW c \in Consumers, PopEnter(c)
      PROVE  NoStrandedItem' /\ NoSparePermit'
  BY <1>7, MoveCount DEF PopEnter
<1>8. ASSUME NEW c \in Consumers, PopBody(c)
      PROVE  NoStrandedItem' /\ NoSparePermit'
  <2>1. pc[c] = "pop" /\ Goto(c, "idle") /\ sem' = sem
    BY <1>8 DEF PopBody, Return
  <2>2. /\ Cardinality(Releasing)' = Cardinality(Releasing)
        /\ Cardinality(Claiming)' = Cardinality(Claiming) - 1
    <3>1. c \in Threads /\ "idle" \notin {"release", "claimed", "pop"}
      OBVIOUS
    <3>2. QED
      BY <2>1, <3>1, MoveCount
  <2>3. Cardinality(Claiming) # 0
    <3>1. c \in Claiming
      BY <2>1 DEF Claiming
    <3>2. QED
      BY <3>1, PermitSetsFinite, FS_EmptySet
  <2>4. CASE queue = <<>>
    <3>1. queue' = queue /\ Len(queue) = 0
      BY <1>8, <2>4 DEF PopBody
    <3>2. QED
      BY <2>1, <2>2, <2>3, <3>1
  <2>5. CASE queue # <<>>
    <3>1. queue' = Tail(queue)
      BY <1>8, <2>5 DEF PopBody
    <3>2. Len(Tail(queue)) = Len(queue) - 1
      BY <2>5 DEF TypeOK
    <3>3. Len(queue)' = Len(queue) - 1
      BY <3>1, <3>2
    <3>4. QED
      BY <2>1, <2>2, <3>3
  <2>6. QED
    BY <2>4, <2>5
<1>9. ASSUME NEW t \in Clearers, Clear(t)
      PROVE  NoStrandedItem' /\ NoSparePermit'
  <2>1. CASE ClearEnter(t)
    BY <2>1, MoveCount, SMTT(30) DEF ClearEnter
  <2>2. CASE ClearBody(t)
    <3>1. Len(queue') = 0 /\ sem' = sem
      BY <2>2 DEF ClearBody
    <3>2. /\ Cardinality(Releasing)' = Cardinality(Releasing)
          /\ Cardinality(Claiming)' = Cardinality(Claiming)
      BY <2>2, MoveCount DEF ClearBody
    <3>3. Clearers # {}
      OBVIOUS
    <3>4. QED
      BY <3>1, <3>2, <3>3
  <2>3. QED
    BY <1>9, <2>1, <2>2 DEF Clear
<1>10. ASSUME NEW t \in Readers, Peek(t)
      PROVE  NoStrandedItem' /\ NoSparePermit'
  <2>1. CASE PeekEnter(t)
    BY <2>1, MoveCount, SMTT(30) DEF PeekEnter
  <2>2. CASE PeekBody(t)
    <3>1. pc[t] = "peek" /\ Goto(t, "idle") /\ queue' = queue /\ sem' = sem
      BY <2>2 DEF PeekBody, Return
    <3>2. QED
      BY <3>1, MoveCount, SMTT(30)
  <2>3. QED
    BY <1>10, <2>1, <2>2 DEF Peek
<1>11. QED
  BY <1>1, <1>2, <1>3, <1>4, <1>5, <1>6, <1>7, <1>8, <1>9, <1>10
     DEF Next, Push, Pop

(* No step of any operation leaves the inductive invariant.                *)
LEMMA NextInv == IInv /\ [Next]_vars => IInv'
<1> SUFFICES ASSUME IInv, [Next]_vars PROVE IInv'
  OBVIOUS
<1>1. CASE Next
  BY <1>1, NextBasics, NextPermits DEF IInv
<1>2. CASE UNCHANGED vars
  BY <1>2 DEF vars, IInv, TypeOK, LockInv, PushRoom, NoStrandedItem,
              NoSparePermit, Permits, Releasing, Claiming
<1>3. QED
  BY <1>1, <1>2

(* So every reachable state of the queue satisfies it.                     *)
LEMMA IInvHolds == Safety => []IInv
<1>1. QED
  BY InitInv, NextInv, PTL DEF Safety

-----------------------------------------------------------------------------
(* Every variable keeps its type and the container its bound.              *)
THEOREM TypeCorrect == Safety => []TypeOK
<1>1. IInv => TypeOK
  BY DEF IInv
<1>2. QED
  BY <1>1, IInvHolds, PTL

(* The container is only touched by the owner of the critical section, and *)
(* every path out of Push, Pop, Clear and Peek gives the section back.     *)
THEOREM LockDiscipline == Safety => []LockInv
<1>1. IInv => LockInv
  BY DEF IInv
<1>2. QED
  BY <1>1, IInvHolds, PTL

(* No interleaving of Push, Pop, Peek and Clear leaves a stored item       *)
(* without a permit that lets a Pop reach it.                              *)
THEOREM ItemsReachable == Safety => []NoStrandedItem
<1>1. IInv => NoStrandedItem
  BY DEF IInv
<1>2. QED
  BY <1>1, IInvHolds, PTL

(* Without callers of Clear the permits are exactly as many as the items.  *)
THEOREM PermitsBacked == Safety => []NoSparePermit
<1>1. IInv => NoSparePermit
  BY DEF IInv
<1>2. QED
  BY <1>1, IInvHolds, PTL

(* A permit on its way stands for a stored item, so that neither "empty    *)
(* queue" nor a full semaphore can be met where nobody calls Clear.        *)
LEMMA NoErrorFromPermits == IInv => NoErrorWithoutClear
<1> SUFFICES ASSUME IInv, Clearers = {}
             PROVE  /\ \A t \in Claiming : queue # <<>>
                    /\ \A t \in Releasing : sem < MaxSem
  BY DEF NoErrorWithoutClear
<1>1. /\ sem \in Nat /\ Len(queue) \in Nat /\ Len(queue) <= MaxSem
      /\ sem + Cardinality(Releasing) + Cardinality(Claiming) <= Len(queue)
  BY BoundsAssumption DEF IInv, TypeOK, NoSparePermit, Permits
<1>2. /\ Cardinality(Releasing) \in Nat /\ Cardinality(Claiming) \in Nat
      /\ Cardinality(Releasing) = 0 => Releasing = {}
      /\ Cardinality(Claiming) = 0 => Claiming = {}
  BY PermitSetsFinite, FS_EmptySet
<1>3. ASSUME NEW t \in Claiming PROVE queue # <<>>
  <2>1. Len(queue) # 0
    BY <1>1, <1>2, <1>3
  <2>2. QED
    BY <2>1
<1>4. ASSUME NEW t \in Releasing PROVE sem < MaxSem
  <2>1. MaxSem \in Nat
    BY BoundsAssumption
  <2>2. QED
    BY <1>1, <1>2, <1>4, <2>1
<1>5. QED
  BY <1>3, <1>4

(* Where nobody calls Clear, Pop does not throw "empty queue" at the owner *)
(* of a permit and Push always finds room in the semaphore.                *)
THEOREM ErrorsNeedClear == Safety => []NoErrorWithoutClear
<1>1. QED
  BY NoErrorFromPermits, IInvHolds, PTL

-----------------------------------------------------------------------------
(* Refinement: every step of the detailed queue is a step of the atomic    *)
(* queue of QueueSpec or leaves it alone.                                  *)
LEMMA ImplementsInit == Init => Abstract!Init
<1>1. QED
  BY DEF Init, Abstract!Init, Abstract!Callers, Threads

(* Every step of Push, Pop, Clear or Peek, whoever takes it, is one step   *)
(* of the atomic queue or leaves it alone.                                 *)
LEMMA ImplementsStep ==
    ASSUME IInv, Next
    PROVE  Abstract!Next \/ UNCHANGED Abstract!vars
<1> DEFINE Waiters == {c \in Consumers : pc[c] \in {"wait", "claimed", "pop"}}
<1> USE DEF Threads
<1>0. /\ pc \in [Threads -> {"idle", "push", "release", "wait", "claimed",
                             "pop", "clear", "peek"}]
      /\ NoErrorWithoutClear
  BY NoErrorFromPermits DEF IInv, TypeOK
<1>1. ASSUME NEW p \in Producers, Push(p)
      PROVE  Abstract!Next \/ UNCHANGED Abstract!vars
  <2>1. CASE PushEnter(p)
    <3>1. Waiters' = Waiters
      BY <1>0, <2>1 DEF PushEnter, Goto
    <3>2. QED
      BY <2>1, <3>1 DEF PushEnter, Abstract!vars
  <2>2. CASE PushBody(p)
    <3>1. Waiters' = Waiters
      BY <1>0, <2>2 DEF PushBody, Goto
    <3>2. Abstract!Enqueue
      BY <2>2, <3>1 DEF PushBody, Fits, Insert, Abstract!Enqueue,
                        Abstract!Fits, Abstract!Insert
    <3>3. QED
      BY <3>2 DEF Abstract!Next
  <2>3. CASE PushRelease(p)
    <3>1. Waiters' = Waiters
      BY <1>0, <2>3 DEF PushRelease, Return, Goto
    <3>2. sem < MaxSem \/ Clearers # {}
      BY <1>0, <2>3 DEF PushRelease, NoErrorWithoutClear, Releasing
    <3>3. Abstract!Pushed(p)
      BY <2>3, <3>1, <3>2 DEF PushRelease, Return, Abstract!Pushed, Abstract!Answer
    <3>4. QED
      BY <3>3 DEF Abstract!Next
  <2>4. QED
    BY <1>1, <2>1, <2>2, <2>3 DEF Push
<1>2. ASSUME NEW c \in Consumers, Pop(c)
      PROVE  Abstract!Next \/ UNCHANGED Abstract!vars
  <2>1. CASE PopCall(c)
    <3>1. Waiters' = Waiters \cup {c}
      BY <1>0, <2>1 DEF PopCall, Goto
    <3>2. Abstract!CallPop(c)
      BY <2>1, <3>1 DEF PopCall, Abstract!CallPop
    <3>3. QED
      BY <3>2 DEF Abstract!Next
  <2>2. CASE PopWait(c)
    <3>1. Waiters' = Waiters
      BY <1>0, <2>2 DEF PopWait, Goto
    <3>2. QED
      BY <2>2, <3>1 DEF PopWait, Abstract!vars
  <2>3. CASE PopTimeout(c)
    <3>1. Waiters' = Waiters \ {c} /\ c \in Waiters
      BY <1>0, <2>3 DEF PopTimeout, Return, Goto
    <3>2. Abstract!FailPop(c)
      BY <2>3, <3>1 DEF PopTimeout, Return, Abstract!FailPop, Abstract!Answer
    <3>3. QED
      BY <3>2 DEF Abstract!Next
  <2>4. CASE PopEnter(c)
    <3>1. Waiters' = Waiters
      BY <1>0, <2>4 DEF PopEnter, Goto
    <3>2. QED
      BY <2>4, <3>1 DEF PopEnter, Abstract!vars
  <2>5. CASE PopBody(c)
    <3>1. Waiters' = Waiters \ {c} /\ c \in Waiters
      BY <1>0, <2>5 DEF PopBody, Return, Goto
    <3>2. CASE queue = <<>>
      <4>1. Clearers # {}
        BY <1>0, <2>5, <3>2 DEF PopBody, NoErrorWithoutClear, Claiming
      <4>2. Abstract!FailPop(c)
        BY <2>5, <3>1, <3>2, <4>1
           DEF PopBody, Return, Abstract!FailPop, Abstract!Answer
      <4>3. QED
        BY <4>2 DEF Abstract!Next
    <3>3. CASE queue # <<>>
      <4>1. Abstract!Dequeue(c)
        BY <2>5, <3>1, <3>3 DEF PopBody, Return, Abstract!Dequeue, Abstract!Answer
      <4>2. QED
        BY <4>1 DEF Abstract!Next
    <3>4. QED
      BY <3>2, <3>3
  <2>6. QED
    BY <1>2, <2>1, <2>2, <2>3, <2>4, <2>5 DEF Pop
<1>3. ASSUME NEW t \in Clearers, Clear(t)
      PROVE  Abstract!Next \/ UNCHANGED Abstract!vars
  <2>1. CASE ClearEnter(t)
    <3>1. Waiters' = Waiters
      BY <1>0, <2>1 DEF ClearEnter, Goto
    <3>2. QED
      BY <2>1, <3>1 DEF ClearEnter, Abstract!vars
  <2>2. CASE ClearBody(t)
    <3>1. Waiters' = Waiters
      BY <1>0, <2>2 DEF ClearBody, Goto
    <3>2. Abstract!Clear
      BY <2>2, <3>1 DEF ClearBody, Abstract!Clear
    <3>3. QED
      BY <3>2 DEF Abstract!Next
  <2>3. QED
    BY <1>3, <2>1, <2>2 DEF Clear
<1>4. ASSUME NEW t \in Readers, Peek(t)
      PROVE  Abstract!Next \/ UNCHANGED Abstract!vars
  <2>1. CASE PeekEnter(t)
    <3>1. Waiters' = Waiters
      BY <1>0, <2>1 DEF PeekEnter, Goto
    <3>2. QED
      BY <2>1, <3>1 DEF PeekEnter, Abstract!vars
  <2>2. CASE PeekBody(t)
    <3>1. Waiters' = Waiters
      BY <1>0, <2>2 DEF PeekBody, Return, Goto
    <3>2. Abstract!Peek(t)
      BY <2>2, <3>1 DEF PeekBody, Return, Abstract!Peek, Abstract!Answer
    <3>3. QED
      BY <3>2 DEF Abstract!Next
  <2>3. QED
    BY <1>4, <2>1, <2>2 DEF Peek
<1>5. QED
  BY <1>1, <1>2, <1>3, <1>4 DEF Next

(* The steps of Push, Pop, Peek and Clear, interleaved by any number of    *)
(* threads, cannot be told from those of the atomic queue of QueueSpec.    *)
THEOREM QueueRefinement == Safety => Abstract!Safety
<1>1. IInv /\ [Next]_vars => [Abstract!Next]_(Abstract!vars)
  <2> SUFFICES ASSUME IInv, [Next]_vars PROVE [Abstract!Next]_(Abstract!vars)
    OBVIOUS
  <2>1. CASE Next
    BY <2>1, ImplementsStep
  <2>2. CASE UNCHANGED vars
    BY <2>2 DEF vars, Abstract!vars
  <2>3. QED
    BY <2>1, <2>2
<1>2. QED
  BY <1>1, ImplementsInit, IInvHolds, PTL DEF Safety, Abstract!Safety

-----------------------------------------------------------------------------
(* The order of the priority queue                                         *)

(* The container keeps what leaves first in front.                         *)
Sorted == Prioritised =>
    \A i, j \in 1..Len(queue) : i <= j => queue[i] <= queue[j]

(* Where the items are after one has been stored behind the first k.       *)
LEMMA InsertPlaces ==
    ASSUME TypeOK, NEW x \in Item, NEW k \in 0..Len(queue), NEW i \in 1..(Len(queue) + 1)
    PROVE  /\ i <= k => i \in 1..Len(queue) /\ Insert(k, x)[i] = queue[i]
           /\ i = k + 1 => Insert(k, x)[i] = x
           /\ i > k + 1 => i - 1 \in (k + 1)..Len(queue) /\ Insert(k, x)[i] = queue[i - 1]
<1> DEFINE front == SubSeq(queue, 1, k)
           back == SubSeq(queue, k + 1, Len(queue))
<1>1. queue \in Seq(Item) /\ Len(queue) \in Nat /\ k \in Nat /\ k <= Len(queue) /\ i \in Nat
  BY DEF TypeOK
<1>2. /\ front \in Seq(Item) /\ Len(front) = k
      /\ \A j \in 1..k : front[j] = queue[j]
  BY <1>1
<1>3. /\ back \in Seq(Item) /\ Len(back) = Len(queue) - k
      /\ \A j \in 1..(Len(queue) - k) : back[j] = queue[k + j]
  BY <1>1
<1>4. Insert(k, x) = (front \o <<x>>) \o back
  BY DEF Insert
<1> HIDE DEF front, back
<1>5. /\ front \o <<x>> \in Seq(Item) /\ Len(front \o <<x>>) = k + 1
      /\ \A j \in 1..k : (front \o <<x>>)[j] = front[j]
      /\ (front \o <<x>>)[k + 1] = x
  BY <1>1, <1>2
<1>6. /\ \A j \in 1..(k + 1) : Insert(k, x)[j] = (front \o <<x>>)[j]
      /\ \A j \in 1..(Len(queue) - k) : Insert(k, x)[(k + 1) + j] = back[j]
  <2>1. \A a, b \in Seq(Item) :
           /\ \A j \in 1..Len(a) : (a \o b)[j] = a[j]
           /\ \A j \in 1..Len(b) : (a \o b)[Len(a) + j] = b[j]
    OBVIOUS
  <2> DEFINE fx == front \o <<x>>
  <2>2. fx \in Seq(Item) /\ Len(fx) = k + 1 /\ Insert(k, x) = fx \o back
    BY <1>4, <1>5
  <2> HIDE DEF fx
  <2>3. /\ \A j \in 1..Len(fx) : Insert(k, x)[j] = fx[j]
        /\ \A j \in 1..Len(back) : Insert(k, x)[Len(fx) + j] = back[j]
    <3>1. fx \in Seq(Item) /\ back \in Seq(Item)
      BY <1>3, <2>2
    <3>2. /\ \A j \in 1..Len(fx) : (fx \o back)[j] = fx[j]
          /\ \A j \in 1..Len(back) : (fx \o back)[Len(fx) + j] = back[j]
      BY <2>1, <3>1, Zenon
    <3>3. Insert(k, x) = fx \o back
      BY <2>2
    <3>4. QED
      BY <3>2, <3>3, Zenon
  <2>4. /\ \A j \in 1..(k + 1) : Insert(k, x)[j] = fx[j]
        /\ \A j \in 1..(Len(queue) - k) : Insert(k, x)[(k + 1) + j] = back[j]
    BY <1>3, <2>2, <2>3, Zenon
  <2>5. QED
    BY <2>4 DEF fx
<1>7. ASSUME i <= k PROVE i \in 1..Len(queue) /\ Insert(k, x)[i] = queue[i]
  <2>1. i \in 1..k /\ i \in 1..(k + 1) /\ i \in 1..Len(queue)
    BY <1>1, <1>7
  <2>2. QED
    BY <1>2, <1>5, <1>6, <2>1
<1>8. ASSUME i = k + 1 PROVE Insert(k, x)[i] = x
  <2>1. k + 1 \in 1..(k + 1)
    BY <1>1
  <2>2. QED
    BY <1>5, <1>6, <1>8, <2>1
<1>9. ASSUME i > k + 1 PROVE i - 1 \in (k + 1)..Len(queue) /\ Insert(k, x)[i] = queue[i - 1]
  <2>1. /\ i - (k + 1) \in 1..(Len(queue) - k) /\ i - 1 \in (k + 1)..Len(queue)
        /\ (k + 1) + (i - (k + 1)) = i /\ k + (i - (k + 1)) = i - 1
    BY <1>1, <1>9
  <2>2. Insert(k, x)[(k + 1) + (i - (k + 1))] = queue[k + (i - (k + 1))]
    BY <1>3, <1>6, <2>1
  <2>3. QED
    BY <2>1, <2>2
<1>10. QED
  BY <1>7, <1>8, <1>9

LEMMA InsertSorts ==
    ASSUME TypeOK, Sorted, NEW x \in Item, NEW k \in 0..Len(queue), Fits(k, x),
           queue' = Insert(k, x)
    PROVE  Sorted'
<1>1. /\ queue \in Seq(Item) /\ Len(queue) \in Nat /\ k \in Nat /\ x \in Int
      /\ Len(queue') = Len(queue) + 1
      /\ \A i \in 1..Len(queue) : queue[i] \in Int
  <2>1. queue \in Seq(Item) /\ Len(queue) \in Nat /\ k \in Nat
    BY DEF TypeOK
  <2>2. Item \subseteq Int
    BY ItemAssumption DEF ItemAssumption
  <2>3. \A i \in 1..Len(queue) : queue[i] \in Item
    BY <2>1
  <2>4. Len(queue') = Len(queue) + 1
    BY InsertType
  <2>5. QED
    BY <2>1, <2>2, <2>3, <2>4
<1>2. SUFFICES ASSUME Prioritised, NEW i \in 1..(Len(queue) + 1), NEW j \in 1..(Len(queue) + 1),
                      i <= j
               PROVE  queue'[i] <= queue'[j]
  BY <1>1 DEF Sorted
<1>3. /\ \A l \in 1..k : queue[l] <= x
      /\ \A l \in (k + 1)..Len(queue) : x < queue[l]
      /\ \A l, m \in 1..Len(queue) : l <= m => queue[l] <= queue[m]
  BY <1>2 DEF Fits, Sorted
<1>4. /\ i <= k => i \in 1..Len(queue) /\ queue'[i] = queue[i]
      /\ i = k + 1 => queue'[i] = x
      /\ i > k + 1 => i - 1 \in (k + 1)..Len(queue) /\ queue'[i] = queue[i - 1]
  BY InsertPlaces
<1>5. /\ j <= k => j \in 1..Len(queue) /\ queue'[j] = queue[j]
      /\ j = k + 1 => queue'[j] = x
      /\ j > k + 1 => j - 1 \in (k + 1)..Len(queue) /\ queue'[j] = queue[j - 1]
  BY InsertPlaces
<1>6. CASE j <= k
  BY <1>1, <1>2, <1>3, <1>4, <1>5, <1>6
<1>7. CASE j = k + 1
  <2>1. i <= k \/ i = k + 1
    BY <1>1, <1>2, <1>7
  <2>2. i <= k => queue[i] <= x
    BY <1>1, <1>3
  <2>3. QED
    BY <1>1, <1>4, <1>5, <1>7, <2>1, <2>2
<1>8. CASE j > k + 1
  <2>1. /\ j - 1 \in (k + 1)..Len(queue) /\ j - 1 \in 1..Len(queue)
        /\ queue'[j] = queue[j - 1] /\ x < queue[j - 1] /\ queue[j - 1] \in Int
    BY <1>1, <1>3, <1>5, <1>8
  <2>2. CASE i <= k
    <3>1. i \in 1..Len(queue) /\ i <= j - 1
      BY <1>1, <1>4, <1>8, <2>2
    <3>2. QED
      BY <1>3, <1>4, <2>1, <2>2, <3>1
  <2>3. CASE i = k + 1
    BY <1>1, <1>4, <2>1, <2>3
  <2>4. CASE i > k + 1
    <3>1. i - 1 \in 1..Len(queue) /\ i - 1 <= j - 1
      BY <1>1, <1>2, <1>4, <2>4
    <3>2. QED
      BY <1>3, <1>4, <2>1, <2>4, <3>1
  <2>5. QED
    BY <1>1, <2>2, <2>3, <2>4
<1>9. QED
  BY <1>1, <1>6, <1>7, <1>8

LEMMA NextSorted ==
    ASSUME IInv, Sorted, [Next]_vars
    PROVE  Sorted'
<1>1. TypeOK
  BY DEF IInv
<1>2. CASE UNCHANGED queue
  BY <1>2 DEF Sorted
<1>3. ASSUME NEW p \in Producers, PushBody(p) PROVE Sorted'
  BY <1>1, <1>3, InsertSorts DEF PushBody
<1>4. ASSUME NEW c \in Consumers, PopBody(c) PROVE Sorted'
  <2>1. CASE queue = <<>>
    BY <1>2, <1>4, <2>1 DEF PopBody
  <2>2. CASE queue # <<>>
    <3>1. /\ queue' = Tail(queue) /\ Len(queue) \in Nat /\ Len(queue') = Len(queue) - 1
          /\ \A i \in 1..(Len(queue) - 1) : queue'[i] = queue[i + 1]
      BY <1>1, <1>4, <2>2, SMTT(30) DEF PopBody, TypeOK
    <3>2. \A i \in 1..(Len(queue) - 1) : i + 1 \in 1..Len(queue)
      BY <3>1
    <3>3. \A i, j \in 1..(Len(queue) - 1) : i <= j => i + 1 <= j + 1
      BY <3>1
    <3>4. QED
      BY <3>1, <3>2, <3>3 DEF Sorted
  <2>3. QED
    BY <2>1, <2>2
<1>5. ASSUME NEW t \in Clearers, ClearBody(t) PROVE Sorted'
  BY <1>5 DEF ClearBody, Sorted
<1>6. QED
  BY <1>2, <1>3, <1>4, <1>5
     DEF Next, Push, Pop, Clear, Peek, PushEnter, PushRelease, PopCall, PopWait, PopTimeout,
         PopEnter, ClearEnter, PeekEnter, PeekBody, vars

(* A Pop of the prio queue returns the least of the stored items, however  *)
(* many threads push, pop, peek and clear meanwhile.                       *)
THEOREM LeastTaken == Safety => PopTakesLeast
<1>1. Init => Sorted
  BY DEF Init, Sorted
<1>2. IInv /\ Sorted /\ [Next]_vars => Sorted'
  BY NextSorted
<1>3. IInv /\ Sorted /\ [Next]_vars =>
         \A c \in Consumers :
            (pc[c] = "pop" /\ pc'[c] = "idle" /\ queue # <<>> /\ Prioritised) =>
                \A i \in 1..Len(queue) : ret'[c] <= queue[i]
  <2> SUFFICES ASSUME IInv, Sorted, [Next]_vars, NEW c \in Consumers,
                      pc[c] = "pop", pc'[c] = "idle", queue # <<>>, Prioritised,
                      NEW i \in 1..Len(queue)
               PROVE  ret'[c] <= queue[i]
    OBVIOUS
  <2>1. TypeOK /\ c \in Threads
    BY DEF IInv, Threads
  <2>2. PopBody(c)
    <3>1. ASSUME NEW t \in Threads, NEW l, Goto(t, l) PROVE t = c
      BY <2>1, <3>1 DEF Goto, TypeOK
    <3>2. CASE UNCHANGED vars
      BY <3>2 DEF vars
    <3>3. ASSUME NEW p \in Producers, Push(p) PROVE FALSE
      <4>1. p \in Threads /\ pc[p] # "pop" /\ \E l : Goto(p, l)
        BY <3>3 DEF Push, PushEnter, PushBody, PushRelease, Return, Threads
      <4>2. QED
        BY <3>1, <4>1
    <3>4. ASSUME NEW d \in Consumers, Pop(d) PROVE PopBody(c)
      <4>1. d \in Threads /\ \E l : Goto(d, l)
        BY <3>4 DEF Pop, PopCall, PopWait, PopTimeout, PopEnter, PopBody, Return, Threads
      <4>2. d = c
        BY <3>1, <4>1
      <4>3. QED
        BY <3>4, <4>2 DEF Pop, PopCall, PopWait, PopTimeout, PopEnter
    <3>5. ASSUME NEW t \in Clearers, Clear(t) PROVE FALSE
      <4>1. t \in Threads /\ pc[t] # "pop" /\ \E l : Goto(t, l)
        BY <3>5 DEF Clear, ClearEnter, ClearBody, Threads
      <4>2. QED
        BY <3>1, <4>1
    <3>6. ASSUME NEW t \in Readers, Peek(t) PROVE FALSE
      <4>1. t \in Threads /\ pc[t] # "pop" /\ \E l : Goto(t, l)
        BY <3>6 DEF Peek, PeekEnter, PeekBody, Return, Threads
      <4>2. QED
        BY <3>1, <4>1
    <3>7. QED
      BY <3>2, <3>3, <3>4, <3>5, <3>6 DEF Next
  <2>3. ret'[c] = Head(queue)
    BY <2>1, <2>2 DEF PopBody, Return, TypeOK
  <2>4. Head(queue) = queue[1] /\ 1 \in 1..Len(queue) /\ 1 <= i
    BY <2>1 DEF TypeOK
  <2>5. QED
    BY <2>3, <2>4 DEF Sorted
<1>4. QED
  BY <1>1, <1>2, <1>3, IInvHolds, InitInv, NextInv, PTL DEF Safety, PopTakesLeast
=============================================================================
