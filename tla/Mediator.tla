------------------------------ MODULE Mediator ------------------------------
(***************************************************************************)
(* The action mediator of the library: listeners of several threads ask    *)
(* for actions through two pointers that addListener() has given them, to  *)
(* the mediator's queue and to the critical section that guards it.  The   *)
(* pointers are set and taken back by the mediator's owner without the     *)
(* section.  Popping from the queue is left to a caller that does not      *)
(* exist yet, and every executeAction() is empty.                          *)
(***************************************************************************)
EXTENDS Naturals, Sequences, SequencesExt

CONSTANTS
    Listeners,      \* objects that ask for actions, each from a thread of its own
    NoListener,     \* no listener
    MaxActions,     \* bound: actions in the queue
    MaxListeners    \* bound: entries of the vector of listeners

ASSUME MediatorAssumption ==
    NoListener \notin Listeners /\ MaxActions \in Nat /\ MaxListeners \in Nat

VARIABLES
    queuePtr, sectionPtr,   \* IActionListener's pointers
    listeners,              \* the mediator's vector
    mediator,               \* "alive" or "deleted"
    ownerCall,              \* the owner's call and the listener it is about
    section,                \* who is in the critical section
    actions,                \* the queue: who asked
    request,                \* where each listener is in requestAction()
    brokenBy,               \* who followed a pointer to nothing
    excused                 \* history: listeners whose request nothing protects

mediatorVars == <<queuePtr, sectionPtr, listeners, mediator, ownerCall, section, actions,
                  request, brokenBy, excused>>

Pointers == {"unset", "mediator", "null"}
OwnerCalls == [op : {"add", "remove"}, of : Listeners] \cup {<<>>}

MediatorTypeOK ==
    /\ queuePtr \in [Listeners -> Pointers] /\ sectionPtr \in [Listeners -> Pointers]
    /\ listeners \in Seq(Listeners) /\ Len(listeners) <= MaxListeners
    /\ mediator \in {"alive", "deleted"}
    /\ ownerCall \in OwnerCalls
    /\ section \in Listeners \cup {NoListener}
    /\ actions \in Seq(Listeners) /\ Len(actions) <= MaxActions
    /\ request \in [Listeners -> {"idle", "enter", "push", "release"}]
    /\ brokenBy \in Listeners \cup {NoListener}
    /\ excused \subseteq Listeners

(* IActionListener has no constructor that sets the pointers.              *)
MediatorInit ==
    /\ queuePtr = [l \in Listeners |-> "unset"]
    /\ sectionPtr = [l \in Listeners |-> "unset"]
    /\ listeners = <<>> /\ mediator = "alive" /\ ownerCall = <<>>
    /\ section = NoListener /\ actions = <<>>
    /\ request = [l \in Listeners |-> "idle"]
    /\ brokenBy = NoListener /\ excused = {}

Unbroken == brokenBy = NoListener
Asking(l) == request[l] # "idle"
Removing(l) == mediator = "deleted" \/ ownerCall = [op |-> "remove", of |-> l]
Break(l) == brokenBy' = l /\ UNCHANGED <<section, actions, request>>

ownerVars == <<queuePtr, sectionPtr, listeners, mediator, ownerCall>>

-----------------------------------------------------------------------------
(* requestAction() *)

(* acquireQueue() reads the pointer to the section ...                     *)
RequestAction(l) ==
    /\ Unbroken /\ ~Asking(l)
    /\ Len(actions) + Cardinality({k \in Listeners : request[k] \in {"enter", "push"}})
          < MaxActions
    /\ \/ /\ sectionPtr[l] = "mediator"
          /\ request' = [request EXCEPT ![l] = "enter"]
          /\ excused' = IF Removing(l) THEN excused \cup {l} ELSE excused \ {l}
          /\ UNCHANGED <<section, actions, brokenBy>>
       \/ sectionPtr[l] # "mediator" /\ Break(l) /\ excused' = excused \cup {l}
    /\ UNCHANGED ownerVars

(* ... and waits for it, or enters what has been deleted;                  *)
AcquireQueue(l) ==
    /\ Unbroken /\ request[l] = "enter"
    /\ \/ /\ mediator = "alive" /\ section = NoListener
          /\ section' = l /\ request' = [request EXCEPT ![l] = "push"]
          /\ UNCHANGED <<actions, brokenBy>>
       \/ mediator = "deleted" /\ Break(l)
    /\ UNCHANGED <<ownerVars, excused>>

PushAction(l) ==
    /\ Unbroken /\ request[l] = "push"
    /\ \/ /\ queuePtr[l] = "mediator" /\ mediator = "alive"
          /\ actions' = Append(actions, l)
          /\ request' = [request EXCEPT ![l] = "release"]
          /\ UNCHANGED <<section, brokenBy>>
       \/ (queuePtr[l] # "mediator" \/ mediator = "deleted") /\ Break(l)
    /\ UNCHANGED <<ownerVars, excused>>

(* Mutant: releaseQueue() does nothing.                                    *)
ReleaseQueueForgotten(l) ==
    /\ Unbroken /\ request[l] = "release"
    /\ request' = [request EXCEPT ![l] = "idle"]
    /\ UNCHANGED <<ownerVars, excused, section, actions, brokenBy>>

(* releaseQueue() reads the pointer to the section once more.              *)
ReleaseQueue(l) ==
    /\ Unbroken /\ request[l] = "release"
    /\ \/ /\ sectionPtr[l] = "mediator" /\ mediator = "alive"
          /\ section' = NoListener /\ request' = [request EXCEPT ![l] = "idle"]
          /\ UNCHANGED <<actions, brokenBy>>
       \/ (sectionPtr[l] # "mediator" \/ mediator = "deleted") /\ Break(l)
    /\ UNCHANGED <<ownerVars, excused>>

-----------------------------------------------------------------------------
(* The mediator's owner *)

requestVars == <<section, actions, request, brokenBy>>
OwnerFree == Unbroken /\ mediator = "alive" /\ ownerCall = <<>>

(* Mutant: addListener() gives the section before the queue ...            *)
AddQueueLate(l) ==
    /\ OwnerFree /\ Len(listeners) < MaxListeners
    /\ listeners' = Append(listeners, l)
    /\ sectionPtr' = [sectionPtr EXCEPT ![l] = "mediator"]
    /\ ownerCall' = [op |-> "add", of |-> l]
    /\ UNCHANGED <<queuePtr, mediator, excused, requestVars>>

(* addListener(): the vector and the pointer to the queue first, ...       *)
AddQueue(l) ==
    /\ OwnerFree /\ Len(listeners) < MaxListeners
    /\ listeners' = Append(listeners, l)
    /\ queuePtr' = [queuePtr EXCEPT ![l] = "mediator"]
    /\ ownerCall' = [op |-> "add", of |-> l]
    /\ UNCHANGED <<sectionPtr, mediator, excused, requestVars>>

(* ... the section, for which a request looks first, last.                 *)
AddSection(l) ==
    /\ Unbroken /\ ownerCall = [op |-> "add", of |-> l]
    /\ sectionPtr' = [sectionPtr EXCEPT ![l] = "mediator"]
    /\ ownerCall' = <<>>
    /\ UNCHANGED <<queuePtr, listeners, mediator, excused, requestVars>>

(* removeListener() takes the queue back from a request that runs ...      *)
RemoveQueue(l) ==
    /\ OwnerFree
    /\ queuePtr' = [queuePtr EXCEPT ![l] = "null"]
    /\ ownerCall' = [op |-> "remove", of |-> l]
    /\ excused' = excused \cup {l}
    /\ UNCHANGED <<sectionPtr, listeners, mediator, requestVars>>

(* ... then the section, and erases the first entry of the listener.       *)
RemoveSection(l) ==
    /\ Unbroken /\ ownerCall = [op |-> "remove", of |-> l]
    /\ sectionPtr' = [sectionPtr EXCEPT ![l] = "null"]
    /\ listeners' = IF l \in ToSet(listeners)
                    THEN RemoveFirst(listeners, l) ELSE listeners
    /\ ownerCall' = <<>> /\ excused' = excused \cup {l}
    /\ UNCHANGED <<queuePtr, mediator, requestVars>>

(* ~Mediator(): everybody in the vector loses the pointers.  Its loop is   *)
(* one step: nothing is said of any listener from here on.                 *)
DeleteMediator ==
    /\ OwnerFree
    /\ mediator' = "deleted" /\ listeners' = <<>>
    /\ LET Nulled(ptr) == [l \in Listeners |->
                              IF l \in ToSet(listeners) THEN "null" ELSE ptr[l]]
       IN queuePtr' = Nulled(queuePtr) /\ sectionPtr' = Nulled(sectionPtr)
    /\ excused' = Listeners
    /\ UNCHANGED <<ownerCall, requestVars>>

MediatorNext ==
    \/ \E l \in Listeners :
          \/ RequestAction(l) \/ AcquireQueue(l) \/ PushAction(l) \/ ReleaseQueue(l)
          \/ AddQueue(l) \/ AddSection(l) \/ RemoveQueue(l) \/ RemoveSection(l)
    \/ DeleteMediator

(* Threads run; the actions are bounded, so nobody is passed over for ever *)
(* and weak fairness is enough for those who wait for the section.         *)
MediatorFairness ==
    \A l \in Listeners :
        /\ WF_mediatorVars(AcquireQueue(l))
        /\ WF_mediatorVars(PushAction(l)) /\ WF_mediatorVars(ReleaseQueue(l))

MediatorSafety == MediatorInit /\ [][MediatorNext]_mediatorVars
MediatorSpec == MediatorSafety /\ MediatorFairness

-----------------------------------------------------------------------------
(* A request that finds the section also finds the queue behind it and the *)
(* section again when it is through, however the owner adds the listener,  *)
(* once or again, meanwhile; it takes a removal or the destruction of the  *)
(* mediator during the request to let it run into nothing.                 *)
QueueBehindSection == brokenBy # NoListener => brokenBy \in excused

(* Every request returns, or the program is broken: the section is neither *)
(* forgotten nor kept by a listener that has been removed.                 *)
RequestReturns ==
    \A l \in Listeners : Asking(l) ~> (~Asking(l) \/ ~Unbroken)
=============================================================================
