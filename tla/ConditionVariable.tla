------------------------- MODULE ConditionVariable -------------------------
(***************************************************************************)
(* ConditionVariable of the library: a condition variable of the system    *)
(* with a critical section of its own and a timeout.  sleep() has no       *)
(* condition to wait for, so a wake() that comes too early is lost.  There *)
(* are two copies: RDIBY's and RDIBYClient's leaves the section after it   *)
(* has slept but never sets the timeout; VideoClient's sets it to INFINITE *)
(* but does not leave the section.                                         *)
(***************************************************************************)
EXTENDS Naturals

CONSTANTS
    Sleepers,       \* threads that call sleep()
    NoThread,       \* nobody has the section
    MaxSleeps       \* bound: calls of sleep() per thread

ASSUME SleepersAssumption == NoThread \notin Sleepers /\ MaxSleeps \in Nat

VARIABLES
    copy,           \* "library" or "viewer"
    timeout,        \* "finite" or "infinite"
    csOwner,        \* who is in the critical section
    csDepth,        \* how many times: it is entered recursively
    at,             \* where each thread is in sleep()
    sleeps          \* how many times it has called it

cvVars == <<copy, timeout, csOwner, csDepth, at, sleeps>>

ConditionTypeOK ==
    /\ copy \in {"library", "viewer"} /\ timeout \in {"finite", "infinite"}
    /\ csOwner \in Sleepers \cup {NoThread}
    /\ csDepth \in Nat /\ (csDepth = 0 <=> csOwner = NoThread)
    /\ at \in [Sleepers -> {"out", "enter", "call", "asleep", "awake", "leave"}]
    /\ sleeps \in [Sleepers -> 0..MaxSleeps]

(* ConditionVariable(): in the library's copies the timeout is whatever    *)
(* the memory holds.                                                       *)
ConditionInit ==
    /\ copy \in {"library", "viewer"}
    /\ timeout \in IF copy = "viewer" THEN {"infinite"} ELSE {"finite", "infinite"}
    /\ csOwner = NoThread /\ csDepth = 0
    /\ at = [t \in Sleepers |-> "out"]
    /\ sleeps = [t \in Sleepers |-> 0]

GoTo(t, l) == at' = [at EXCEPT ![t] = l]

(* CriticalSection::enter() and release().                                 *)
Enter(t) == csOwner \in {t, NoThread} /\ csOwner' = t /\ csDepth' = csDepth + 1
Release ==
    /\ csDepth' = csDepth - 1
    /\ csOwner' = IF csDepth = 1 THEN NoThread ELSE csOwner

-----------------------------------------------------------------------------
SetTimeout(l) == timeout' = l /\ UNCHANGED <<copy, csOwner, csDepth, at, sleeps>>

CallSleep(t) ==
    /\ at[t] = "out" /\ sleeps[t] < MaxSleeps
    /\ sleeps' = [sleeps EXCEPT ![t] = @ + 1]
    /\ GoTo(t, "enter")
    /\ UNCHANGED <<copy, timeout, csOwner, csDepth>>

EnterSection(t) ==
    /\ at[t] = "enter" /\ Enter(t) /\ GoTo(t, "call")
    /\ UNCHANGED <<copy, timeout, sleeps>>

(* Mutant: sleep() leaves the section itself before the system does.       *)
FallAsleepReleased(t) ==
    /\ at[t] = "call" /\ GoTo(t, "asleep")
    /\ csDepth' = csDepth - 2 /\ csOwner' = NoThread
    /\ UNCHANGED <<copy, timeout, sleeps>>

(* Mutant: the section is kept while the thread sleeps.                    *)
FallAsleepInside(t) ==
    /\ at[t] = "call" /\ GoTo(t, "asleep")
    /\ UNCHANGED <<copy, timeout, csOwner, csDepth, sleeps>>

(* SleepConditionVariableCS() leaves the section, once, and sleeps ...     *)
FallAsleep(t) ==
    /\ at[t] = "call" /\ Release /\ GoTo(t, "asleep")
    /\ UNCHANGED <<copy, timeout, sleeps>>

(* ... until it is woken, or the time is over, or for no reason ...        *)
WakeUp(t) ==
    /\ at[t] = "asleep" /\ GoTo(t, "awake")
    /\ UNCHANGED <<copy, timeout, csOwner, csDepth, sleeps>>

(* ... and enters it again before it returns.                              *)
Reenter(t) ==
    /\ at[t] = "awake" /\ Enter(t) /\ GoTo(t, "leave")
    /\ UNCHANGED <<copy, timeout, sleeps>>

(* Mutant: every copy forgets the section.                                 *)
LeaveSleepForgotten(t) ==
    /\ at[t] = "leave" /\ GoTo(t, "out")
    /\ UNCHANGED <<copy, timeout, csOwner, csDepth, sleeps>>

(* VideoClient's copy returns without leaving the section.                 *)
LeaveSleep(t) ==
    /\ at[t] = "leave" /\ GoTo(t, "out")
    /\ IF copy = "viewer" THEN UNCHANGED <<csOwner, csDepth>> ELSE Release
    /\ UNCHANGED <<copy, timeout, sleeps>>

(* wake() wakes one of those who sleep now, wakeAll() all of them.         *)
Wake == \E t \in Sleepers : WakeUp(t)
WakeAll ==
    /\ \E t \in Sleepers : at[t] = "asleep"
    /\ at' = [t \in Sleepers |-> IF at[t] = "asleep" THEN "awake" ELSE at[t]]
    /\ UNCHANGED <<copy, timeout, csOwner, csDepth, sleeps>>

ConditionNext ==
    \/ \E l \in {"finite", "infinite"} : SetTimeout(l)
    \/ \E t \in Sleepers :
          \/ CallSleep(t) \/ EnterSection(t) \/ FallAsleep(t)
          \/ Reenter(t) \/ LeaveSleep(t)
    \/ Wake \/ WakeAll

(* A thread inside sleep() goes on, and time passes.  As calls are bounded *)
(* nobody can be passed over for ever by others who enter the section, so  *)
(* weak fairness is enough for those who wait for it.                      *)
ConditionFairness ==
    \A t \in Sleepers :
        /\ WF_cvVars(EnterSection(t)) /\ WF_cvVars(Reenter(t))
        /\ WF_cvVars(FallAsleep(t)) /\ WF_cvVars(LeaveSleep(t))
        /\ WF_cvVars(timeout = "finite" /\ WakeUp(t))

ConditionSafety == ConditionInit /\ [][ConditionNext]_cvVars
ConditionSpec == ConditionSafety /\ ConditionFairness

-----------------------------------------------------------------------------
(* The section belongs to nobody but a thread between its calls inside     *)
(* sleep(): whoever sleeps, and whoever has returned, lets others in.  So  *)
(* it is in the library's copies; in VideoClient's, only until the first   *)
(* thread has returned, which then has it for good.                        *)
Returned(t) == sleeps[t] > 0 /\ (at[t] = "out" \/ sleeps[t] > 1)
SectionIsReturned ==
    csOwner # NoThread =>
        \/ at[csOwner] \in {"call", "leave"}
        \/ copy = "viewer" /\ Returned(csOwner)

(* A lost wake() costs a thread of the library's copies no more than the   *)
(* timeout: while that is finite, whoever calls sleep() returns.           *)
SleepReturns ==
    \A t \in Sleepers :
        [](copy = "library" /\ timeout = "finite") => (at[t] = "enter" ~> at[t] = "out")
=============================================================================
