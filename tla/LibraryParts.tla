---------------------------- MODULE LibraryParts ----------------------------
(***************************************************************************)
(* The parts that share no state with one another, side by side: a         *)
(* behaviour is one of the server's accept loop, of a process's sockets,   *)
(* of the viewer's input events, of a condition variable, of a mediator,   *)
(* or of the first exchange between the rendezvous server and its peers.   *)
(***************************************************************************)
EXTENDS AcceptLoop, Sockets, InputEvents, ConditionVariable, Mediator,
        FirstInteraction

VARIABLE part   \* the one this behaviour is about

Parts == {"accept", "sockets", "events", "condition", "mediator", "greeting"}
partsVars == <<part, vars, socketVars, eventVars, cvVars, mediatorVars, guestVars>>

PartsTypeOK ==
    /\ part \in Parts
    /\ TypeOK /\ SocketsTypeOK /\ EventsTypeOK /\ ConditionTypeOK /\ MediatorTypeOK
    /\ GuestsTypeOK

(* A part that only stands by starts in one way.                           *)
PartsInit ==
    /\ part \in Parts
    /\ Init /\ SocketsInit /\ EventsInit /\ ConditionInit /\ MediatorInit
    /\ GuestsInit
    /\ part = "sockets" \/ class = CHOOSE l \in Layouts : TRUE
    /\ part = "events" \/ ~senderRuns
    /\ part = "condition" \/ copy = "viewer"

AcceptStep ==
    /\ part = "accept" /\ Next
    /\ UNCHANGED <<socketVars, eventVars, cvVars, mediatorVars, guestVars>>
SocketsStep ==
    /\ part = "sockets" /\ SocketsNext
    /\ UNCHANGED <<vars, eventVars, cvVars, mediatorVars, guestVars>>
EventsStep ==
    /\ part = "events" /\ EventsNext
    /\ UNCHANGED <<vars, socketVars, cvVars, mediatorVars, guestVars>>
ConditionStep ==
    /\ part = "condition" /\ ConditionNext
    /\ UNCHANGED <<vars, socketVars, eventVars, mediatorVars, guestVars>>
MediatorStep ==
    /\ part = "mediator" /\ MediatorNext
    /\ UNCHANGED <<vars, socketVars, eventVars, cvVars, guestVars>>
GuestsStep ==
    /\ part = "greeting" /\ GuestsNext
    /\ UNCHANGED <<vars, socketVars, eventVars, cvVars, mediatorVars>>

PartsNext ==
    /\ AcceptStep \/ SocketsStep \/ EventsStep \/ ConditionStep \/ MediatorStep
       \/ GuestsStep
    /\ UNCHANGED part

(* In a part that stands by no step that fairness asks for is enabled.     *)
PartsSpec ==
    /\ PartsInit /\ [][PartsNext]_partsVars
    /\ Fairness /\ EventsFairness /\ ConditionFairness /\ MediatorFairness
=============================================================================
