-------------------------- MODULE FirstInteraction --------------------------
(***************************************************************************)
(* The first exchange between the rendezvous server and a peer: the server *)
(* sends an empty structure, the peer fills in its name, its room and the  *)
(* room's password and sends it back, and the server reads the names up to *)
(* the first NUL.  The fields have room for FieldSize letters, so a name   *)
(* that fills its field has no NUL and the next field is read as a part of *)
(* it.  The structure arrives in one piece or not at all; the hash of a    *)
(* name stands for the name.                                               *)
(***************************************************************************)
EXTENDS Integers, Sequences, FiniteSetsExt

CONSTANTS
    Guests,         \* peers, each with a handler of its own
    FieldSize,      \* letters of a field: 16
    Clients         \* what users may type; letters are numbers above FieldSize

ASSUME GuestsAssumption ==
    /\ FieldSize \in Nat \ {0}
    /\ Clients \subseteq [name : Seq(Nat), roomName : Seq(Nat), roomPassword : Seq(Nat),
                          isHost : BOOLEAN]
    /\ \A c \in Clients : \A t \in {c.name, c.roomName, c.roomPassword} :
          t # <<>> /\ \A i \in 1..Len(t) : t[i] > FieldSize

VARIABLES
    guest,      \* where each peer is
    typed,      \* what its user typed, or <<>>
    answer,     \* the structure on its way to the server, or <<>>
    idRes,      \* what its handler knows of it: names as it reads them, or <<>>
    asked       \* peers whose handler has sent the empty structure

guestVars == <<guest, typed, answer, idRes, asked>>

NUL == 0

GuestsTypeOK ==
    /\ guest \in [Guests -> {"start", "typed", "answered", "gone"}]
    /\ \A g \in Guests : typed[g] \in Clients \cup {<<>>}
    /\ \A g \in Guests : Len(answer[g]) \in {0, 3 * FieldSize + 4}
    /\ \A g \in Guests : idRes[g] # <<>> =>
          /\ idRes[g].isHost \in BOOLEAN
          /\ \A f \in {"roomName", "roomPassword"} : \A i \in 1..Len(idRes[g][f]) :
                idRes[g][f][i] # NUL
    /\ asked \subseteq Guests

GuestsInit ==
    /\ guest = [g \in Guests |-> "start"]
    /\ typed = [g \in Guests |-> <<>>] /\ answer = [g \in Guests |-> <<>>]
    /\ idRes = [g \in Guests |-> <<>>]
    /\ asked = {}

Become(g, l) == guest' = [guest EXCEPT ![g] = l]

-----------------------------------------------------------------------------
(* The peer: test1() or test2(), and firstServerInteraction()              *)

(* Mutant: the structure is not emptied before it is filled.               *)
FieldDirty(t) == [i \in 1..FieldSize |-> IF i <= Len(t) THEN t[i] ELSE FieldSize + i]

Field(t) == [i \in 1..FieldSize |-> IF i <= Len(t) THEN t[i] ELSE NUL]

(* first_server_client_interaction: three fields, three lengths, a flag.   *)
Structure(c) ==
    Field(c.roomName) \o Field(c.name) \o Field(c.roomPassword)
        \o <<Len(c.name), Len(c.roomName), Len(c.roomPassword), IF c.isHost THEN 1 ELSE NUL>>

Type(g) ==
    /\ guest[g] = "start"
    /\ \E c \in Clients : typed' = [typed EXCEPT ![g] = c]
    /\ Become(g, "typed")
    /\ UNCHANGED <<answer, idRes, asked>>

TooLong(c) == \E t \in {c.name, c.roomName, c.roomPassword} : Len(t) > FieldSize

(* A name that does not fit ends the program before it receives anything.  *)
Refuse(g) ==
    /\ guest[g] = "typed" /\ TooLong(typed[g])
    /\ Become(g, "gone")
    /\ UNCHANGED <<typed, answer, idRes, asked>>

Answer(g) ==
    /\ guest[g] = "typed" /\ ~TooLong(typed[g]) /\ g \in asked
    /\ answer' = [answer EXCEPT ![g] = Structure(typed[g])]
    /\ Become(g, "answered")
    /\ UNCHANGED <<typed, idRes, asked>>

(* The connection breaks before the answer arrives.                        *)
BreakDown(g) ==
    /\ guest[g] # "gone" /\ idRes[g] = <<>>
    /\ Become(g, "gone") /\ answer' = [answer EXCEPT ![g] = <<>>]
    /\ UNCHANGED <<typed, idRes, asked>>

-----------------------------------------------------------------------------
(* The handler: firstClientInteraction() and the strings made of it        *)

SendEmpty(g) ==
    /\ g \notin asked
    /\ asked' = asked \cup {g}
    /\ UNCHANGED <<guest, typed, answer, idRes>>

(* The string that begins at byte from goes on up to a NUL, be it in       *)
(* another field or in the memory behind the structure.                    *)
CStrings(bytes, from) ==
    LET ends == {i \in from..Len(bytes) : bytes[i] = NUL}
    IN IF ends # {} THEN {SubSeq(bytes, from, Min(ends) - 1)}
       ELSE {SubSeq(bytes, from, Len(bytes)) \o junk : junk \in {<<>>, <<FieldSize + 1>>}}

(* A recv() that fails leaves the empty structure as it is.                *)
ReadAnswer(g) ==
    /\ g \in asked /\ idRes[g] = <<>>
    /\ \/ /\ guest[g] = "answered"
          /\ \E room \in CStrings(answer[g], 1),
                pass \in CStrings(answer[g], 2 * FieldSize + 1) :
                idRes' = [idRes EXCEPT ![g] = [roomName |-> room, roomPassword |-> pass,
                                               isHost |-> answer[g][3 * FieldSize + 4] # NUL]]
       \/ /\ guest[g] = "gone"
          /\ idRes' = [idRes EXCEPT ![g] = [roomName |-> <<>>, roomPassword |-> <<>>,
                                            isHost |-> FALSE]]
    /\ UNCHANGED <<guest, typed, answer, asked>>

GuestsNext ==
    \E g \in Guests :
        \/ Type(g) \/ Refuse(g) \/ Answer(g) \/ BreakDown(g)
        \/ SendEmpty(g) \/ ReadAnswer(g)

GuestsSpec == GuestsInit /\ [][GuestsNext]_guestVars

-----------------------------------------------------------------------------
Identified(g) == guest[g] = "answered" /\ idRes[g] # <<>>
Admits(h, c) ==
    /\ idRes[h].isHost /\ ~idRes[c].isHost
    /\ idRes[h].roomName = idRes[c].roomName
    /\ idRes[h].roomPassword = idRes[c].roomPassword

(* Who types the room and the password of a host finds that host, and      *)
(* nobody else does, whatever the two are called: as long as users keep to *)
(* the 15 letters that the programs ask for, one less than they check.  A  *)
(* peer of whom nothing was received finds no host at all.                 *)
Short(g) == Len(typed[g].roomName) < FieldSize /\ Len(typed[g].roomPassword) < FieldSize
RoomsMeet ==
    /\ \A h, c \in Guests : Identified(h) /\ Identified(c) /\ Short(h) /\ Short(c) =>
          (Admits(h, c) <=> /\ typed[h].isHost /\ ~typed[c].isHost
                            /\ typed[h].roomName = typed[c].roomName
                            /\ typed[h].roomPassword = typed[c].roomPassword)
    /\ \A h, c \in Guests : Identified(h) /\ idRes[c] # <<>> /\ guest[c] = "gone" =>
          ~Admits(h, c)
=============================================================================
