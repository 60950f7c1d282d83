---------------------------- MODULE InputEvents ----------------------------
(***************************************************************************)
(* Mouse and keyboard events of the viewer on their way to the host.  Two  *)
(* hooks of the window's thread push what they are given into              *)
(* eventDataQueue, a pointer to the event among it; eventSenderThread()    *)
(* pops, translates and sends.  wWinMain() does not start that thread (the *)
(* line is commented out), so a behaviour either has a sender or has none. *)
(* Sending is to a socket that does not block; what the network does with  *)
(* it afterwards is left out, and so is the scaling of coordinates.        *)
(***************************************************************************)
EXTENDS Naturals, Sequences

CONSTANTS
    MaxEvents,      \* bound: events the user makes
    Garbage         \* what a pointer finds that is not good any more

ASSUME EventsAssumption == MaxEvents \in Nat /\ Garbage \notin Nat

MouseMessages == {"MOUSEMOVE", "LBUTTONDOWN", "LBUTTONUP", "MOUSEWHEEL", "RBUTTONDOWN",
                  "RBUTTONUP"}
KeyMessages == {"KEYDOWN", "SYSKEYDOWN", "KEYUP", "SYSKEYUP"}
Flags == {"MOVE", "LEFTDOWN", "LEFTUP", "WHEEL", "RIGHTDOWN", "RIGHTUP", "KEYUP", "ABSOLUTE"}

VARIABLES
    senderRuns,     \* is the line that starts the sender there?
    window,         \* where wWinMain() is
    installed,      \* devices whose hook is installed
    callback,       \* the event whose callback has not returned yet, or 0
    eventQueue,     \* eventDataQueue: wParam and, as lParam, which event it points to
    data,           \* the sender's event, or <<>>
    flags,          \* its flags, which it keeps from event to event
    hooked,         \* history: the messages pushed, event n in place n
    sent            \* history: the packets sent

eventVars == <<senderRuns, window, installed, callback, eventQueue, data, flags, hooked, sent>>

Device(m) == IF m \in MouseMessages THEN "mouse" ELSE "keyboard"
HookData == [wParam : MouseMessages \cup KeyMessages, lParam : 1..MaxEvents]

EventsTypeOK ==
    /\ senderRuns \in BOOLEAN
    /\ window \in {"kbd", "mouse", "loop", "quit", "over"}
    /\ installed \subseteq {"mouse", "keyboard"}
    /\ callback \in 0..MaxEvents
    /\ eventQueue \in Seq(HookData)
    /\ data = <<>> \/ data \in HookData
    /\ flags \subseteq Flags
    /\ hooked \in Seq(MouseMessages \cup KeyMessages)
    /\ \A i \in 1..Len(sent) :
          /\ sent[i].type \in {"mouse", "keyboard"} /\ sent[i].flags \subseteq Flags
          /\ sent[i].of \in 1..MaxEvents \cup {Garbage}

EventsInit ==
    /\ senderRuns \in BOOLEAN
    /\ window = "kbd" /\ installed = {} /\ callback = 0
    /\ eventQueue = <<>> /\ data = <<>> /\ flags = {}
    /\ hooked = <<>> /\ sent = <<>>

globalOn == window \in {"kbd", "mouse", "loop"}

-----------------------------------------------------------------------------
(* The window's thread *)

(* SetKeyboardHook() and SetMouseHook(): when installing fails the program *)
(* says so and goes on without.                                            *)
SetHook(d) ==
    /\ window = (IF d = "keyboard" THEN "kbd" ELSE "mouse")
    /\ window' = (IF d = "keyboard" THEN "mouse" ELSE "loop")
    /\ installed' \in {installed, installed \cup {d}}
    /\ UNCHANGED <<senderRuns, callback, eventQueue, data, flags, hooked, sent>>

(* Mutant: an event that comes while another waits is dropped.             *)
HookCallbackOne(m) ==
    /\ window = "loop" /\ callback = 0 /\ Device(m) \in installed
    /\ Len(hooked) < MaxEvents
    /\ hooked' = Append(hooked, m)
    /\ eventQueue' = IF eventQueue = <<>>
                     THEN <<[wParam |-> m, lParam |-> Len(hooked) + 1]>> ELSE eventQueue
    /\ callback' = Len(hooked) + 1
    /\ UNCHANGED <<senderRuns, window, installed, data, flags, sent>>

(* The message loop runs a callback; what lParam points to is there until  *)
(* the callback returns.                                                   *)
HookCallback(m) ==
    /\ window = "loop" /\ callback = 0 /\ Device(m) \in installed
    /\ Len(hooked) < MaxEvents
    /\ hooked' = Append(hooked, m)
    /\ eventQueue' = Append(eventQueue, [wParam |-> m, lParam |-> Len(hooked) + 1])
    /\ callback' = Len(hooked) + 1
    /\ UNCHANGED <<senderRuns, window, installed, data, flags, sent>>

CallbackReturns ==
    /\ callback # 0
    /\ callback' = 0
    /\ UNCHANGED <<senderRuns, window, installed, eventQueue, data, flags, hooked, sent>>

(* The loop ends, globalOn falls, the threads are joined ...               *)
Quit ==
    /\ window = "loop" /\ callback = 0
    /\ window' = "quit"
    /\ UNCHANGED <<senderRuns, installed, callback, eventQueue, data, flags, hooked, sent>>

(* ... and the hooks released.                                             *)
ReleaseHooks ==
    /\ window = "quit" /\ data = <<>>
    /\ window' = "over" /\ installed' = {}
    /\ UNCHANGED <<senderRuns, callback, eventQueue, data, flags, hooked, sent>>

-----------------------------------------------------------------------------
(* eventSenderThread() *)

(* Nobody else pops, so a queue that is not empty does not block.          *)
SenderPop ==
    /\ senderRuns /\ globalOn /\ data = <<>> /\ eventQueue # <<>>
    /\ data' = Head(eventQueue) /\ eventQueue' = Tail(eventQueue)
    /\ UNCHANGED <<senderRuns, window, installed, callback, flags, hooked, sent>>

(* Mutant: a case without its break falls through into the next.           *)
MouseFlagsFallThrough(m) ==
    {"ABSOLUTE",
     CASE m = "LBUTTONDOWN" -> "LEFTUP"
       [] m = "LBUTTONUP" -> "LEFTUP"
       [] m = "MOUSEWHEEL" -> "WHEEL"
       [] m = "RBUTTONDOWN" -> "RIGHTDOWN"
       [] m = "RBUTTONUP" -> "RIGHTUP"
       [] OTHER -> "MOVE"}

MouseFlags(m) ==
    {"ABSOLUTE",
     CASE m = "LBUTTONDOWN" -> "LEFTDOWN"
       [] m = "LBUTTONUP" -> "LEFTUP"
       [] m = "MOUSEWHEEL" -> "WHEEL"
       [] m = "RBUTTONDOWN" -> "RIGHTDOWN"
       [] m = "RBUTTONUP" -> "RIGHTUP"
       [] OTHER -> "MOVE"}

(* No default: the flags of the event before would stay.                   *)
KeyFlags(m) ==
    CASE m \in {"KEYDOWN", "SYSKEYDOWN"} -> {}
      [] m \in {"KEYUP", "SYSKEYUP"} -> {"KEYUP"}
      [] OTHER -> flags

(* The pointer is followed only now; when the callback has returned it may *)
(* find a later event, or nothing that is one.                             *)
PointsTo(e) == IF callback = e THEN {e} ELSE e..Len(hooked) \cup {Garbage}

(* Mutant: break, meant for the switch, leaves the loop.                   *)
SenderSendLeaves ==
    /\ data # <<>> /\ data.wParam # "MOUSEMOVE"
    /\ flags' = IF Device(data.wParam) = "mouse" THEN MouseFlags(data.wParam)
                ELSE KeyFlags(data.wParam)
    /\ \E e \in PointsTo(data.lParam) :
          sent' = Append(sent, [type |-> Device(data.wParam), flags |-> flags', of |-> e])
    /\ data' = <<>>
    /\ UNCHANGED <<senderRuns, window, installed, callback, eventQueue, hooked>>

SenderSend ==
    /\ data # <<>>
    /\ flags' = IF Device(data.wParam) = "mouse" THEN MouseFlags(data.wParam)
                ELSE KeyFlags(data.wParam)
    /\ \E e \in PointsTo(data.lParam) :
          sent' = Append(sent, [type |-> Device(data.wParam), flags |-> flags', of |-> e])
    /\ data' = <<>>
    /\ UNCHANGED <<senderRuns, window, installed, callback, eventQueue, hooked>>

EventsNext ==
    \/ \E d \in {"mouse", "keyboard"} : SetHook(d)
    \/ \E m \in MouseMessages \cup KeyMessages : HookCallback(m)
    \/ CallbackReturns \/ Quit \/ ReleaseHooks
    \/ SenderPop \/ SenderSend

(* The threads run; nothing makes the user do anything.                    *)
EventsFairness == WF_eventVars(SenderPop \/ SenderSend) /\ WF_eventVars(CallbackReturns)

EventsSafety == EventsInit /\ [][EventsNext]_eventVars
EventsSpec == EventsSafety /\ EventsFairness

-----------------------------------------------------------------------------
(* The filters of the library, written before the viewer's switches:       *)
(* MouseFilter::findMatchingFlag() and KeyboardFilter::findMatchingFlag(). *)
MouseFilter(m) ==
    CASE m = "LBUTTONDOWN" -> {"LEFTDOWN"} [] m = "LBUTTONUP" -> {"LEFTUP"}
      [] m = "MOUSEWHEEL" -> {"WHEEL"}
      [] m = "RBUTTONDOWN" -> {"RIGHTDOWN"} [] m = "RBUTTONUP" -> {"RIGHTUP"}
      [] OTHER -> {"MOVE"}
KeyboardFilter(m) == IF m \in {"KEYUP", "SYSKEYUP"} THEN {"KEYUP"} ELSE {}

(* Events reach the host's socket as what they were: packet n is of the    *)
(* device of event n, with the flags the library's filters give it, and    *)
(* what is not sent is still in the sender's hand or in the queue, in the  *)
(* order of the events.  That holds although keys and buttons share the    *)
(* sender's flags.  Without a sender the queue holds everything.           *)
Waiting == (IF data = <<>> THEN <<>> ELSE <<data>>) \o eventQueue
SentAsHooked ==
    /\ Len(sent) + Len(Waiting) = Len(hooked)
    /\ \A i \in 1..Len(sent) :
          /\ sent[i].type = Device(hooked[i])
          /\ sent[i].flags = IF Device(hooked[i]) = "mouse"
                             THEN MouseFilter(hooked[i]) \cup {"ABSOLUTE"}
                             ELSE KeyboardFilter(hooked[i])
    /\ \A i \in 1..Len(Waiting) :
          Waiting[i] = [wParam |-> hooked[Len(sent) + i], lParam |-> Len(sent) + i]

(* Where a sender runs, every event is sent unless the program is quit     *)
(* first: the queue drains, however fast the user is.                      *)
EventsAreSent ==
    \A n \in 1..MaxEvents :
        (senderRuns /\ Len(hooked) >= n) ~> (Len(sent) >= n \/ ~globalOn)
=============================================================================
