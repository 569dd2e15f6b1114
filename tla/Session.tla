-------------------------------- MODULE Session --------------------------------
(***************************************************************************)
(* The MQ session of the canary process (canary/src/index.mjs, mq.mjs):    *)
(* class Session with ensure(), drop() and recycle(), driven by a role's   *)
(* endless loop and, from the first SIGTERM on, by the signal handler's    *)
(* drop() on the same object.  Every MQ call is awaited, so one action is  *)
(* one segment of JavaScript between two awaits, and the handler's         *)
(* segments fall between those of the loop.  The pauses of a loop (phase   *)
(* "rest") are awaits too; MQGET is not: GetSync holds the event loop.     *)
(*                                                                         *)
(* An object handle is named by the connection it was opened on.           *)
(***************************************************************************)
EXTENDS Integers, FiniteSets

CONSTANTS
  Conns,  \* conversations the SVRCONN channel can hand out
  Null    \* JavaScript's null

ASSUME NullAssumption == Null \notin Conns

VARIABLES
  mode,         \* the role this container runs (MODE)
  hConn, hObj,  \* the fields of the session
  pc, arg,      \* what the loop awaits, and the handle it passed
  hand, harg,   \* the same for the signal handler
  signalled,    \* SIGTERM or SIGINT was sent
  running,      \* FALSE: the process has exited
  live,         \* conversations the queue manager holds for this process
  qmUp,         \* the channel accepts connections
  openable      \* OPEN succeeds (object exists, user authorised)

session == <<hConn, hObj>>
loop == <<pc, arg>>
handler == <<hand, harg>>
qmgr == <<live, qmUp, openable>>
process == <<signalled, running>>
vars == <<mode, session, loop, handler, process, qmgr>>

Handles == Conns \cup {Null}

Roles == {"canary", "producer", "consumer"}
MQPhases == {"put", "get", "discard"}
LoopPhases ==
  {"rest", "next", "half", "connect", "open", "unopen", "work", "close", "disc"} \cup MQPhases
HandlerPhases == {"none", "close", "disc", "flush"}

TypeOK ==
  /\ mode \in Roles
  /\ hConn \in Handles
  /\ hObj \in Handles
  /\ pc \in LoopPhases
  /\ arg \in Handles
  /\ hand \in HandlerPhases
  /\ harg \in Handles
  /\ signalled \in BOOLEAN
  /\ running \in BOOLEAN
  /\ live \subseteq Conns
  /\ qmUp \in BOOLEAN
  /\ openable \in BOOLEAN

Init ==
  /\ mode \in Roles
  /\ hConn = Null /\ hObj = Null
  /\ pc = "rest" /\ arg = Null
  /\ hand = "none" /\ harg = Null
  /\ signalled = FALSE
  /\ running = TRUE
  /\ live = {}
  /\ qmUp \in BOOLEAN
  /\ openable \in BOOLEAN

Stopping == hand # "none"

Await(phase, handle) == pc' = phase /\ arg' = handle
Rest == Await("rest", Null)

(* The event loop turns - signal handlers, timers and other promises of    *)
(* I/O run - at every await but the GETs, and but for an iteration that    *)
(* ends without a pause.                                                   *)
Turns == pc \notin {"get", "discard", "next"}

(* Handles some variable or some call in progress still mentions.          *)
InUse == live \cup {hConn, hObj, arg, harg}

-----------------------------------------------------------------------------
(* drop(): the first awaited call depends on the fields when it is called; *)
(* disconnect() reads this.hConn only after close() returned.              *)

Drop ==
  \/ hObj # Null /\ Await("close", hObj) /\ UNCHANGED session
  \/ hObj = Null /\ hConn # Null /\ Await("disc", hConn) /\ UNCHANGED session
  \/ hObj = Null /\ hConn = Null /\ Rest /\ UNCHANGED session

(* Mutant: close() is taken to end the conversation too.                   *)
BugCloseReturns ==
  /\ pc = "close"
  /\ hObj' = Null /\ hConn' = Null
  /\ Rest
  /\ UNCHANGED <<handler, qmgr>>

CloseReturns ==
  /\ pc = "close"
  /\ \/ hConn # Null /\ Await("disc", hConn) /\ UNCHANGED session
     \/ hConn = Null /\ hObj' = Null /\ hConn' = Null /\ Rest
  /\ UNCHANGED <<handler, qmgr>>

DiscReturns ==
  /\ pc = "disc"
  /\ live' = live \ {arg}
  /\ hObj' = Null
  /\ hConn' = Null
  /\ Rest
  /\ UNCHANGED <<handler, qmUp, openable>>

-----------------------------------------------------------------------------
(* ensure().                                                               *)

(* The first MQ call a role makes with the object of its session.          *)
FirstUse == IF mode = "consumer" THEN "get" ELSE "put"

Ensure ==
  /\ pc \in {"rest", "next"}
  /\ IF hObj # Null THEN Await(FirstUse, hObj)
     ELSE IF hConn # Null THEN Await("half", hConn)
     ELSE Await("connect", Null)
  /\ UNCHANGED <<session, handler, qmgr>>

HalfOpenReturns ==
  /\ pc = "half"
  /\ live' = live \ {arg}
  /\ hConn' = Null
  /\ Await("connect", Null)
  /\ UNCHANGED <<hObj, handler, qmUp, openable>>

Connects ==
  /\ pc = "connect"
  /\ qmUp
  /\ \E c \in Conns \ InUse :
       /\ live' = live \cup {c}
       /\ hConn' = c
       /\ Await("open", c)
  /\ UNCHANGED <<hObj, handler, qmUp, openable>>

(* The catch of canary and producer also covers ensure(); the consumer has *)
(* one for ensure() alone that only sleeps.                                *)
ConnectCaught == IF mode = "consumer" THEN Rest /\ UNCHANGED session ELSE Drop

ConnectThrows ==
  /\ pc = "connect"
  /\ ~qmUp
  /\ ConnectCaught
  /\ UNCHANGED <<handler, qmgr>>

Opens ==
  /\ pc = "open"
  /\ arg \in live
  /\ openable
  /\ hObj' = arg
  /\ Await(FirstUse, arg)
  /\ UNCHANGED <<hConn, handler, qmgr>>

(* Mutant: the error of OPEN leaves ensure() without MQDISC.               *)
BugOpenThrows ==
  /\ pc = "open"
  /\ arg \notin live \/ ~openable
  /\ hConn' = Null
  /\ Rest
  /\ UNCHANGED <<hObj, handler, qmgr>>

(* OPEN failed: release the conversation.  this.hConn is read now, and the *)
(* handler may have cleared it.                                            *)
OpenThrows ==
  /\ pc = "open"
  /\ arg \notin live \/ ~openable
  /\ Await("unopen", hConn)
  /\ UNCHANGED <<session, handler, qmgr>>

UnopenReturns ==
  /\ pc = "unopen"
  /\ live' = live \ {arg}
  /\ hConn' = Null
  /\ Rest
  /\ UNCHANGED <<hObj, handler, qmUp, openable>>

-----------------------------------------------------------------------------
(* PUT and GET.                                                            *)

(* The canary's GET reads s.hObj again; the producer is done.              *)
PutReturns ==
  /\ pc = "put"
  /\ arg \in live
  /\ IF mode = "canary" THEN Await("get", hObj) ELSE Rest
  /\ UNCHANGED <<session, handler, qmgr>>

(* The consumer works on a message it got, and without one goes straight   *)
(* to the next iteration; the canary pauses.                               *)
GetReturns ==
  /\ pc = "get"
  /\ arg \in live
  /\ \E phase \in IF mode = "consumer" THEN {"work", "next"} ELSE {"rest"} : Await(phase, Null)
  /\ UNCHANGED <<session, handler, qmgr>>

(* The consumer's message is done: recycle() may drop the connection       *)
(* (CONSUMER_RECYCLE_EVERY).                                               *)
WorkDone ==
  /\ pc = "work"
  /\ (Await("next", Null) /\ UNCHANGED session) \/ Drop
  /\ UNCHANGED <<handler, qmgr>>

(* classify(): what a failing call reports, on a conversation that works,  *)
(* on one that is gone, and with null for a handle.                        *)
Reasons(handle) ==
  IF handle = Null THEN {"error"}
  ELSE IF handle \in live THEN {"put_failed_q_full", "message_too_large", "error"}
  ELSE {"connect_failed", "handle_invalid"}

(* Mutant: a handle of a dead conversation is not recognised.              *)
BugNeedsReconnect(reason) == reason \in {"connect_failed", "auth_failed"}

NeedsReconnect(reason) == reason \in {"connect_failed", "handle_invalid", "auth_failed"}

UseThrows ==
  /\ pc \in {"put", "get"}
  /\ \E reason \in Reasons(arg) :
       IF NeedsReconnect(reason) THEN Drop
       ELSE /\ IF mode = "consumer" /\ reason = "message_too_large"
               THEN Await("discard", hObj)
               ELSE Rest
            /\ UNCHANGED session
  /\ UNCHANGED <<handler, qmgr>>

(* The GET that removes an oversized message; its own failure is only      *)
(* logged.                                                                 *)
DiscardEnds ==
  /\ pc = "discard"
  /\ Await("next", Null)
  /\ UNCHANGED <<session, handler, qmgr>>

-----------------------------------------------------------------------------
(* SIGTERM / SIGINT.  The handler runs when the event loop turns, and only *)
(* once (`stopping`).                                                      *)

HandAwait(phase, handle) == hand' = phase /\ harg' = handle
Flush == HandAwait("flush", Null)

SendSignal ==
  /\ ~signalled
  /\ signalled' = TRUE
  /\ UNCHANGED <<session, loop, handler, running, qmgr>>

OnSignal ==
  /\ signalled
  /\ ~Stopping
  /\ \/ hObj # Null /\ HandAwait("close", hObj)
     \/ hObj = Null /\ hConn # Null /\ HandAwait("disc", hConn)
     \/ hObj = Null /\ hConn = Null /\ Flush
  /\ UNCHANGED <<session, loop, process, qmgr>>

HandlerCloseReturns ==
  /\ hand = "close"
  /\ \/ hConn # Null /\ HandAwait("disc", hConn) /\ UNCHANGED session
     \/ hConn = Null /\ hObj' = Null /\ hConn' = Null /\ Flush
  /\ UNCHANGED <<loop, process, qmgr>>

HandlerDiscReturns ==
  /\ hand = "disc"
  /\ live' = live \ {harg}
  /\ hObj' = Null
  /\ hConn' = Null
  /\ Flush
  /\ UNCHANGED <<loop, process, qmUp, openable>>

(* process.exit, of the handler or of its 6 s timer: the sockets close and *)
(* the queue manager ends the conversations that are left.                 *)
Exit ==
  /\ running' = FALSE
  /\ live' = {}
  /\ UNCHANGED <<session, loop, handler, signalled, qmUp, openable>>

ShutdownReturns ==
  /\ hand = "flush"
  /\ Exit

(* Mutant: the timer is set after the drop instead of before it.           *)
BugExitTimer ==
  /\ hand = "flush"
  /\ Exit

ExitTimer ==
  /\ Stopping
  /\ Exit

(* Compose starts the service again.                                       *)
Restart ==
  /\ ~running
  /\ hConn' = Null /\ hObj' = Null
  /\ pc' = "rest" /\ arg' = Null
  /\ hand' = "none" /\ harg' = Null
  /\ signalled' = FALSE
  /\ running' = TRUE
  /\ UNCHANGED qmgr

-----------------------------------------------------------------------------
(* The queue manager: it, its listener or its channel stops (ending the    *)
(* conversations) and starts; the object or the authority comes and goes.  *)

QmgrStops ==
  /\ qmUp
  /\ qmUp' = FALSE
  /\ live' = {}
  /\ UNCHANGED <<session, loop, handler, process, openable>>

QmgrStarts ==
  /\ ~qmUp
  /\ qmUp' = TRUE
  /\ UNCHANGED <<session, loop, handler, process, live, openable>>

ObjectChanges ==
  /\ openable' = ~openable
  /\ UNCHANGED <<session, loop, handler, process, live, qmUp>>

LoopStep ==
  \/ Ensure \/ HalfOpenReturns \/ Connects \/ ConnectThrows \/ Opens \/ OpenThrows
  \/ UnopenReturns \/ PutReturns \/ GetReturns \/ WorkDone \/ UseThrows \/ DiscardEnds
  \/ CloseReturns \/ DiscReturns

Loop ==
  /\ running
  /\ LoopStep
  /\ UNCHANGED <<mode, process>>

HandlerStep ==
  OnSignal \/ HandlerCloseReturns \/ HandlerDiscReturns \/ ShutdownReturns

Handler ==
  /\ running /\ Turns
  /\ HandlerStep
  /\ UNCHANGED mode

Timer ==
  /\ running /\ Turns
  /\ ExitTimer
  /\ UNCHANGED mode

Outside ==
  /\ (running /\ SendSignal) \/ Restart \/ QmgrStops \/ QmgrStarts \/ ObjectChanges
  /\ UNCHANGED mode

Next == Loop \/ Handler \/ Timer \/ Outside

Spec == Init /\ [][Next]_vars

(* Pauses end, MQ calls return, and a signal or a timer that is due gets   *)
(* its turn when the event loop turns again and again.                     *)
FairSpec ==
  /\ Spec
  /\ WF_vars(Loop)
  /\ SF_vars(OnSignal /\ Handler)
  /\ SF_vars(Timer)

-----------------------------------------------------------------------------
(* Properties.                                                             *)

(* "never stack a new conversation on a half-open one", "otherwise every   *)
(* retry leaks one SVRCONN instance": until a signal arrives every         *)
(* conversation is the one hConn names, so there is at most one.           *)
NoOrphan == ~Stopping => live \subseteq {hConn}

(* Even while the loop and the handler undo each other's work, the process *)
(* never holds more than two conversations.                                *)
AtMostTwo == \A a, b, c \in live : a = b \/ b = c \/ a = c

(* Once the queue manager stays up and the object can be opened, the       *)
(* session is in use again and again: no error leaves the loop with a      *)
(* handle that will never work.                                            *)
ComesBack ==
  <>[](qmUp /\ openable /\ ~Stopping /\ running) => []<>(pc \in MQPhases /\ arg \in live)

(* "never outlive docker's stop grace period": as long as the event loop   *)
(* keeps turning the process ends after a signal, also when the handler's  *)
(* MQ calls never return.                                                  *)
Ends == []<>Turns => (signalled ~> ~running)

-----------------------------------------------------------------------------
(* What the source says, which the code does not keep.                     *)

(* index.mjs: the role's session is "disconnected cleanly on SIGTERM", the *)
(* process must "never outlive docker's stop grace period".                *)
HearsSignal == signalled ~> ~running

=============================================================================
