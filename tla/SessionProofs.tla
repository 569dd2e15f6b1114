----------------------------- MODULE SessionProofs -----------------------------
(***************************************************************************)
(* What holds of a session for every set of conversations: its types, that *)
(* no conversation is orphaned before a signal, and that two is the most a *)
(* process holds while the loop and the signal handler share the session.  *)
(*                                                                         *)
(* Neither safety property is inductive.  Inductive adds what the awaited  *)
(* calls carry: a disconnect under way is the one of hConn, unless the     *)
(* handler has cleared hConn since; a connect is awaited only while there  *)
(* is no connection; and a process that exited holds nothing.              *)
(***************************************************************************)
EXTENDS Session, TLAPS

(* Phases in which the loop awaits an MQDISC.                              *)
Disconnecting == {"half", "unopen", "disc"}

(* Before the handler's drop() is through, hConn names every conversation. *)
Named == hand # "flush" => live \subseteq {hConn}

(* After it, at most one conversation is not named.                        *)
OneMore == \E other \in Handles : live \subseteq {other, hConn}

ConnectsAlone == pc = "connect" => hConn = Null

Disconnects ==
  pc \in Disconnecting => arg = hConn \/ (hand = "flush" /\ hConn = Null)

ExitsEmpty == ~running => live = {}

Inductive ==
  /\ TypeOK
  /\ Named
  /\ OneMore
  /\ ConnectsAlone
  /\ Disconnects
  /\ ExitsEmpty

(* A process starts with no handle and no conversation.                    *)
LEMMA InitInductive == Init => Inductive
BY DEF Init, Inductive, TypeOK, Named, OneMore, ConnectsAlone, Disconnects, ExitsEmpty,
       Disconnecting, Handles, Roles, LoopPhases, MQPhases, HandlerPhases

(* Where no conversation is left the loop and the handler agree.           *)
LEMMA NoneLeft ==
  ASSUME live' = {}
  PROVE  Named' /\ OneMore' /\ ExitsEmpty'
<1>1. Null \in Handles
  BY DEF Handles
<1>2. OneMore'
  BY <1>1 DEF OneMore
<1> QED
  BY <1>2 DEF Named, ExitsEmpty

(* An exit, and a queue manager that stops, keep the types.                *)
LEMMA ExitTyped ==
  ASSUME TypeOK, Exit, UNCHANGED mode
  PROVE  TypeOK'
BY DEF TypeOK, Exit, session, loop, handler

LEMMA StopTyped ==
  ASSUME TypeOK, QmgrStops, UNCHANGED mode
  PROVE  TypeOK'
BY DEF TypeOK, QmgrStops, session, loop, handler, process

(* A segment of the loop.                                                  *)
LEMMA LoopInductive ==
  ASSUME Inductive, Loop
  PROVE  Inductive'
<1> USE NullAssumption
    DEF Inductive, TypeOK, Named, OneMore, ConnectsAlone, Disconnects, ExitsEmpty,
        Disconnecting, Handles, Roles, LoopPhases, MQPhases, HandlerPhases,
        session, loop, handler, process, qmgr, vars, Loop, Await
<1>1. CASE Ensure
  BY <1>1 DEF Ensure, FirstUse
<1>2. CASE HalfOpenReturns
  BY <1>2 DEF HalfOpenReturns
<1>3. CASE Connects
  BY <1>3 DEF Connects, InUse
<1>4. CASE ConnectThrows
  BY <1>4 DEF ConnectThrows, ConnectCaught, Drop, Rest
<1>5. CASE Opens
  BY <1>5 DEF Opens, FirstUse
<1>6. CASE OpenThrows
  BY <1>6 DEF OpenThrows
<1>7. CASE UnopenReturns
  BY <1>7 DEF UnopenReturns, Rest
<1>8. CASE PutReturns
  BY <1>8 DEF PutReturns, Rest
<1>9. CASE GetReturns
  BY <1>9 DEF GetReturns
<1>10. CASE WorkDone
  BY <1>10 DEF WorkDone, Drop, Rest
<1>11. CASE UseThrows
  BY <1>11 DEF UseThrows, Drop, Rest, Reasons, NeedsReconnect
<1>12. CASE DiscardEnds
  BY <1>12 DEF DiscardEnds
<1>13. CASE CloseReturns
  BY <1>13 DEF CloseReturns, Rest
<1>14. CASE DiscReturns
  BY <1>14 DEF DiscReturns, Rest
<1> QED
  BY <1>1, <1>2, <1>3, <1>4, <1>5, <1>6, <1>7, <1>8, <1>9, <1>10, <1>11, <1>12, <1>13, <1>14 DEF LoopStep

(* A segment of the signal handler.                                        *)
LEMMA HandlerInductive ==
  ASSUME Inductive, Handler
  PROVE  Inductive'
<1> USE NullAssumption
    DEF Inductive, TypeOK, Named, OneMore, ConnectsAlone, Disconnects, ExitsEmpty,
        Disconnecting, Handles, Roles, LoopPhases, MQPhases, HandlerPhases,
        session, loop, handler, process, qmgr, vars, Handler, HandAwait, Flush, Exit
<1>1. CASE OnSignal
  BY <1>1 DEF OnSignal, Stopping
<1>2. CASE HandlerCloseReturns
  BY <1>2 DEF HandlerCloseReturns
<1>3. CASE HandlerDiscReturns
  BY <1>3 DEF HandlerDiscReturns
<1>4. CASE ShutdownReturns
  <2>1. live' = {}
    BY <1>4 DEF ShutdownReturns
  <2>2. TypeOK'
    BY <1>4, ExitTyped DEF Handler, ShutdownReturns
  <2>3. ConnectsAlone' /\ Disconnects'
    BY <1>4 DEF ShutdownReturns
  <2> QED
    BY <2>1, <2>2, <2>3, NoneLeft
<1> QED
  BY <1>1, <1>2, <1>3, <1>4 DEF HandlerStep

(* The 6 s timer.                                                          *)
LEMMA TimerInductive ==
  ASSUME Inductive, Timer
  PROVE  Inductive'
<1>1. live' = {}
  BY DEF Timer, ExitTimer, Exit
<1>2. TypeOK' /\ ConnectsAlone' /\ Disconnects'
  BY DEF Inductive, Timer, ExitTimer, Exit, TypeOK, ConnectsAlone, Disconnects,
         session, loop, handler
<1> QED
  BY <1>1, <1>2, NoneLeft DEF Inductive

(* The outside world.                                                      *)
LEMMA OutsideInductive ==
  ASSUME Inductive, Outside
  PROVE  Inductive'
<1> USE NullAssumption
    DEF Inductive, TypeOK, Named, OneMore, ConnectsAlone, Disconnects, ExitsEmpty,
        Disconnecting, Handles, Roles, LoopPhases, MQPhases, HandlerPhases,
        session, loop, handler, process, qmgr, vars, Outside
<1>1. CASE running /\ SendSignal
  BY <1>1 DEF SendSignal
<1>2. CASE Restart
  BY <1>2 DEF Restart
<1>3. CASE QmgrStops
  <2>1. live' = {}
    BY <1>3 DEF QmgrStops
  <2>2. TypeOK'
    BY <1>3, StopTyped DEF Outside
  <2>3. ConnectsAlone' /\ Disconnects'
    BY <1>3 DEF QmgrStops
  <2> QED
    BY <2>1, <2>2, <2>3, NoneLeft
<1>4. CASE QmgrStarts
  BY <1>4 DEF QmgrStarts
<1>5. CASE ObjectChanges
  BY <1>5 DEF ObjectChanges
<1> QED
  BY <1>1, <1>2, <1>3, <1>4, <1>5 DEF Outside

(* Every step keeps the invariant.                                         *)
LEMMA StepInductive == Inductive /\ [Next]_vars => Inductive'
<1> SUFFICES ASSUME Inductive, [Next]_vars
             PROVE  Inductive'
  OBVIOUS
<1>1. CASE Loop
  BY <1>1, LoopInductive
<1>2. CASE Handler
  BY <1>2, HandlerInductive
<1>3. CASE Timer
  BY <1>3, TimerInductive
<1>4. CASE Outside
  BY <1>4, OutsideInductive
<1>5. CASE UNCHANGED vars
  BY <1>5 DEF Inductive, TypeOK, Named, OneMore, ConnectsAlone, Disconnects, ExitsEmpty,
     Disconnecting, Handles, Roles, LoopPhases, MQPhases, HandlerPhases,
     session, loop, handler, process, qmgr, vars
<1> QED
  BY <1>1, <1>2, <1>3, <1>4, <1>5 DEF Next

(* The invariant holds of every behaviour of the session.                  *)
THEOREM AlwaysInductive == Spec => []Inductive
<1>1. Init => Inductive
  BY InitInductive
<1>2. Inductive /\ [Next]_vars => Inductive'
  BY StepInductive
<1> QED
  BY <1>1, <1>2, PTL DEF Spec

(* Variables keep their types.                                             *)
THEOREM TypeCorrect == Spec => []TypeOK
<1>1. Inductive => TypeOK
  BY DEF Inductive
<1> QED
  BY <1>1, AlwaysInductive, PTL

(* ensure() and drop() leak no conversation: before a signal each one is   *)
(* the one hConn names.                                                    *)
THEOREM NothingOrphaned == Spec => []NoOrphan
<1>1. Inductive => NoOrphan
  BY DEF Inductive, Named, NoOrphan, Stopping
<1> QED
  BY <1>1, AlwaysInductive, PTL

(* With the handler's drop() beside the loop a process holds at most two   *)
(* conversations of the channel.                                           *)
THEOREM TwoAtMost == Spec => []AtMostTwo
<1>1. Inductive => AtMostTwo
  BY DEF Inductive, OneMore, AtMostTwo
<1> QED
  BY <1>1, AlwaysInductive, PTL

=============================================================================
