----------------------------- MODULE MCChaosSuite -----------------------------
(***************************************************************************)
(* Instances of ChaosSuite for TLC.  The suite is taken from the pack's    *)
(* experiments: a container fault whose recovery is polled, an experiment  *)
(* the faults map does not implement (status SKIP), and a fault whose      *)
(* commands run inside the queue manager's container.                      *)
(***************************************************************************)
EXTENDS ChaosSuite

MixedSuite == <<"qmgr-down", "jms-stall", "listener-stopped">>

OneSignal == {"SIGINT"}
BothSignals == {"SIGINT", "SIGTERM"}

(* The lab is clean when the first process starts.                         *)
CleanSpec == Init /\ dirty = {} /\ [][Next]_vars

=============================================================================
