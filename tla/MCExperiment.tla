----------------------------- MODULE MCExperiment -----------------------------
(***************************************************************************)
(* Instances of Experiment for TLC: the two alerts of the pack's qmgr-down *)
(* experiment, each of one queue manager; one alert of queue-full, which   *)
(* another queue may raise too, so that one alert has two fingerprints;    *)
(* and one alert amid outages, restarts and leftovers.                     *)
(***************************************************************************)
EXTENDS Experiment

Scenario(expected, prints, max, prom, sink, after) ==
  [expected |-> expected, prints |-> prints, maxFlushes |-> max,
   promOutages |-> prom, sinkOutages |-> sink, aftermath |-> after]

QueueManagerDown ==
  Scenario(<<"IBMMQQueueManagerDown", "MQCanaryFailing">>, {"QM1"}, 2, FALSE, FALSE, FALSE)

QueueFull ==
  Scenario(<<"IBMMQQueueFull">>, {"APP.BURST", "APP.ORDERS.REQ"}, 2, FALSE, FALSE, FALSE)

Outages == Scenario(<<"MQCanaryFailing">>, {"QM1"}, 3, TRUE, TRUE, TRUE)

MCScenarios == {QueueManagerDown, QueueFull, Outages}

=============================================================================
