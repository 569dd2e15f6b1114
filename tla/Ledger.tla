-------------------------------- MODULE Ledger --------------------------------
(***************************************************************************)
(* What the harness and Alertmanager may expect of the alert-sink          *)
(* (harness/alert-sink/server.mjs, the contract in its header), without    *)
(* clock, ring buffer or process: a log that only grows, and the number of *)
(* its oldest records that are forgotten.                                  *)
(***************************************************************************)
EXTENDS Integers, Sequences

CONSTANTS
  Keep,      \* records kept, unless the ledger is cleared
  Names      \* alert names

VARIABLES
  log,       \* every record ever made: [alertname, status, at]
  floor,     \* the first floor records are forgotten
  mark,      \* the length of the log when a reader last asked for the time
  answer,    \* the last answer to a reader
  acked,     \* the last notification its sender was told is in the ledger
  board      \* the run summary on the boards

Init ==
  /\ log = << >> /\ floor = 0 /\ mark = 0
  /\ answer = {} /\ acked = << >> /\ board = << >>

After(n) == {log[i] : i \in (n + 1)..Len(log)}
Named(records, names) == {e \in records : e.alertname \in names}

\* A record pushes out the oldest one, and only when Keep are held.
Record ==
  /\ Len(log') = Len(log) + 1 /\ \A i \in DOMAIN log : log'[i] = log[i]
  /\ floor' = IF Len(log) - floor < Keep THEN floor ELSE floor + 1
  /\ UNCHANGED <<mark, answer, acked, board>>

\* A sender is told only of what is there: the last records are its alerts.
Acknowledge ==
  /\ Len(acked') <= Len(log)
  /\ \A i \in DOMAIN acked' :
       LET e == log[Len(log) - Len(acked') + i]
       IN  acked'[i] = [alertname |-> e.alertname, status |-> e.status]
  /\ UNCHANGED <<log, floor, mark, answer, board>>

Mark ==
  /\ mark' = Len(log)
  /\ UNCHANGED <<log, floor, answer, acked, board>>

\* An answer holds nothing that is not in the ledger, and everything recorded
\* since the mark that is not forgotten, of one name or of all.
Answer ==
  /\ \E names \in {{n} : n \in Names} \cup {Names} :
       /\ answer' \subseteq Named(After(floor), names)
       /\ Named(After(IF mark < floor THEN floor ELSE mark), names) \subseteq answer'
  /\ UNCHANGED <<log, floor, mark, acked, board>>

Clear ==
  /\ floor' = Len(log)
  /\ board' \in {board, << >>}
  /\ UNCHANGED <<log, mark, answer, acked>>

Publish ==
  /\ board' # << >>
  /\ UNCHANGED <<log, floor, mark, answer, acked>>

Next == Record \/ Acknowledge \/ Mark \/ Answer \/ Clear \/ Publish

Spec == Init /\ [][Next]_<<log, floor, mark, answer, acked, board>>
=============================================================================
