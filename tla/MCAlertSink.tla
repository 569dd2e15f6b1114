----------------------------- MODULE MCAlertSink -----------------------------
EXTENDS AlertSink

Firing(n) == [alertname |-> n, status |-> "firing"]
Resolved(n) == [alertname |-> n, status |-> "resolved"]

MCNames == {"Down", "Unreachable"}
MCGroup == <<Resolved("Down"), Firing("Unreachable"), Firing("Down")>>
MCAbsurd == <<Firing("Unreachable"), Firing("Unreachable")>>
\* One alert, a group of more alerts than the buffer holds, and an absurd one.
MCNotifications == {<<Firing("Down")>>, MCGroup, MCAbsurd}
MCAbsurdOnes == {MCAbsurd}
=============================================================================
