-------------------------- MODULE NotificationLife --------------------------
(***************************************************************************)
(* The life of notifications as it is seen from outside of the workers:    *)
(* the rows of a batch are committed together; then a notification gets a  *)
(* message on a delivery queue; then a provider may take it; then its row  *)
(* tells an outcome.  What NotificationPath implements, through every      *)
(* retry, second delivery, shutdown and crash.                             *)
(***************************************************************************)

CONSTANTS Notification, Batch, items

VARIABLES
    saved,      \* the notifications that have a row
    queued,     \* those whose delivery message has been sent
    taken,      \* those a provider has taken
    contested,  \* those whose message came back while a worker still had it
    outcome     \* outcome[n]: what n's row tells; "created" is nothing yet

vars == <<saved, queued, taken, contested, outcome>>

Success == {"sent", "sending"}
Failure == {"provider-failure", "technical-failure", "virus-scan-failed",
            "permanent-failure", "pii-check-failed"}

Init ==
    /\ saved = {} /\ queued = {} /\ taken = {} /\ contested = {}
    /\ outcome = [n \in Notification |-> "created"]

\* The rows of a batch, all at once and never a second time.
Save(b) ==
    /\ items[b] \cap saved = {}
    /\ saved' = saved \cup items[b]
    /\ UNCHANGED <<queued, taken, contested, outcome>>

\* One message, and only for a row that is there.
Enqueue(n) ==
    /\ n \in saved \ queued
    /\ queued' = queued \cup {n}
    /\ UNCHANGED <<saved, taken, contested, outcome>>

Contest(n) ==
    /\ n \in queued
    /\ contested' = contested \cup {n}
    /\ UNCHANGED <<saved, queued, taken, outcome>>

\* A worker works on n: as long as nobody contests it, only before its row
\* tells an outcome.
AtWork(n) == n \in queued /\ (outcome[n] = "created" \/ n \in contested)

Take(n) ==
    /\ AtWork(n)
    /\ taken' = taken \cup {n}
    /\ UNCHANGED <<saved, queued, contested, outcome>>

\* A row tells of a success only where a provider took the notification.
Settle(n, v) ==
    /\ AtWork(n)
    /\ v \in Success => n \in taken
    /\ outcome' = [outcome EXCEPT ![n] = v]
    /\ UNCHANGED <<saved, queued, taken, contested>>

Next ==
    \/ \E b \in Batch : Save(b)
    \/ \E n \in Notification :
          \/ Enqueue(n) \/ Contest(n) \/ Take(n)
          \/ \E v \in Success \cup Failure : Settle(n, v)

Spec == Init /\ [][Next]_vars

=============================================================================
