---------------------------- MODULE DeliveryQueue ----------------------------
(***************************************************************************)
(* A delivery queue with its workers: the manager gives a queue for texts  *)
(* the handler of SmsDelivery and a queue for mails that of EmailDelivery. *)
(* The queues share nothing, so that one of either kind stands for all.    *)
(***************************************************************************)
EXTENDS SmsDelivery, EmailDelivery

ASSUME UnscannedAssumption == Unscanned \subseteq Notification

VARIABLE kind       \* what is on the queue

queueVars == <<vars, kind>>

QueueInit == kind \in {"sms", "email"} /\ Init

Deliver(c) ==
    \/ kind = "sms" /\ DeliverSMS(c)
    \/ kind = "email" /\ DeliverEmail(c)

Next ==
    /\ \/ \E n \in Notification : Send(n) \/ VisibilityTimeout(n)
       \/ \E c \in Consumer : Around(c) \/ Deliver(c)
    /\ UNCHANGED kind

Spec == QueueInit /\ [][Next]_queueVars

\* As for the save workers: the loop runs on, a returned consumer is replaced,
\* in-flight messages come back and no visible message is passed over for ever.
FairSpec ==
    /\ Spec
    /\ \A n \in Notification :
          /\ WF_queueVars(VisibilityTimeout(n) /\ UNCHANGED kind)
          /\ SF_queueVars(\E c \in Consumer, S \in SUBSET Notification :
                             n \in S /\ Receive(c, S) /\ UNCHANGED kind)
    /\ \A c \in Consumer :
          /\ WF_queueVars(\E e \in batch[c] : Start(c, e) /\ UNCHANGED kind)
          /\ WF_queueVars(Deliver(c) /\ UNCHANGED kind)
          /\ WF_queueVars(Exit(c) /\ UNCHANGED kind)
          /\ WF_queueVars(Restart(c) /\ UNCHANGED kind)

\* What a message that is not retried for ever has: a row that is found,
\* nothing in it that fails the same way every time, and no attachment that
\* stays unscanned.  Without these neither worker looks at the retry limit.
Deliverable(n) ==
    n \notin Unfound \cup Broken /\ (kind = "email" => n \notin Unscanned)

-----------------------------------------------------------------------------
\* A message that is deliverable in this sense is not retried for ever, however
\* long the providers refuse it and whatever messages without a row, with an
\* error that lasts or with an endless scan come back beside it.
EveryNotificationSettles ==
    \A n \in Notification :
        Deliverable(n) /\ place[n] = "visible" ~> place[n] = "deleted"

\* A text whose row is found and that meets no error that lasts gets an outcome
\* with its last retry: the handler that returns from it, and was neither
\* cancelled nor failed by a call, leaves none "created", whatever the providers
\* said.  Of mails this holds but for an endless scan.
LastRetryDecides ==
    [][\A c \in Consumer :
          (/\ kind = "sms" /\ phase[c] = "handling" /\ phase'[c] # "handling"
           /\ faults' = faults /\ ~cancelled[c]
           /\ Subject(c) \notin Unfound \cup Broken /\ Retries(c) >= MaxRetries)
          => status'[Subject(c)] # "created"]_queueVars

=============================================================================
