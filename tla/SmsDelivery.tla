---------------------------- MODULE SmsDelivery ----------------------------
(***************************************************************************)
(* The deliver-sms worker (SMSWorker.Deliver of internal/worker/delivery). *)
(* A provider error makes another provider the first choice before the     *)
(* message is given back, and a technical failure is returned as an error  *)
(* after it has been recorded and reported.                                *)
(***************************************************************************)
EXTENDS DeliveryWorker

\* The service is active and the text is not blank.
ProceedSMS(c) == GoOn(c, "send", "created")

\* The service is not active or the text is blank: a technical failure.
RefuseSMS(c) == GoOn(c, "write", "technical-failure")

\* The simulator or the provider takes the text.
SentSMS(c) == (step[c] = "send" /\ Simulate(c, "sent")) \/ Accept(c, "sent")

\* The provider answers that the recipient has opted out, or with a
\* validation or conflict exception.
RejectedSMS(c) == \E v \in {"permanent-failure", "provider-failure"} : Reject(c, v)

\* After a provider error only the billable units are written.
SendFailsSMS(c) == ProviderFails(c, "write", "created")

\* Slip: only technical failures are reported.
ThenSilently(v) == CASE v = "created" -> "toggle"
                     [] v = "technical-failure" -> "callback"
                     [] OTHER -> "done"

\* What follows the write: the failures are reported, and after a provider
\* error the providers are switched.
Then(v) == CASE v = "created" -> "toggle"
             [] v \in Failed -> "callback"
             [] OTHER -> "done"

WrittenSMS(c) == Record(c, Then(verdict[c]))

\* Slip: the retry limit is never looked at.
ToggleForEver(c) ==
    /\ step[c] = "toggle"
    /\ Inside(c)
    /\ Goto(c, "retry", "created")
    /\ UNCHANGED <<status, ghosts>>

\* After a provider error another provider is made the first choice; then the
\* notification is given up if this was the last retry.
Toggle(c) ==
    /\ step[c] = "toggle"
    /\ Inside(c)
    /\ \/ Retries(c) >= MaxRetries /\ Goto(c, "write", "technical-failure")
       \/ Retries(c) < MaxRetries /\ Goto(c, "retry", "created")
    /\ UNCHANGED <<status, ghosts>>

ToggleFails(c) ==
    /\ step[c] = "toggle"
    /\ Fail(c)
    /\ UNCHANGED <<status, ghosts>>

\* A technical failure that has been recorded and reported is still an error.
FinishedSMS(c) == Finish(c, IF verdict[c] = "technical-failure" THEN "error" ELSE "ok")

DeliverSMS(c) ==
    \/ NotFound(c) \/ Skip(c) \/ ProceedSMS(c) \/ RefuseSMS(c)
    \/ CallFails(c) \/ ErrorLasts(c)
    \/ SentSMS(c) \/ RejectedSMS(c) \/ SendFailsSMS(c)
    \/ WrittenSMS(c) \/ RecordFails(c)
    \/ Toggle(c) \/ ToggleFails(c) \/ Retry(c)
    \/ EnqueueDeliveryStatusCallback(c) \/ CallbackFails(c)
    \/ FinishedSMS(c)

=============================================================================
