--------------------------- MODULE EmailDelivery ---------------------------
(***************************************************************************)
(* The deliver-email worker (EmailWorker.Deliver of                        *)
(* internal/worker/delivery).  Between the row and the provider it checks  *)
(* the text for personal data and has an attachment scanned and            *)
(* downloaded; after the row says "sending" it still feeds the bounce      *)
(* rate, and an error there gives the message back to the queue.           *)
(***************************************************************************)
EXTENDS DeliveryWorker

CONSTANT Unscanned  \* those with an attachment whose scan never ends

-----------------------------------------------------------------------------
(* EmailWorker.Deliver.                                                    *)

\* The service is active and the content could be rendered.
ProceedEmail(c) == GoOn(c, "prepare", "created")

\* The service is not active: a technical failure.
RefuseEmail(c) == GoOn(c, "write", "technical-failure")

\* A test key, the internal address or a service in research mode: neither
\* the text nor the attachment is looked at.
Pretend(c) == step[c] = "prepare" /\ Simulate(c, "sending")

\* What becomes of a real mail once its text and attachment were looked at.
Prepared(c, s, v) ==
    /\ step[c] = "prepare" /\ Subject(c) \notin Simulated
    /\ Inside(c)
    /\ Goto(c, s, v)
    /\ UNCHANGED <<status, ghosts>>

\* The text holds a social insurance number.
PiiFound(c) == Prepared(c, "write", "pii-check-failed")

\* The file is a local one or unknown to the scanner, or it has malware in it.
BadAttachment(c) ==
    /\ step[c] = "prepare" /\ Subject(c) \notin Unscanned
    /\ \E v \in {"technical-failure", "virus-scan-failed"} : Prepared(c, "write", v)

\* The scan is not done: a RetryableError, however often that has happened.
\* Where a scan ends after all, each such answer is drawn from the faults.
ScanInProgress(c) ==
    /\ step[c] = "prepare" /\ Subject(c) \notin Simulated /\ ~cancelled[c]
    /\ IF Subject(c) \in Unscanned THEN UNCHANGED faults ELSE Queue!Fault
    /\ Goto(c, "retry", "created")
    /\ UNCHANGED <<place, received, timer, batch, current, phase, cancelled, status, ghosts>>

\* There is no attachment, it goes as a link, or it was scanned and
\* downloaded; the download is tried five times and its error returned.
Attached(c) ==
    /\ step[c] = "prepare" /\ Subject(c) \notin Unscanned
    /\ Prepared(c, "send", "created")

\* The provider takes the mail.
SentEmail(c) == Accept(c, "sending")

\* The address, or a URL in the mail, is not one the provider can use.
RejectedEmail(c) == Reject(c, "technical-failure")

\* Slip: the retry limit is never looked at.
SendRetriesForEver(c) == ProviderFails(c, "retry", "created")

\* On any other error of the provider the notification is given up if this
\* was the last retry.
SendFailsEmail(c) ==
    /\ step[c] = "send"
    /\ \/ Retries(c) < MaxRetries /\ ProviderFails(c, "retry", "created")
       \/ Retries(c) >= MaxRetries /\ ProviderFails(c, "write", "technical-failure")

\* What follows the write: the failures are reported, and what a provider
\* took counts for the bounce rate.
WrittenEmail(c) ==
    /\ step[c] = "write"
    /\ Record(c, CASE verdict[c] \in Failed -> "callback"
                   [] verdict[c] = "sending" /\ Subject(c) \notin Simulated -> "bounce"
                   [] OTHER -> "done")

\* Slip: a mail that does not count for the bounce rate is to be sent again.
BounceRateReverts(c) ==
    /\ step[c] = "bounce"
    /\ status' = [status EXCEPT ![Subject(c)] = "created"]
    /\ Fail(c)
    /\ UNCHANGED ghosts

\* The notification is added to the window of the bounce rate, and the rate
\* checked; a bad rate is only logged.
CountForBounceRate(c) ==
    /\ step[c] = "bounce"
    /\ Inside(c)
    /\ Goto(c, "done", verdict[c])
    /\ UNCHANGED <<status, ghosts>>

\* Either fails: its error is returned although the mail was sent and the row
\* says so.
BounceRateFails(c) ==
    /\ step[c] = "bounce"
    /\ Fail(c)
    /\ UNCHANGED <<status, ghosts>>

FinishedEmail(c) == Finish(c, "ok")

\* Reading the row and its service, the callback and the errors of the calls
\* are those of the worker for texts.
Load(c) == NotFound(c) \/ Skip(c) \/ ProceedEmail(c) \/ RefuseEmail(c)
Prepare(c) == Pretend(c) \/ PiiFound(c) \/ BadAttachment(c) \/ ScanInProgress(c) \/ Attached(c)
Report(c) == EnqueueDeliveryStatusCallback(c) \/ CallbackFails(c)

DeliverEmail(c) ==
    \/ Load(c) \/ Prepare(c) \/ CallFails(c) \/ ErrorLasts(c)
    \/ SentEmail(c) \/ RejectedEmail(c) \/ SendFailsEmail(c) \/ Retry(c)
    \/ WrittenEmail(c) \/ RecordFails(c) \/ Report(c)
    \/ CountForBounceRate(c) \/ BounceRateFails(c)
    \/ FinishedEmail(c)

=============================================================================
