--------------------------- MODULE DeliveryWorker ---------------------------
(***************************************************************************)
(* What the deliver-sms and the deliver-email worker of                    *)
(* internal/worker/delivery have in common: one message per notification;  *)
(* the handler reads the row, calls a provider, records the outcome in the *)
(* row and tells the service of a failure by a callback.  The modules that *)
(* extend this one add the worker's own Deliver.                           *)
(*                                                                         *)
(* The repository has no code yet between the consumer and Deliver; what   *)
(* binds them is external and assumed to pass the receive count, less one, *)
(* as retries and to hand Deliver's error on, a RetryableError perhaps as  *)
(* a queue.TransientError (RetryOutcome).                                  *)
(***************************************************************************)
EXTENDS Naturals, FiniteSets

CONSTANTS
    Notification,       \* the notifications with a message on the queue
    Simulated,          \* those of a test key, a test address, research mode
    Unfound,            \* those whose row a read may miss or that lost it
    Broken,             \* those whose delivery may meet an error that lasts
    Consumer,
    MaxRetries,         \* maxSMSRetries, maxEmailRetries (48)
    RetryOutcome,       \* what becomes of a RetryableError
    MaxOvertakes,       \* bound on early expiries of a visibility timeout
    MaxMessages, VisibilitySeconds, ReceiveCap, MaxFaults, NoEntry

\* The saturating receive count still tells the last retry from the ones before.
ASSUME DeliveryAssumption ==
    /\ Simulated \subseteq Notification /\ Unfound \subseteq Notification
    /\ Broken \subseteq Notification
    /\ RetryOutcome \in {"transient", "error"}
    /\ MaxRetries \in Nat /\ ReceiveCap \in Nat /\ ReceiveCap > MaxRetries
    /\ MaxMessages \in Nat /\ VisibilitySeconds \in Nat /\ MaxFaults \in Nat
    /\ MaxOvertakes \in Nat

ASSUME ConsumersAreFinite == IsFiniteSet(Consumer)

ASSUME NoEntryAssumption ==
    \A e \in [msg : Notification, count : 1 .. ReceiveCap] : e # NoEntry

VARIABLES
    place, received, timer, batch, current, phase, cancelled, faults,
    status,     \* status[n]: notification_status of n's row
    step,       \* step[c]: the call c's handler makes next
    verdict,    \* verdict[c]: the status it is about to write; "created" is none
    accepted,   \* accepted[n]: times a provider took n
    callbacks,  \* callbacks[n]: delivery-status callbacks enqueued for n
    unrecorded, \* unrecorded[n]: attempts that n was accepted in and that may
                \* have ended before the row said so
    overtaken   \* overtaken[n]: times n became visible while a consumer held it

Queue == INSTANCE QueueConsumer WITH Message <- Notification

ghosts == <<accepted, callbacks, unrecorded, overtaken>>
deliveryVars == <<status, step, verdict, ghosts>>
vars == <<Queue!queueVars, deliveryVars>>

\* The statuses of a notification that a provider took, those the service is
\* told of, and all that a worker writes.
Taken == {"sent", "sending"}
Failed == {"provider-failure", "technical-failure", "virus-scan-failed"}
Status == Taken \cup Failed \cup {"created", "permanent-failure", "pii-check-failed"}

Step == {"idle", "load", "prepare", "send", "write", "bounce", "toggle", "retry", "callback", "done"}

TypeOK ==
    /\ Queue!TypeOK
    /\ status \in [Notification -> Status]
    /\ step \in [Consumer -> Step]
    /\ verdict \in [Consumer -> Status]
    /\ accepted \in [Notification -> Nat]
    /\ callbacks \in [Notification -> Nat]
    /\ unrecorded \in [Notification -> Nat]
    /\ overtaken \in [Notification -> 0 .. MaxOvertakes]
    /\ \A c \in Consumer :
          /\ (phase[c] = "handling") <=> (current[c] # NoEntry)
          /\ (phase[c] = "handling") <=> (step[c] # "idle")
          /\ step[c] \in {"bounce", "callback", "done"} => verdict[c] # "created"
          /\ step[c] = "callback" => verdict[c] \in Failed

Init ==
    /\ Queue!Init
    /\ status = [n \in Notification |-> "created"]
    /\ step = [c \in Consumer |-> "idle"]
    /\ verdict = [c \in Consumer |-> "created"]
    /\ accepted = [n \in Notification |-> 0]
    /\ callbacks = [n \in Notification |-> 0]
    /\ unrecorded = [n \in Notification |-> 0]
    /\ overtaken = [n \in Notification |-> 0]

-----------------------------------------------------------------------------
(* The parts a Deliver is made of.                                         *)

Subject(c) == current[c].msg

\* Deliver's retries argument.
Retries(c) == current[c].count - 1

Goto(c, s, v) ==
    /\ step' = [step EXCEPT ![c] = s]
    /\ verdict' = [verdict EXCEPT ![c] = v]

Return(c, outcome) ==
    /\ Queue!Complete(c, outcome)
    /\ Goto(c, "idle", "created")

\* A call fails and Deliver returns its error.
Fail(c) == Queue!Abort(c) /\ Goto(c, "idle", "created")

\* A call Deliver makes succeeds, and Deliver goes on.
Inside(c) ==
    /\ Queue!CallSucceeds(c)
    /\ UNCHANGED <<place, received, timer, batch, current, phase, cancelled>>

Increment(f, n) == [f EXCEPT ![n] = @ + 1]

Start(c, e) ==
    /\ Queue!Take(c, e)
    /\ Goto(c, "load", "created")
    /\ UNCHANGED <<status, ghosts>>

\* The row is not there: a RetryableError, however often that has happened.
NotFound(c) ==
    /\ step[c] = "load" /\ ~cancelled[c]
    /\ Subject(c) \in Unfound
    /\ Return(c, RetryOutcome)
    /\ UNCHANGED <<status, ghosts>>

\* Slip: a failure found in the row is reported again.
SkipReports(c) ==
    /\ step[c] = "load" /\ ~cancelled[c]
    /\ status[Subject(c)] # "created"
    /\ Return(c, "ok")
    /\ callbacks' = IF status[Subject(c)] \in Failed
                    THEN Increment(callbacks, Subject(c)) ELSE callbacks
    /\ UNCHANGED <<status, accepted, unrecorded, overtaken>>

\* The row says that the notification was dealt with before.
Skip(c) ==
    /\ step[c] = "load" /\ ~cancelled[c]
    /\ status[Subject(c)] # "created"
    /\ Return(c, "ok")
    /\ UNCHANGED <<status, ghosts>>

\* Slip: the status of the row is not looked at.
GoOnAnyway(c, s, v) ==
    /\ step[c] = "load"
    /\ Inside(c)
    /\ Goto(c, s, v)
    /\ UNCHANGED <<status, ghosts>>

\* The row is there and nothing has become of the notification yet.
GoOn(c, s, v) ==
    /\ step[c] = "load"
    /\ status[Subject(c)] = "created"
    /\ Inside(c)
    /\ Goto(c, s, v)
    /\ UNCHANGED <<status, ghosts>>

\* A call before the provider's answer fails, for this once: a plain error.
CallFails(c) ==
    /\ step[c] \in {"load", "prepare", "send"}
    /\ Fail(c)
    /\ UNCHANGED <<status, ghosts>>

\* An error that no retry gets past: the row names no service, the content
\* cannot be rendered, no provider is active or its client is of the wrong
\* kind, the attachment cannot be had, the providers cannot be switched.  It is
\* returned before the number of retries is looked at.
ErrorLasts(c) ==
    /\ step[c] \in {"load", "prepare", "send", "toggle"}
    /\ step[c] = "load" => status[Subject(c)] = "created"
    /\ Subject(c) \in Broken
    /\ Return(c, "error")
    /\ UNCHANGED <<status, ghosts>>

\* The simulator of test messages is not given the context, so that it
\* answers after a shutdown too.
Simulate(c, v) ==
    /\ Subject(c) \in Simulated
    /\ accepted' = Increment(accepted, Subject(c))
    /\ Goto(c, "write", v)
    /\ UNCHANGED <<place, received, timer, batch, current, phase, cancelled, faults>>
    /\ UNCHANGED <<status, callbacks, unrecorded, overtaken>>

\* The provider takes the message.
Accept(c, v) ==
    /\ step[c] = "send" /\ Subject(c) \notin Simulated
    /\ Inside(c)
    /\ accepted' = Increment(accepted, Subject(c))
    /\ Goto(c, "write", v)
    /\ UNCHANGED <<status, callbacks, unrecorded, overtaken>>

\* The provider will not take this message, ever.
Reject(c, v) ==
    /\ step[c] = "send" /\ Subject(c) \notin Simulated
    /\ Inside(c)
    /\ Goto(c, "write", v)
    /\ UNCHANGED <<status, ghosts>>

\* Any other error of the provider; it may have taken the message although
\* the caller never got its answer.
ProviderFails(c, s, v) ==
    /\ step[c] = "send" /\ Subject(c) \notin Simulated
    /\ \/ UNCHANGED <<faults, accepted, unrecorded>>
       \/ /\ ~cancelled[c] /\ Queue!Fault
          /\ accepted' = Increment(accepted, Subject(c))
          /\ unrecorded' = Increment(unrecorded, Subject(c))
    /\ Goto(c, s, v)
    /\ UNCHANGED <<place, received, timer, batch, current, phase, cancelled>>
    /\ UNCHANGED <<status, callbacks, overtaken>>

\* UpdateDelivery writes whatever the row says by then; an update without a
\* status leaves the status alone.
Write(c) == IF verdict[c] = "created" THEN status
            ELSE [status EXCEPT ![Subject(c)] = verdict[c]]

\* Slip: the callback is enqueued in a goroutine, and Deliver returns.
RecordInBackground(c, s) ==
    /\ step[c] = "write"
    /\ status' = Write(c)
    /\ Goto(c, s, verdict[c])
    /\ IF s = "callback" THEN Queue!Complete(c, "ok") ELSE Inside(c)
    /\ UNCHANGED ghosts

Record(c, s) ==
    /\ step[c] = "write"
    /\ Inside(c)
    /\ status' = Write(c)
    /\ Goto(c, s, verdict[c])
    /\ UNCHANGED ghosts

\* The error is returned, whether or not the row was written.
RecordFails(c) ==
    /\ step[c] = "write"
    /\ status' \in {status} \cup (IF cancelled[c] THEN {} ELSE {Write(c)})
    /\ unrecorded' = IF verdict[c] \in Taken THEN Increment(unrecorded, Subject(c)) ELSE unrecorded
    /\ Fail(c)
    /\ UNCHANGED <<accepted, callbacks, overtaken>>

\* Slip: a retry is taken for an answer.
RetryReturnsNil(c) ==
    /\ step[c] = "retry"
    /\ Return(c, "ok")
    /\ UNCHANGED <<status, ghosts>>

\* Slip: a retry is a new message, with a receive count of its own.
RetryRequeues(c) ==
    /\ step[c] = "retry"
    /\ phase' = [phase EXCEPT ![c] = IF batch[c] = {} THEN "polling" ELSE "batch"]
    /\ current' = [current EXCEPT ![c] = NoEntry]
    /\ place' = [place EXCEPT ![Subject(c)] = "visible"]
    /\ Goto(c, "idle", "created")
    /\ UNCHANGED <<received, timer, batch, cancelled, faults, status, ghosts>>

\* Deliver returns a RetryableError.
Retry(c) ==
    /\ step[c] = "retry"
    /\ Return(c, RetryOutcome)
    /\ UNCHANGED <<status, ghosts>>

EnqueueDeliveryStatusCallback(c) ==
    /\ step[c] = "callback"
    /\ Inside(c)
    /\ callbacks' = Increment(callbacks, Subject(c))
    /\ Goto(c, "done", verdict[c])
    /\ UNCHANGED <<status, accepted, unrecorded, overtaken>>

\* The error is returned, whether or not the callback was enqueued.
CallbackFails(c) ==
    /\ step[c] = "callback"
    /\ callbacks' \in {callbacks} \cup
          (IF cancelled[c] THEN {} ELSE {Increment(callbacks, Subject(c))})
    /\ Fail(c)
    /\ UNCHANGED <<status, accepted, unrecorded, overtaken>>

\* Deliver has done its work and returns.
Finish(c, outcome) ==
    /\ step[c] = "done"
    /\ Return(c, outcome)
    /\ UNCHANGED <<status, ghosts>>

-----------------------------------------------------------------------------
(* The rest of the consumer's life.                                        *)

\* c has n in its batch or in its handler.
Holds(c, n) ==
    \/ current[c] # NoEntry /\ Subject(c) = n
    \/ \E e \in batch[c] : e.msg = n

Send(n) == Queue!Send(n) /\ UNCHANGED deliveryVars

\* The time allowed may run out while a consumer still holds the message.
VisibilityTimeout(n) ==
    /\ Queue!VisibilityTimeout(n)
    /\ IF \E c \in Consumer : Holds(c, n)
       THEN overtaken[n] < MaxOvertakes /\ overtaken' = Increment(overtaken, n)
       ELSE UNCHANGED overtaken
    /\ UNCHANGED <<status, step, verdict, accepted, callbacks, unrecorded>>

Receive(c, S) == Queue!Receive(c, S) /\ UNCHANGED deliveryVars

Cancel(c) == Queue!Cancel(c) /\ UNCHANGED deliveryVars

Exit(c) == Queue!Exit(c) /\ UNCHANGED deliveryVars

Restart(c) == Queue!Restart(c) /\ UNCHANGED deliveryVars

\* The handlers that were told that n is taken and have not written so.
Answered(n) ==
    {c \in Consumer : step[c] = "write" /\ verdict[c] \in Taken /\ Subject(c) = n}

Crash(c) ==
    /\ Queue!Crash(c)
    /\ unrecorded' = IF step[c] = "write" /\ verdict[c] \in Taken
                     THEN Increment(unrecorded, Subject(c)) ELSE unrecorded
    /\ Goto(c, "idle", "created")
    /\ UNCHANGED <<status, accepted, callbacks, overtaken>>

\* What happens to a consumer outside of Deliver.
Around(c) ==
    \/ \E S \in SUBSET Notification : Receive(c, S)
    \/ \E e \in batch[c] : Start(c, e)
    \/ Cancel(c) \/ Exit(c) \/ Restart(c) \/ Crash(c)

-----------------------------------------------------------------------------
(* What either worker promises.                                            *)

\* Nobody gets a message twice, but for the attempts that ended between the
\* provider's answer and the write to the row and for the times the visibility
\* timeout ran out under a worker.  A failed delete, a shutdown, a crash or a
\* failed call at any other point, the bounce-rate store's after the row is
\* written among them, costs no second one.
SentOnceButForLapses ==
    \A n \in Notification : accepted[n] <= 1 + unrecorded[n] + overtaken[n]

\* The outcome in the row stands, unless a worker was overtaken: retries,
\* crashes and second deliveries do not rewrite it.
FinalStatusStands ==
    [][\A n \in Notification :
          status[n] # "created" /\ overtaken[n] = 0 => status'[n] = status[n]]_vars

\* A message leaves the queue only when the row tells the outcome: no
\* notification is left "created" with nobody to deliver it.
DeletedIsFinal == \A n \in Notification : place[n] = "deleted" => status[n] # "created"

\* A service hears of a failure once, and once more at most for every time the
\* visibility timeout ran out under a worker; where it never did, it hears of
\* no failure that its row does not tell.  (An overtaken worker may report a
\* failure while another one writes "sent" over it.)
CallbackTellsTheTruth ==
    \A n \in Notification :
        /\ callbacks[n] <= 1 + overtaken[n]
        /\ callbacks[n] > 0 /\ overtaken[n] = 0 => status[n] \in Failed

\* Failures that nobody told the service about and nobody is about to.
Silent ==
    {n \in Notification :
        /\ status[n] \in Failed /\ callbacks[n] = 0
        /\ ~\E c \in Consumer : step[c] \in {"write", "callback"} /\ Subject(c) = n}

\* Each failed call and each crash or shutdown of a consumer makes at most one
\* failure silent.
SilentBoundedByFaults == Cardinality(Silent) <= faults

\* The delivery worker uses the queue the way the consumer loop does.
UsesQueueConsumer == Queue!Spec

=============================================================================
