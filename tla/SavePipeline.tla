---------------------------- MODULE SavePipeline ----------------------------
(***************************************************************************)
(* The save-sms / save-email workers (internal/worker/savenotify) fed by   *)
(* the SQS consumer: a message carries a batch of signed notifications;    *)
(* its handler verifies it, inserts all rows in one statement,             *)
(* acknowledges the Redis receipt and puts one delivery message per        *)
(* notification on a delivery queue.                                       *)
(*                                                                         *)
(* Each call that leaves the process (INSERT, Redis, SendMessage, the      *)
(* settling call of the consumer) is a step of its own, so that crashes,   *)
(* shutdowns and a second delivery of the same message can fall between    *)
(* any two of them.                                                        *)
(***************************************************************************)
EXTENDS Naturals, FiniteSets

CONSTANTS
    Batch,              \* the messages on the save queue
    Notification,       \* the notifications they carry
    items,              \* items[b]: the notifications of batch b
    Unreadable,         \* the batches whose body is not the JSON of a saveTask
    Receipted,          \* those with a receipt, and an acknowledger to tell
    Consumer,
    MaxRetries,         \* maxSaveWorkerRetries (5)
    MaxMessages, VisibilitySeconds, ReceiveCap, MaxFaults, NoEntry

\* A notification is given its id when it is put into one batch, and the
\* saturating receive count still tells the last retry from the ones before.
ASSUME SaveAssumption ==
    /\ items \in [Batch -> SUBSET Notification]
    /\ Unreadable \subseteq Batch /\ Receipted \subseteq Batch
    /\ \A a, b \in Batch : a # b => items[a] \cap items[b] = {}
    /\ MaxRetries \in Nat \ {0} /\ ReceiveCap \in Nat /\ ReceiveCap >= MaxRetries
    /\ MaxMessages \in Nat /\ VisibilitySeconds \in Nat /\ MaxFaults \in Nat

ASSUME NoEntryAssumption ==
    \A e \in [msg : Batch, count : 1 .. ReceiveCap] : e # NoEntry

VARIABLES
    place, received, timer, batch, current, phase, cancelled, faults,
    signed,     \* signed[b]: every notification of b carries a valid signature
    rows,       \* the notifications that have a row in the database
    acked,      \* the batches whose receipt Redis has taken for acknowledged
    unheard,    \* those whose acknowledgement failed under a running consumer
    step,       \* step[c]: how far c's handler got
    todo,       \* todo[c]: the items c's handler has not enqueued yet
    sent,       \* sent[n]: delivery messages enqueued for n
    limited     \* the notifications skipped because of a service limit

Queue == INSTANCE QueueConsumer WITH Message <- Batch

saveVars == <<rows, acked, unheard, step, todo, sent, limited>>
vars == <<Queue!queueVars, signed, saveVars>>

TypeOK ==
    /\ Queue!TypeOK
    /\ signed \in [Batch -> BOOLEAN]
    /\ rows \subseteq Notification
    /\ acked \subseteq Receipted /\ unheard \subseteq Receipted
    /\ step \in [Consumer -> {"idle", "verify", "insertFailed", "retry", "inserted", "enqueue"}]
    /\ todo \in [Consumer -> SUBSET Notification]
    /\ sent \in [Notification -> Nat]
    /\ limited \subseteq Notification
    /\ \A c \in Consumer :
          /\ (phase[c] = "handling") <=> (current[c] # NoEntry)
          /\ (phase[c] = "handling") <=> (step[c] # "idle")
          /\ todo[c] # {} => step[c] = "enqueue"

Init ==
    /\ Queue!Init
    /\ signed \in [Batch -> BOOLEAN]
    /\ rows = {} /\ acked = {} /\ unheard = {} /\ limited = {}
    /\ step = [c \in Consumer |-> "idle"]
    /\ todo = [c \in Consumer |-> {}]
    /\ sent = [n \in Notification |-> 0]

-----------------------------------------------------------------------------
(* SaveWorker.Handle.                                                      *)

Work(c) == items[current[c].msg]

\* The handler returns: the consumer settles the message, and nothing of the
\* handler's state is left.
Return(c, outcome) ==
    /\ Queue!Complete(c, outcome)
    /\ step' = [step EXCEPT ![c] = "idle"]
    /\ todo' = [todo EXCEPT ![c] = {}]
    /\ UNCHANGED signed

Goto(c, s) == step' = [step EXCEPT ![c] = s]

\* A step inside the handler leaves the queue alone, but for the fault count.
Inside == UNCHANGED <<place, received, timer, batch, current, phase, cancelled, signed>>

Start(c, e) ==
    /\ Queue!Take(c, e)
    /\ Goto(c, "verify")
    /\ UNCHANGED <<signed, rows, acked, unheard, todo, sent, limited>>

\* The handler has the message in hand and could decode its body.
Decoded(c) == step[c] = "verify" /\ current[c].msg \notin Unreadable

\* A body that cannot be decoded is a plain error, today and on every later
\* receive.
DecodeFails(c) ==
    /\ step[c] = "verify" /\ current[c].msg \in Unreadable
    /\ Return(c, "error")
    /\ UNCHANGED <<rows, acked, unheard, sent, limited>>

\* One bad signature drops the whole batch: the handler returns nil before
\* anything is written and without acknowledging the receipt.
DropBadSignature(c) ==
    /\ Decoded(c) /\ ~signed[current[c].msg]
    /\ Return(c, "ok")
    /\ UNCHANGED <<rows, acked, unheard, sent, limited>>

\* Looking up the reply-to address of an email fails: a plain error.
PrepareFails(c) ==
    /\ Decoded(c)
    /\ Queue!Abort(c)
    /\ Goto(c, "idle")
    /\ UNCHANGED <<signed, rows, acked, unheard, todo, sent, limited>>

\* Slip: rows that are there already are skipped (ON CONFLICT DO NOTHING).
InsertIgnoresConflict(c) ==
    /\ Decoded(c) /\ signed[current[c].msg]
    /\ Queue!CallSucceeds(c)
    /\ rows' = rows \cup Work(c)
    /\ Goto(c, "inserted")
    /\ Inside /\ UNCHANGED <<acked, unheard, todo, sent, limited>>

\* BulkInsertNotifications is one INSERT: all rows or none, and none when a
\* row with one of the ids is already there.
InsertSucceeds(c) ==
    /\ Decoded(c) /\ signed[current[c].msg]
    /\ Queue!CallSucceeds(c)
    /\ Work(c) \cap rows = {}
    /\ rows' = rows \cup Work(c)
    /\ Goto(c, "inserted")
    /\ Inside /\ UNCHANGED <<acked, unheard, todo, sent, limited>>

\* The key conflict of a batch that was inserted before.
InsertConflicts(c) ==
    /\ Decoded(c) /\ signed[current[c].msg]
    /\ Queue!CallSucceeds(c)
    /\ Work(c) \cap rows # {}
    /\ Goto(c, "insertFailed")
    /\ Inside /\ UNCHANGED <<rows, acked, unheard, todo, sent, limited>>

\* The database fails, before the rows are committed or after.
InsertFails(c) ==
    /\ Decoded(c) /\ signed[current[c].msg]
    /\ Queue!CallFails(c)
    /\ \/ UNCHANGED rows
       \/ ~cancelled[c] /\ Work(c) \cap rows = {} /\ rows' = rows \cup Work(c)
    /\ Goto(c, "insertFailed")
    /\ Inside /\ UNCHANGED <<acked, unheard, todo, sent, limited>>

\* The receipt behind the batch, if there is one, is acknowledged in Redis.  A
\* failure is only logged; Redis may have taken the receipt all the same.
AcknowledgeReceipt(c) ==
    \/ /\ current[c].msg \notin Receipted
       /\ UNCHANGED <<faults, acked, unheard>>
    \/ /\ current[c].msg \in Receipted
       /\ Queue!CallSucceeds(c)
       /\ acked' = acked \cup {current[c].msg}
       /\ UNCHANGED unheard
    \/ /\ current[c].msg \in Receipted
       /\ Queue!CallFails(c)
       /\ \/ UNCHANGED acked
          \/ ~cancelled[c] /\ acked' = acked \cup {current[c].msg}
       /\ unheard' = IF cancelled[c] THEN unheard ELSE unheard \cup {current[c].msg}

\* A failed insert may be tried again; saved notifications are to be enqueued.
GiveBack(c) == step[c] = "insertFailed" /\ Goto(c, "retry") /\ UNCHANGED todo

EnqueueWork(c) == Goto(c, "enqueue") /\ todo' = [todo EXCEPT ![c] = Work(c)]

\* Slip: the handler goes on to the enqueue loop after a failed insert.
AcknowledgeThenEnqueue(c) ==
    /\ step[c] \in {"insertFailed", "inserted"}
    /\ AcknowledgeReceipt(c)
    /\ EnqueueWork(c)
    /\ Inside /\ UNCHANGED <<rows, sent, limited>>

\* Slip: the receipt is acknowledged only for rows that were written.
AcknowledgeSaved(c) ==
    /\ \/ GiveBack(c) /\ UNCHANGED <<faults, acked, unheard>>
       \/ step[c] = "inserted" /\ EnqueueWork(c) /\ AcknowledgeReceipt(c)
    /\ Inside /\ UNCHANGED <<rows, sent, limited>>

\* Slip: the enqueue loop runs in a goroutine, and the handler returns.
EnqueueInBackground(c) ==
    \/ GiveBack(c) /\ AcknowledgeReceipt(c) /\ Inside /\ UNCHANGED <<rows, sent, limited>>
    \/ /\ step[c] = "inserted"
       /\ Queue!Complete(c, "ok")
       /\ Goto(c, "idle")
       /\ todo' = [todo EXCEPT ![c] = Work(c)]
       /\ UNCHANGED <<signed, rows, acked, unheard, sent, limited>>

\* The receipt is acknowledged whether or not the insert succeeded.
Acknowledge(c) ==
    /\ step[c] \in {"insertFailed", "inserted"}
    /\ AcknowledgeReceipt(c)
    /\ GiveBack(c) \/ (step[c] = "inserted" /\ EnqueueWork(c))
    /\ Inside /\ UNCHANGED <<rows, sent, limited>>

\* Slip: the last retry is counted one too early.
RetryInsertOneLess(c) ==
    /\ step[c] = "retry"
    /\ Return(c, IF current[c].count + 1 < MaxRetries THEN "transient" ELSE "ok")
    /\ UNCHANGED <<rows, acked, unheard, sent, limited>>

\* Slip: the retry limit is never looked at.
RetryInsertForEver(c) ==
    /\ step[c] = "retry"
    /\ Return(c, "transient")
    /\ UNCHANGED <<rows, acked, unheard, sent, limited>>

\* A failed insert is tried again until the message has been received
\* MaxRetries times; then nil is returned and the message deleted.
RetryInsert(c) ==
    /\ step[c] = "retry"
    /\ Return(c, IF current[c].count < MaxRetries THEN "transient" ELSE "ok")
    /\ UNCHANGED <<rows, acked, unheard, sent, limited>>

EnqueueSucceeds(c, n) ==
    /\ step[c] = "enqueue" /\ n \in todo[c]
    /\ Queue!CallSucceeds(c)
    /\ sent' = [sent EXCEPT ![n] = @ + 1]
    /\ todo' = [todo EXCEPT ![c] = @ \ {n}]
    /\ Inside /\ UNCHANGED <<step, rows, acked, unheard, limited>>

\* Slip: a limited service ends the loop (break for continue).
EnqueueLimitedBreaks(c, n) ==
    /\ step[c] = "enqueue" /\ n \in todo[c]
    /\ limited' = limited \cup {n}
    /\ todo' = [todo EXCEPT ![c] = {}]
    /\ Inside /\ UNCHANGED <<faults, step, rows, acked, unheard, sent>>

\* The producer reports an exceeded service limit: a warning, and on with the
\* next item.
EnqueueLimited(c, n) ==
    /\ step[c] = "enqueue" /\ n \in todo[c]
    /\ limited' = limited \cup {n}
    /\ todo' = [todo EXCEPT ![c] = @ \ {n}]
    /\ Inside /\ UNCHANGED <<faults, step, rows, acked, unheard, sent>>

\* Any other error ends the handler and leaves the rest of the batch where it
\* is; SQS may have taken the message although the call failed.
EnqueueFails(c, n) ==
    /\ step[c] = "enqueue" /\ n \in todo[c]
    /\ Queue!Abort(c)
    /\ sent' \in {sent} \cup (IF cancelled[c] THEN {} ELSE {[sent EXCEPT ![n] = @ + 1]})
    /\ Goto(c, "idle")
    /\ todo' = [todo EXCEPT ![c] = {}]
    /\ UNCHANGED <<signed, rows, acked, unheard, limited>>

Finish(c) ==
    /\ step[c] = "enqueue" /\ todo[c] = {}
    /\ Return(c, "ok")
    /\ UNCHANGED <<rows, acked, unheard, sent, limited>>

Handle(c) ==
    \/ DecodeFails(c)
    \/ DropBadSignature(c)
    \/ PrepareFails(c)
    \/ InsertSucceeds(c) \/ InsertConflicts(c) \/ InsertFails(c)
    \/ Acknowledge(c)
    \/ RetryInsert(c)
    \/ \E n \in Notification :
          EnqueueSucceeds(c, n) \/ EnqueueLimited(c, n) \/ EnqueueFails(c, n)
    \/ Finish(c)

-----------------------------------------------------------------------------
(* The rest of the consumer's life.                                        *)

Send(b) == Queue!Send(b) /\ UNCHANGED <<signed, saveVars>>

VisibilityTimeout(b) == Queue!VisibilityTimeout(b) /\ UNCHANGED <<signed, saveVars>>

Receive(c, S) == Queue!Receive(c, S) /\ UNCHANGED <<signed, saveVars>>

Cancel(c) == Queue!Cancel(c) /\ UNCHANGED <<signed, saveVars>>

Exit(c) == Queue!Exit(c) /\ UNCHANGED <<signed, saveVars>>

Restart(c) == Queue!Restart(c) /\ UNCHANGED <<signed, saveVars>>

Crash(c) ==
    /\ Queue!Crash(c)
    /\ Goto(c, "idle")
    /\ todo' = [todo EXCEPT ![c] = {}]
    /\ UNCHANGED <<signed, rows, acked, unheard, sent, limited>>

Next ==
    \/ \E b \in Batch : Send(b) \/ VisibilityTimeout(b)
    \/ \E c \in Consumer :
          \/ \E S \in SUBSET Batch : Receive(c, S)
          \/ \E e \in batch[c] : Start(c, e)
          \/ Handle(c)
          \/ Cancel(c) \/ Exit(c) \/ Restart(c) \/ Crash(c)

Spec == Init /\ [][Next]_vars

\* Consumers keep running and are replaced when they have returned; a message
\* that is in flight comes back in time; and SQS does not pass over a visible
\* message for ever, however many others it hands out.
FairSpec ==
    /\ Spec
    /\ \A b \in Batch :
          /\ WF_vars(VisibilityTimeout(b))
          /\ SF_vars(\E c \in Consumer, S \in SUBSET Batch : b \in S /\ Receive(c, S))
    /\ \A c \in Consumer :
          /\ WF_vars(\E e \in batch[c] : Start(c, e))
          /\ WF_vars(Handle(c))
          /\ WF_vars(Exit(c)) /\ WF_vars(Restart(c))

-----------------------------------------------------------------------------
(* What the pipeline promises.                                             *)

\* n is in the hands of a handler that will still try to enqueue it.
InProgress(n) ==
    \E c \in Consumer : n \in todo[c] \/ (step[c] = "inserted" /\ n \in Work(c))

Dispatched(n) == sent[n] > 0 \/ n \in limited \/ InProgress(n)

\* Batches with a persisted notification that nobody will ever enqueue.
Stranded == {b \in Batch : \E n \in items[b] \cap rows : ~Dispatched(n)}

\* However often a save message is delivered, to however many consumers at
\* once, a notification gets at most one delivery message: only the handler
\* whose INSERT went through reaches the enqueue loop.
EnqueuedAtMostOnce == \A n \in Notification : sent[n] <= 1

\* A delivery worker never looks for a row that was never written: the
\* delivery message follows the commit.
EnqueuedIsPersisted == \A n \in Notification : sent[n] > 0 => n \in rows

\* A save message leaves the queue without its rows being written only if a
\* signature was bad or the message had been received MaxRetries times: the
\* whole batch is retried, with the consumer's back-off, and then given up
\* unsaved.  (notification-delivery-workers/spec.md, "SQLAlchemyError triggers
\* retry up to 5 times", has single notifications put back instead.)
DroppedOnlyAfterRetries ==
    \A b \in Batch :
        place[b] = "deleted" /\ signed[b] /\ ~(items[b] \subseteq rows)
            => received[b] >= MaxRetries

\* A signed batch that has left the queue, saved or given up, has left no
\* receipt in flight to bring it back, but where the acknowledgement itself
\* failed: no crash, shutdown, failed insert or second delivery costs it.
SettledIsAcknowledged ==
    \A b \in Receipted :
        place[b] = "deleted" /\ signed[b] => b \in acked \cup unheard

\* Rows that stay "created" for ever: each failed call and each crash or
\* shutdown of a consumer strands at most one batch, so without failures none
\* is stranded, whatever is delivered twice.
StrandedBoundedByFaults == Cardinality(Stranded) <= faults

\* A message that can be decoded is not handled for ever: it is deleted once
\* failures stop, even when every retry runs into its own earlier rows and
\* a message that cannot be decoded keeps coming back beside it.
EveryBatchSettles ==
    \A b \in Batch \ Unreadable : place[b] = "visible" ~> place[b] = "deleted"

\* A message that can be decoded is done with, one way or another, when it has
\* been received MaxRetries times: a handler that returns after that, and was
\* neither cancelled nor failed by a call, has the message deleted.
LastReceiveSettles ==
    [][\A c \in Consumer :
          (/\ phase[c] = "handling" /\ phase'[c] # "handling" /\ faults' = faults
           /\ ~cancelled[c] /\ current[c].msg \notin Unreadable
           /\ current[c].count >= MaxRetries)
          => place'[current[c].msg] = "deleted"]_vars

\* The save workers use the queue the way the consumer loop does.
UsesQueueConsumer == Queue!Spec

-----------------------------------------------------------------------------
(* What the documentation says of it.                                      *)

\* notification-delivery-workers/spec.md, "Persisted SMS notification is
\* enqueued to deliver-sms queue": when the save message is gone, every row
\* it left has been handed on or was held back by a limit.
PersistedIsEnqueued == \A b \in Batch : place[b] = "deleted" => b \notin Stranded

=============================================================================
