# Verification of the notification API

The repository is a Go rewrite of a notification service: an HTTP API that
accepts texts and mails, workers that persist and deliver them, and the
administration of services, keys and providers.  This directory holds TLA+
modules of the parts in which order, failure and concurrency decide whether the
program is right, TLC configurations that check them on small instances, and
proofs, checked by TLAPS, for instances of any size.

    tlc -workers 2 -config ServiceRegistry.cfg MCServiceRegistry.tla
    tlapm ServiceRegistry_proofs.tla

Every definition that models code is tied to its lines in `PROJECT.json` under
`map`.  Definitions whose comment begins with *Slip:* are not part of any
specification: each is a plausible mistake in the operation that follows it,
and `mutants` says which property finds it.

## 1. Inventory

| part | where | state it keeps | operations |
| --- | --- | --- | --- |
| queue consumer, producer | `queue/` | the messages of SQS with their receive counts and visibility; a loop per goroutine with the batch it holds | receive, dispatch, delete, postpone, stop |
| save workers | `internal/worker/savenotify` | notification rows; Redis receipts; delivery messages | verify, prepare, bulk INSERT, acknowledge, enqueue |
| SMS delivery worker | `internal/worker/delivery/deliver_sms.go` | status of the row; callbacks; the provider's memory of what it sent | load, render, send, record, toggle, retry, report |
| email delivery worker | `internal/worker/delivery/deliver_email.go` | the same, malware scans, bounce rates | the same, attachments |
| worker manager | `internal/worker/manager.go` | one goroutine per consumer, a cancel function | start, stop with a timeout |
| provider details | `internal/repository/providers`, `internal/service/providers`, `internal/handler/providers` | `provider_details` and its history | update, switch, toggle, choose |
| service registry | `internal/repository/services/dao.go` with `api_keys` and `templates` | services, keys, templates and their histories | create, update, suspend, resume, archive; create and revoke a key |
| senders, reply-tos, letter contacts | the same `dao.go` | one table per kind, one default per service | add, update, archive |
| service callbacks | the same `dao.go` | callback and inbound rows with signed tokens, history | save, reset, suspend, delete, re-sign |
| authentication | `internal/middleware/auth.go`, `internal/service/auth` | a Redis copy of each service and its keys, 30 s | look up, fill, verify |
| rate limiter | `internal/middleware/ratelimit.go` | token buckets by client | allow |
| provider clients | `internal/client` | none | one call each |
| signing, encryption, text | `pkg/` | none | pure functions |
| administration handlers | `internal/handler` | none | parse, call, render |
| generated repositories | `internal/repository/*/*.sql.go` | the database | one statement each |
| configuration, migration, start | `internal/config`, `internal/migrate`, `cmd` | none after the start | - |

How they meet: a save message carries a batch of signed notifications; the save
worker writes their rows and puts one message per notification on a delivery
queue; the delivery worker reads the row, calls the provider chosen from
`provider_details`, writes the outcome back and enqueues a callback.  A failed
text makes it toggle the providers.  The administration handlers change services,
keys and providers in the database that the workers and the authentication read.
There are no callbacks inside a process and no shared memory between consumers
but for the database, Redis and SQS.

What is hard here, each part with what makes it right:

* **queue**: a message is delivered at least once, comes back when its handler
  is slow, when deleting it fails, when the process dies.  Right: nobody else
  deletes it, each outcome of the handler does to the message what the loop says.
* **save workers**: the INSERT commits before the enqueue loop, and nothing ties
  them together.  Right: one delivery message per notification, after its row;
  nothing given up before the retries are used up; nothing retried for ever.
* **SMS delivery**: the status is checked before the provider is called and
  written after.  Right: one text per person but for the attempts that could not
  be recorded, an outcome that stands, a failure the service hears of once, a
  message deleted only when the row tells the outcome.
* **provider details**: three statements per update, none in a transaction.
  Right: every version in the history, a switch that has the effect it says.
* **service registry**: an UPDATE writes all columns of a row read earlier.
  Right: no change is lost, the history is complete, an archived service has no
  usable key and no open template, requests end and never wait for
  each other in a circle.
* **senders and reply-tos**: a request decides on a list that it reads without a
  lock, and writes whole rows.  Right: one default, which another may be chosen
  to replace; a number that stays with its sender; requests that do not wait for
  each other for ever.
* **email delivery**: as for texts, with an attachment that may be scanned for ever
  and a bounce-rate store that is told after the row is written.  Right: the same
  promises, although an error after the send gives the message back.
* **the path through both workers**: nothing ties the row to the delivery message or
  the delivery message to the outcome.  Right: whatever has a row gets an outcome, but
  for what the save workers had in hand when a call failed or the process was stopped; seen
  from outside, a notification goes through its life in order.
* **callbacks**: rows are read without a lock, written back by type, and re-signed in
  bulk while the secrets change from process to process.  Right: a row that comes back
  is the newest state of its id, a token stays with its callback and can be read.
* **authentication**: decides on a copy that is filled by three reads from a replica and
  that nobody invalidates.  Right: how stale a decision can be has a bound.

The points at which this code can go wrong where a test would hardly look are
listed in `PROJECT.json` under `hazards`, with the properties that cover them.

## 2. Modules

    QueueConsumer <-- INSTANCE -- SavePipeline   <-- MCSavePipeline, SavePipeline_proofs
         ^                             ^
         |                             '-- INSTANCE (with its proofs) -- NotificationPath
         |                                                               |  |   ^
         '------- INSTANCE -- DeliveryWorker          .----- EXTENDS ----'  |   '-- MCNotificationPath,
                               ^         ^            v                     |       DeliveryQueue_proofs
                        SmsDelivery  EmailDelivery <- DeliveryQueue         '-- INSTANCE -> NotificationLife
                                                      ^
                                                      '-- MCDelivery
    ServiceRegistry  <-- MCServiceRegistry, ServiceRegistry_proofs
    ServiceCallbacks <-- MCServiceCallbacks, ServiceCallbacks_proofs
    ServiceAuth      <-- MCServiceAuth, ServiceAuth_proofs
    SenderDefaults   <-- MCSenderDefaults, SenderDefaults_proofs
    ProviderSwitch   <-- MCProviderSwitch, ProviderSwitch_proofs

### QueueConsumer: the abstract consumer

SQS and the loop of `SQSConsumer.Start`.  `place`, `received` and `timer` are
what SQS knows of a message; `batch`, `current`, `phase` and `cancelled` are the
local variables of the loop.  `Receive` is `ReceiveMessage`, `Take` the call of
the handler, `Complete` its return with one of the three outcomes the loop tells
apart (nil deletes, a `TransientError` changes the visibility, any other error
does nothing), `Cancel` and `Exit` are `Stop` and the check at the top of the
loop, `Crash` and `Restart` the process.  A call that fails does so from a budget
of `MaxFaults`; once the context is cancelled, every call that takes it fails.
What the handler does is left open, so that the module is the abstract
specification for all workers.

### SavePipeline: the save workers

`Handle` of `savenotify/worker.go`, one action per call that leaves the process:
`InsertSucceeds`, `InsertConflicts`, `InsertFails`, `Acknowledge`, `RetryInsert`,
`EnqueueSucceeds`, `EnqueueLimited`, `EnqueueFails`, `Finish`, and the early
returns `DecodeFails`, `DropBadSignature`, `PrepareFails`.  The INSERT is one
statement: all rows or none, and none when one of the ids is there.  A failing
call may have taken effect.  `AcknowledgeReceipt` is skipped where there is no receipt or
nobody to tell (not in `Receipted`); where the call fails the worker logs it and goes on:
`acked` has what Redis has taken, `unheard` the batches whose acknowledgement failed under
a running consumer.  What is in a notification does not matter and is a
model value; whether its signature is good is chosen per batch in `Init`.

### DeliveryWorker, SmsDelivery, EmailDelivery, DeliveryQueue: the delivery workers

`DeliveryWorker` has what the two workers have in common, one action per call that
leaves the process (`NotFound`, `Skip`, `GoOn`, `Accept`, `Reject`, `ProviderFails`,
`Record`, `RecordFails`, `Retry`, `EnqueueDeliveryStatusCallback`, ...), the consumer
around them, and the properties.  `SmsDelivery` is `SMSWorker.Deliver`: after a provider
error the billable units are written, the providers toggled, and only then the retry
limit is looked at; a technical failure is an error for the queue as well.
`EmailDelivery` is `EmailWorker.Deliver`: personal data, attachments and their scan before
the provider; the retry limit without a write; the bounce-rate store after the row.
`DeliveryQueue` is a queue of either kind with its workers.

`verdict` is the status a handler is about to write; `accepted`, `callbacks`, `unrecorded`
and `overtaken` count what the worker did to the outside world.  The repository has no
code between the consumer and `Deliver` (the handlers of the delivery queues are not
registered: `cmd/worker/main.go` starts the manager with handlers that do nothing,
the save workers' included); the model assumes that the receive count less one is `retries` and
that the error is handed on, `RetryOutcome` being the one choice left.  Where a scan
ends after all (not in `Unscanned`), each "in progress" is drawn from the faults, so that
the instance stays finite.

An error may last.  A row without a service, a content that cannot be rendered, a type of
message for which no provider is active or whose client is of the wrong kind, an attachment
that cannot be had and providers that cannot be switched are errors on every retry, which both
workers return before they look at the retry limit (`deliver_sms.go:124-126`, 130, 137-140, 148-149,
156-163, 216-219; `deliver_email.go:146-148`, 158-166, 206, 209-217).  `ErrorLasts` is this step,
of the notifications in `Broken`, as often as they are handled and at no cost in faults;
`CallFails` and `ToggleFails` are the errors that pass.  So a message can be retried for ever
for three reasons, which `Deliverable` excludes: no row (`Unfound`), an error that lasts
(`Broken`), an endless scan (`Unscanned`).

The worker for throttled texts (`deliver_throttled_sms.go`) has no module of its own: it waits for a
token and calls the same `Deliver`, and its wait can fail only when the context is cancelled, as
`CallFails` of a cancelled consumer does.

### NotificationPath: both workers in one process

`SavePipeline` and `DeliveryQueue` side by side: `SaveSide` puts a message on the delivery
queue where the save worker's `SendMessage` succeeds, and `Stop` is `WorkerManager.Stop`,
which cancels the one context all consumers share.  `Die` is the end of the process, by a
crash or because `Stop` has waited for `shutdownTimeout`: every consumer of both queues loses
what it had in memory.  Apart from this each consumer can crash and restart alone, as
consumers may run in different processes.
The queue names (the save worker sends to `send-sms-high`, the manager listens on a
prefix and that name) are wiring, and assumed to meet.

`NotificationLife` is the abstract specification of the path, in terms a service could
observe: the rows of a batch are committed together and once; a notification with a row gets
one message; only then may a provider take it; a row tells of a success only where a provider
took the notification; an outcome stands unless a visibility timeout ran out under a worker.
`FollowsLife` maps the path to it (`rows`, `sent`, `accepted`, `overtaken`, `status`); which
consumer did what, the receive counts, the retries and the faults are not seen.

### ServiceRegistry: transactions on one service

`UpdateService`, `SuspendService`, `ResumeService`, `ArchiveService`,
`RevokeAPIKey` and `CreateAPIKey` of `dao.go`, one action per statement.  The
transaction is READ COMMITTED: a row that a transaction changed stays locked
until it ends (`HoldsService`, `HoldsKey`, `BlocksNewKeys`), what it wrote is seen
by nobody until `Commit`, a statement sees what was committed before it.
`services_history` has `(id, version)` as its key, which is what
`InsertServicesHistory` and `HistoryConflict` tell apart.  A row carries its author,
so that two rows with one version made from one row are different rows.
`CreateAPIKey` is two statements that commit one by one, as in the code.

### ProviderSwitch: providers without a transaction

`updateProviderByID`, `SwitchSMSProviderToIdentifier` and
`ToggleSMSProviderByIdentifier`: a request is a list of updates, each one a read, a
write of the whole row and a history row, and everything commits as it goes.  The
rows of both SMS providers start with any priorities.  `Candidates` is what
`ProviderToUse` leaves of the active providers for a text, depending on recipient
and template.  `disturbed` remembers the requests during which another wrote.
`TwoProviders` is what the code has: clients for texts exist for two providers
(`internal/client`).  With a third whose priority ties with that of the provider switched
to, `SwitchTakesEffect` would not hold in general, as the switch moves only two rows.

### SenderDefaults: one default among several rows

The text senders or the reply-to addresses of one service (`table`), which the same
statements write: `AddSmsSenderForService`, `UpdateServiceSmsSender`,
`UpdateSmsSenderWithInboundNumber`, `ArchiveSmsSender`, `AddReplyToEmailAddress`,
`UpdateReplyToEmailAddress` and `ArchiveReplyToEmailAddress` of `dao.go`.  Each is the
first step of a transaction: it reads the list (`seen`), decides, and leaves in
`todo` the rows to write, those that lose the default (in any order, as rows
created in the same second are listed in any) and its own.  `WriteRow` is the
`UPDATE` or `INSERT` of one row and waits for its lock, `AddInboundNumber` assigns the
number, `Commit` makes everything visible.  A row that loses the default is written
as it was read (`Cleared`); the update that the handler makes carries no number, and
so takes one away (`OwnRow`).  `DeadlockAbort` is PostgreSQL undoing one of several
transactions that wait for each other.  Requests are numbered in the order in
which they read, which leaves out nothing but their renamings.

### ServiceCallbacks: rows, history and signatures

`Save`, `Reset`, `Suspend` and `Delete` of a callback or inbound row and
`ResignServiceCallbacks`, on rows by their id.  A call is three steps.  It first takes a row in hand
(`Hold`): `Reset` and `Suspend` read it without a lock, `Save` makes a new one.  `Upsert` is
the statement: as it returns a row only where it inserts one, a call that finds a row of its slot is rolled
back, and one that finds none goes on with its own row, inserted and seen by nobody.  `Commit` is the history insert
and the commit, which the keys of the schema decide (`Admits`): the id, the callback type (`Unique`), and
the id and version of the history.

On the service of an inbound row there is no key: `service_inbound_api` of `db/migrations/0001_initial.up.sql`
has a primary key on `id` (1177) and indexes that are not unique (1457).  Two saves whose statements both see no row
commit both, the model has both rows, and what is checked and proved holds of each.  (The unique index
that `spec/out.sql:4315` shows is in a dump of the original database; no migration of this repository makes it.)

Each process has a list of secrets, of which the first signs and all are accepted; `Deploy`
moves one process on to the next list.  That a secret is accepted everywhere before anybody
signs with it, and dropped only after the tokens were re-signed, is how the secrets
have to be rotated, an assumption on the operator and not in the code.

### ServiceAuth: a copy that nobody invalidates

`RequireAuth` for the two kinds of credential.  `log` is the sequence of states the primary has
had, with their times; `Visible` is what a read from the replica may return.  A request
looks into Redis (`Hit`), or reads the service and then its keys (`ReadService`,
`ReadKeys`), each from its own moment, and stores the copy (`Store`), over whatever is
there by then.  `since` is a ghost: when the first of the reads began.

## 3. Runs

Each run states what it asks in `PROJECT.json`; this is what it shows.

| run | instance | properties | result |
| --- | --- | --- | --- |
| `save_safety` | 2 consumers, batches of 2 and 1 notifications, a batch that cannot be decoded, `MaxRetries` 2, 2 faults; 2.1 million states up to symmetry | `TypeOK`, `EnqueuedAtMostOnce`, `DroppedOnlyAfterRetries`, `SettledIsAcknowledged`, `StrandedBoundedByFaults`, `LastReceiveSettles` | hold |
| `save_stranded` | 1 consumer, 1 fault | `PersistedIsEnqueued` | violated |
| `delivery_safety` | texts or mails, 2 consumers, a real and a simulated notification, `MaxRetries` 1, 2 faults, 1 overtaking; 2.1 million states up to symmetry | `TypeOK`, `SentOnceButForLapses`, `DeletedIsFinal`, `CallbackTellsTheTruth`, `SilentBoundedByFaults`, `FinalStatusStands`, `UsesQueueConsumer` | hold |
| `delivery_liveness` | texts or mails, 1 consumer, a notification beside one without a row, with an error that lasts and with an endless scan, `MaxRetries` 1, 1 fault, 1 overtaking; 86,650 states | `EveryNotificationSettles` | holds |
| `notification_path` | 1 consumer on either queue, a batch of one notification, a batch that cannot be decoded, 2 faults; 83,305 states | `OrphansBoundedByFaults`, `FollowsLife`, `EveryBatchSettles`, `EveryRowGetsAnOutcome` | hold |
| `service_registry` | 3 requests, 2 keys, 2 templates, 1 fault; 83,309 states | `HistoryIsComplete`, `KeysAreRecorded`, `NoLostUpdate`, `ArchivingRetiresAll`, `NobodyWaitsInACircle`, `EveryRequestEnds` | hold |
| `service_archiving` | 2 requests, no fault | `ArchivingSucceeds` | violated |
| `service_callbacks` | 2 processes, 2 callbacks, 2 ids, 2 texts, 3 versions, 2 secrets in 4 lists, up to 2 inbound rows; 1.9 million states up to symmetry | `TypeOK`, `LiveIsNewest`, `TokenIsItsOwn`, `TokensStayReadable` | hold |
| `callback_update` | the same without a rotation | `UpdateTakesEffect` | violated |
| `service_auth` | 2 requests at a time, 1 key, `TTL` 2, `Lag` 1, 4 ticks, 2 changes; 5 million states up to symmetry | `AcceptedWasAllowed`, `RefusedWasBarred` | hold |
| `provider_switch` | 3 requests, 2 providers, 1 fault; 664,333 states up to symmetry | `TypeOK`, `VersionsAreRecorded`, `HistoryTellsRow`, `SwitchTakesEffect` | hold |
| `sender_defaults` | 3 requests, 3 rows, 1 number, 1 fault; 175,373 states | `TypeOK`, `CarriedNumbersAreAssigned`, `OneDefaultKept`, `ChoosingADefaultRepairs`, `NumberedSendersStay`, `EveryRequestEnds` | hold |

The violated properties state what a document of the repository says and the
code does not do; `findings` quotes the line.

* *Stranded rows.* A failing enqueue, or a crash, after the INSERT has committed:
  the message comes back, its INSERT conflicts with its own rows, and after the
  last retry it is deleted.  The rows stay `created`.  `StrandedBoundedByFaults` and, along
  the whole path, `OrphansBoundedByFaults` show the other side: nothing but a fault
  strands a batch, and each fault at most one for every save worker it falls on: a failed call
  falls on one, `WorkerManager.Stop` and the death of a process on all of them at once.
* *Archiving.* A template is archived without a new version, and then its old
  version is inserted into the history a second time: the archiving is undone.
* *Updated callbacks.* Wherever the row is there, the upsert updates it and returns
  nothing, which its caller takes for an error and rolls back.

More departures from the documents were met while modelling and have no run of their own,
mostly because a property that holds says what remains:

* a failed bulk INSERT is to put single notifications back on the queue, with a back-off of 300 s
  (`openspec/specs/notification-delivery-workers/spec.md:37-39`); the code gives back the whole batch, with
  the back-off of the consumer, and deletes it unsaved at the fifth receive
  (`DroppedOnlyAfterRetries`: never before; `LastReceiveSettles`: not after);
* the receipt is to be purged, after a failed INSERT too (`spec.md:41-47`); where Redis fails, the worker
  logs it and the receipt stays in flight behind a deleted message (`SettledIsAcknowledged`: there only);
* `Stop` is to let the message in hand complete (`spec.md:312-314`); it cancels the context that the
  handlers make their calls with, so that what is in hand fails at its next call (`Stop`, `Cancel`; what that
  costs is counted by `StrandedBoundedByFaults`, `SilentBoundedByFaults`, `OrphansBoundedByFaults`);
* a service is to have one inbound API at most (`openspec/changes/service-management/brief.md:546`); two
  saves that overlap leave two rows (`LiveIsNewest`, `TokenIsItsOwn`: each is still what was recorded);
* a failed callback enqueue leaves a failure unreported (`SilentBoundedByFaults`: one per
  fault, and one per worker for a fault that falls on all);
* two requests that both read the list before either commits leave two default senders or
  none (`OneDefaultKept`, `ChoosingADefaultRepairs`: a request that commits on the list
  it read keeps or restores the one default);
* the toggle after a failed text promotes the provider that failed, when that was
  not the current one, although the documents call it a no-op;
* the cache entry of a service is to be deleted when a key is revoked, and nothing but
  tests calls `Invalidate` (`AcceptedWasAllowed`: a revoked key works for a lifetime of the
  entry, its age when it was stored and the lag of the replica, and no longer).

### Bounds, and why they are enough

* Retries (`maxSaveWorkerRetries` 5, `maxSMSRetries` 48) are 1 to 3.  The code only
  compares the count with the limit; an instance needs a retry before the limit,
  one at it, and one past it (the receive count goes on after the limit when the
  delete fails).  The receive count saturates at `ReceiveCap`, which
  `SaveAssumption` and `DeliveryAssumption` keep large enough to tell the last
  retry from those before.
* Messages per receive (10) are 2, all that are ever on the queue.
* `MaxFaults` bounds failing calls, shutdowns and crashes taken together.  Two are
  needed to break the second attempt at what the first one left half done.
* `MaxOvertakes` bounds how often a visibility timeout ends while the message is
  held; one overtaking is what makes two workers handle one notification.
* In `notification_path` (`Apart` in its MC module) the batch that cannot be decoded is sent only where
  nothing goes on to the delivery queue: what it could disturb is its own consumer, and the
  product of both would be too large.
* `notification_path` has one save worker and one delivery worker, so that its bound on orphans is the
  number of faults.  The theorems have any number of both; the invariant they rest on and `FollowsLife` were also
  checked by TLC with two delivery workers, one overtaking and two faults (1.6 million states).
* In `save_safety` (`Apart` in its MC module, a state constraint) the batch that cannot be decoded shares
  the queue with the batch of two notifications or has it to itself; it does not meet the third.
* In `service_auth` a key that is revoked cannot come back, so that one key shows all
  a second would; the clock runs for two lifetimes of an entry.  Clocks are one clock: skew between
  the API, Redis and PostgreSQL would add to the bounds.
* In `service_callbacks` three versions let a row be read, deleted, brought back and read again.
  Four lists are the whole life of a rotation: old, both, both the other way round, new.
* Two consumers: every hazard listed is between two of them.  Three requests in the
  registry and in the provider table: one reads, one writes, one does so after it.
* Three requests on three rows in `sender_defaults`: two can overlap and leave two
  defaults, two can wait for each other, and the third finds what they left.
* The consumers and the notifications of one batch are interchangeable, and so are
  the requests in `provider_switch` and `service_auth` and the processes, texts and ids in
  `service_callbacks`; the symmetry is used where no liveness is checked.
* `CHECK_DEADLOCK FALSE` throughout: when all messages are deleted or all
  requests are over, there is nothing left to do.

### Fairness

* `VisibilityTimeout` is weakly fair: SQS makes an in-flight message visible when its
  time is up.
* Receiving a given visible message is strongly fair: SQS does not pass over a
  message for ever, though a consumer may be away from the queue again and again
  while it handles others.  Weak fairness would not do, as a consumer with a
  message in hand cannot receive.
* A consumer that has a batch takes the next message, the handler makes its next
  call, a cancelled consumer returns, and a returned one is replaced by the
  platform: weakly fair each.  No fault, shutdown or crash is fair.
* In the registry each request goes on to its next statement (`Proceed`), unless
  it waits for a lock.  A lock is held by a transaction that itself goes on, which
  is what `EveryRequestEnds` shows: no order of statements makes two wait for each other.
* In `SenderDefaults` two requests can wait for each other; `Proceed` then holds of
  the deadlock detection, which PostgreSQL runs after a second of waiting.

## 4. Proofs

TLAPS proves these for every number of consumers, messages, requests, keys,
templates and faults, from the named assumptions on the constants.

`SavePipeline_proofs`, from `SaveAssumption` (batches are disjoint, and the
saturating count still reaches the limit):

* `TypeCorrect`: types, and that a handler's local state exists only while it runs.
  It rests on the lemmas of `QueueConsumer`, each action of the loop keeping the
  types of the loop's own variables.
* `AtMostOneDeliveryMessage`, `DeliveryFollowsPersistence`.  "At most one message" is not
  inductive: a handler in the enqueue loop must be known to be the only one
  that ever comes there.  `OwnerInv` says so: whoever is past a successful INSERT
  owns its batch (its rows are there, so that nobody else's INSERT can succeed),
  no two own one batch, and what an owner has still to enqueue has no message.
* `NoEarlyDrop`: `DropInv` adds that the count a consumer carries is never larger than
  the receive count of SQS, so that a decision taken on the carried count is still
  justified when the message is deleted, by whichever consumer.
* `SettledMeansAcknowledged`: a signed batch that is off the queue has no receipt in flight, unless the
  acknowledgement itself failed.  A message is deleted only behind its handler, and on every way through the
  handler a signed batch comes by `Acknowledge`; the invariant carries this from there to the deletion, through
  retries by other consumers.  A cancelled handler is not heard by Redis either, and then cannot delete.
* `FaultsBoundStranding`: a batch is stranded long before anybody can see it.  `Endangered` adds to the
  stranded batches those that a handler or a redelivery is bound to strand, and every
  step that adds one to them is `Charged` with a fault.
* `ImplementsQueueConsumer`: every action of the handler is a step of the abstract
  consumer (`Complete`, `Abort` or `HandlerFault`) or leaves the queue alone.  A theorem only: as the handler is
  built from the consumer's steps, a run would show little.
* `SettledInTime`: a handler that returns when its message has been received `MaxRetries` times, and was
  neither stopped nor failed by a call, has the message deleted, whatever its earlier rows make of the INSERT
  (`LastReceiveSettles`).

`DeliveryQueue_proofs`, from `DeliveryAssumption`, for texts and mails alike:

* `TypeCorrect`, and `WorkersUseTheQueue`, by which every action of either worker is a step of the
  abstract consumer or leaves it alone.
* `DeletionIsFinal`, `CallbacksAreTrue`, `OutcomesStand`.  The two workers have some twenty actions,
  but what each may do to a row, a callback and the queue has one of a few shapes, stated
  once as lemmas; then the invariant `IInv` is shown to be kept shape by shape.
  `OwnerInv` says that whoever is between the row's status check and its write is the only one,
  unless a visibility timeout has lapsed under it; `Recorded` that a handler past the
  write carries what the row says; `Fate` that a message whose handler will answer "ok" has an outcome.
  For the callbacks `ReportInv` counts those about to be enqueued with those that are: together at most one,
  and one more for each overtaking.
* `TakenOnce`.  How often a provider took a notification is a count over all consumers: `Accounted`
  adds to the attempts recorded, unrecorded and overtaken those that hold the message at
  present (`CountInv`), and this needs finitely many consumers (`ConsumersAreFinite`).
* `FaultsBoundSilence`: in the same way, a failure whose reporter has been cancelled counts as
  silent already, and every step that adds one costs a fault.
* `NoSuccessIsInvented`: behind each success a row tells of is a provider that took the notification, also where
  a worker was overtaken.  `Vouched` adds the handlers that are about to write one.
* `TextsAreDecided`: the last retry of a text ends with an outcome in its row, if its row is found and the
  handler meets no fault (`LastRetryDecides`); of texts only, as a mail whose scan goes on is retried past the
  limit.  `RetriesLeft` says that only `Toggle` leads to a retry, behind a look at the count.

The same module goes on to `NotificationPath`, from `PathAssumption` as well, which gives the two halves
their constants and says that each queue has a consumer.  `NotificationPath` instantiates the save
workers together with their theorems, so that the lemmas proved of `SavePipeline` are cited for the
steps of the path that are steps of it:

* `PathInductive`: `PathInv` joins the invariants of the halves (`SaveInv`, `IInv`, `CountInv`) and adds what ties
  them together: a message is on the delivery queue exactly if the save worker sent it (`Linked`), a
  notification without a message is untouched (`Untouched`), and the stranded batches and silent failures are counted against the
  faults that both halves share (`StrandingInv`, `SilenceInv`).
* `OrphansAreBounded`.  The first attempt at this proof failed, and rightly: the property was stated with one
  batch per fault, and with two save workers TLC finds two batches orphaned by one `Stop`, since every consumer runs on the one
  context that it cancels.  With one save worker, as in the run, the two bounds are the same.  The bound is now the number of
  faults times that of the save workers, and `SilenceIsBounded` says the same of unreported failures and the delivery workers.
* `DeliveryFollowsTheRow`, `SavePromisesAlongThePath`, `DeliveryPromisesAlongThePath`, `OutcomesStandAlongThePath`:
  what is proved of each half alone holds of it inside the process, with the
  shutdowns and deaths that fall on both halves at once.
* `PathFollowsLife`: the path implements `NotificationLife`.  Every action of either half is one step of the life or a
  stutter; that a handler is at work only where the life allows it comes from `Fate` and `OwnerInv`, that a success is vouched
  for from `Vouched`, that rows come in whole batches from the INSERT.

`ServiceCallbacks_proofs`, from `CallbackAssumption` and `AbsentAssumption`:

* `TypeCorrect`, `LiveRowsAreNewest`, `TokensAreTheirOwn`, with any number of rows of a slot that is not in
  `Unique`.  A call carries a row from its read to its commit while the row may be deleted, brought back and deleted
  again.  The invariant says that what a call carries follows a recorded state of the same id (`Follows`) or has an id
  that nothing recorded and no other writing call knows (`IsNew`), and that its version is recorded already or newer than
  all that is; whichever call then finds its version not recorded carries the newest.  What `Upsert` sees of other rows does
  not matter to this, only the keys that `Commit` meets.
* `TokensReadable`, for every rotation of the four lists old, both, both the other way round, new
  (`RotatesInOrder`).  `RotInv` follows the whole rollout: no process is two lists ahead of
  another, nothing is signed with the new secret while one still does not accept it
  (`NotTooEarly`), the last re-signing has in hand every token with the old one
  (`LastHasTheRest`), and only behind it is the old one dropped (`NotTooLate`).

`ServiceAuth_proofs`, from `AuthAssumption` and `NothingAssumption`:

* `TypeCorrect`, `AcceptanceIsRecent`, `RefusalIsRecent`.  The invariant (`Backed`) says of
  everything a request or the cache holds that the log has a state that backs it and that was the
  newest no longer ago than `Lag` before the first read; time and further commits only move the
  window, and the bounds follow where a request is answered.

`ServiceRegistry_proofs`, from `RegistryAssumption`:

* `TypeCorrect`: types, and that uncommitted work is held only inside a transaction.
* `HistoryComplete`, `NoUpdateIsLost`.  The UPDATE has no version in its WHERE; what
  stops a stale writer is the key of the history, and only because the lock on
  the row is held until the commit.  The invariant `IInv` says this: at most one
  request holds the row, every base is a row of the history, and a holder past the
  history step carries the version after the newest one.  As the history holds
  each version once, the row it started from is the present one.
* `NoDeadlock`: a request that waits for a key may hold the service, one that waits for the service holds nothing
  (`LocksInOrder`); so the longest chain of waiting requests has two links, and none closes.
* `KeysRecorded`: a key whose history row is missing is in the hand of the creation that is between
  its two statements, or has cost a fault (`KeyInv`).
* `ArchivingIsComplete`: between the list of keys and the commit no key can be added that the
  archiving does not know, as a creation waits for the lock; all that are usable are in hand
  (`Retires`).

`SenderDefaults_proofs`, from `SenderAssumption`, which is where `Contact` is finite:

* `TypeCorrect`: types, and that uncommitted rows are held only inside a transaction.
* `OneDefaultStays`, `ChoosingRepairs`, `NumberedStay`, `NumbersAreAssigned`.  What a
  commit does to the list depends on statements issued long before it.  The invariant
  `IInv` says that it was settled when the list was read: what a request has written
  and has still to write is together the rows that lose the default and its own
  (`Plan`), each written as that list and the request determine (`FollowsPlan`),
  the checks hold of that list whatever the rows have become (`HasChecked`), and the
  numbers on it are known (`NumbersKnown`).  When the list is still the one that was
  read, the committed rows follow.

`ProviderSwitch_proofs`, from `ProviderAssumption`, `TwoProviders` and `RequestsAreFinite`:

* `TypeCorrect`, `VersionsRecorded`, `HistoryTells`, `SwitchesTakeEffect`.  Nothing is a transaction, so
  that of a row little can be said.  The invariant says that every version that was ever
  handed on is recorded, in the hand of a request between its two writes, or one of those
  that faults have cost (`Accounted`); that a request nobody disturbed still finds the rows
  as it read or wrote them (`OwnRows`) and what is left of its plan fits them (`Planned`); and that while
  no two requests met and nothing failed, the histories end in their rows (`Calm`).

Only model-checked: liveness under fairness (`EveryBatchSettles`, `EveryNotificationSettles`,
`EveryRowGetsAnOutcome`, `EveryRequestEnds`), which is beyond these provers.  Every invariant and every action or
refinement property of a passing run is a theorem.

## 5. What is left out

* The text of messages, templates, addresses and signatures; rendering and
  logging; statistics and metrics.  No property here depends on them.
* Time in seconds.  `timer` remembers what delay was asked for, and
  `backoffSeconds` is computed as in the code, but a message may return at any
  moment: SQS promises nothing firmer to a consumer that is slow.
* Queue names.  The manager prefixes the names it consumes from, the save worker
  does not prefix those it sends to; what joins them is configuration.
* The generated repositories but for the statements named in `map`, most of which
  have no caller yet; the HTTP handlers, which parse, call and render; the
  provider clients, which turn a failure into a type; rate limiting, which is a
  library behind one mutex.
* In `SenderDefaults`: the text of a sender.  Taking the default from a row writes back the
  text that was read, too, and so can undo a renaming that overlaps.  Letter contacts,
  whose handlers answer that they are not implemented.
* In `ServiceAuth`: the routes with a fixed issuer, which read no state; malformed, expired and
  badly signed credentials, which are refused before anything is read; permissions, which are
  loaded and decide nothing here.
* In `ServiceCallbacks`: the URL checks of the handlers, the dry run of re-signing.
* In the registry: the replica lag of reads (a stale read is modelled for
  `UpdateService`, whose caller reads beforehand), permissions, safelists.

## 6. Plan

Done, in this order: `QueueConsumer`, `SavePipeline` and its proofs, the SMS worker,
`ServiceRegistry`, `ProviderSwitch` and `SenderDefaults` with their proofs, the email
worker and the delivery queue with their proofs, `NotificationPath`, `ServiceCallbacks` and
`ServiceAuth` with their proofs, `NotificationLife` and the proofs about the path.  What would come next:

1. Members of a service with their permissions, and letter contacts, once something calls them.
2. The handlers of the delivery queues, once they are registered: then `Retries` and
   `RetryOutcome` have code to be translated from.
3. An abstract specification of the registry (a service as a sequence of versions) that `ServiceRegistry`
   implements, as the path does `NotificationLife`.
