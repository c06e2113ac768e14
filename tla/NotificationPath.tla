-------------------------- MODULE NotificationPath --------------------------
(***************************************************************************)
(* The way of a notification through the workers of one process: the save  *)
(* consumer of SavePipeline writes its row and puts its message on the     *)
(* delivery queue of DeliveryQueue, where a delivery worker takes it up.   *)
(* WorkerManager starts the consumers of both queues and stops them.       *)
(*                                                                         *)
(* The save worker names the queue it sends to and the manager the queue   *)
(* it listens on; that the two names mean one queue is for the wiring to   *)
(* see to, and assumed here.                                               *)
(***************************************************************************)
EXTENDS DeliveryQueue

CONSTANTS
    Batch, items, Unreadable, Receipted,    \* the save queue, as in SavePipeline
    SaveConsumer, SaveMaxRetries

\* What SavePipeline assumes, of the names it is given here; and a manager
\* starts one consumer at least on every queue.
ASSUME PathAssumption ==
    /\ items \in [Batch -> SUBSET Notification]
    /\ Unreadable \subseteq Batch /\ Receipted \subseteq Batch
    /\ \A a, b \in Batch : a # b => items[a] \cap items[b] = {}
    /\ SaveMaxRetries \in Nat \ {0} /\ ReceiveCap >= SaveMaxRetries
    /\ \A e \in [msg : Batch, count : 1 .. ReceiveCap] : e # NoEntry
    /\ IsFiniteSet(SaveConsumer) /\ SaveConsumer # {} /\ Consumer # {}

VARIABLES
    savePlace, saveReceived, saveTimer, saveBatch, saveCurrent, savePhase,
    saveCancelled,              \* the save queue and its consumers
    signed, rows, acked, unheard, saveStep, todo, sent, limited

\* Instantiated with its theorems, which the proofs about the path cite.
Save == INSTANCE SavePipeline_proofs WITH
            Consumer <- SaveConsumer, MaxRetries <- SaveMaxRetries,
            place <- savePlace, received <- saveReceived, timer <- saveTimer,
            batch <- saveBatch, current <- saveCurrent, phase <- savePhase,
            cancelled <- saveCancelled, step <- saveStep

\* The two halves share nothing but the count of faults.
saveSide == <<savePlace, saveReceived, saveTimer, saveBatch, saveCurrent,
              savePhase, saveCancelled, signed, rows, acked, unheard, saveStep,
              todo, sent, limited>>
deliverySide == <<received, timer, batch, current, phase, cancelled, deliveryVars, kind>>
pathVars == <<faults, place, deliverySide, saveSide>>

PathInit == QueueInit /\ Save!Init

\* A step of the save side: where SQS takes a delivery message from it, the
\* message is on the delivery queue.
SaveSide(A) ==
    /\ A
    /\ place' = [n \in Notification |->
                    IF sent'[n] > sent[n] THEN "visible" ELSE place[n]]
    /\ UNCHANGED deliverySide

DeliverySide(A) == A /\ UNCHANGED <<kind, saveSide>>

\* WorkerManager.Stop cancels the one context all consumers were started with.
Stop ==
    /\ Queue!Fault
    /\ \A c \in Consumer : phase[c] # "stopped"
    /\ \A c \in SaveConsumer : savePhase[c] # "stopped"
    /\ cancelled' = [c \in Consumer |-> TRUE]
    /\ saveCancelled' = [c \in SaveConsumer |-> TRUE]
    /\ UNCHANGED <<place, received, timer, batch, current, phase, deliveryVars, kind>>
    /\ UNCHANGED <<savePlace, saveReceived, saveTimer, saveBatch, saveCurrent,
                   savePhase, signed, rows, acked, unheard, saveStep, todo, sent, limited>>

\* The process dies, or exits when Stop has waited long enough: what all of
\* its workers held in memory is gone, and they are started again.
Die ==
    /\ Queue!Fault
    /\ batch' = [c \in Consumer |-> {}] /\ saveBatch' = [c \in SaveConsumer |-> {}]
    /\ current' = [c \in Consumer |-> NoEntry] /\ saveCurrent' = [c \in SaveConsumer |-> NoEntry]
    /\ phase' = [c \in Consumer |-> "polling"] /\ savePhase' = [c \in SaveConsumer |-> "polling"]
    /\ cancelled' = [c \in Consumer |-> FALSE] /\ saveCancelled' = [c \in SaveConsumer |-> FALSE]
    /\ step' = [c \in Consumer |-> "idle"] /\ saveStep' = [c \in SaveConsumer |-> "idle"]
    /\ verdict' = [c \in Consumer |-> "created"] /\ todo' = [c \in SaveConsumer |-> {}]
    /\ unrecorded' = [n \in Notification |-> unrecorded[n] + Cardinality(Answered(n))]
    /\ UNCHANGED <<place, received, timer, status, accepted, callbacks, overtaken, kind>>
    /\ UNCHANGED <<savePlace, saveReceived, saveTimer, signed, rows, acked, unheard,
                   sent, limited>>

DeliveryNext ==
    \/ \E n \in Notification : VisibilityTimeout(n)
    \/ \E c \in Consumer : Around(c) \/ Deliver(c)

PathNext == SaveSide(Save!Next) \/ DeliverySide(DeliveryNext) \/ Stop \/ Die

PathSpec == PathInit /\ [][PathNext]_pathVars

\* Consumers keep running and are replaced when they have returned; a message
\* that is in flight comes back in time; and SQS does not pass over a visible
\* message for ever, however many others it hands out.
FairSave ==
    /\ \A b \in Batch :
          /\ WF_pathVars(SaveSide(Save!VisibilityTimeout(b)))
          /\ SF_pathVars(\E c \in SaveConsumer, S \in SUBSET Batch :
                            b \in S /\ SaveSide(Save!Receive(c, S)))
    /\ \A c \in SaveConsumer :
          /\ WF_pathVars(\E e \in saveBatch[c] : SaveSide(Save!Start(c, e)))
          /\ WF_pathVars(SaveSide(Save!Handle(c)))
          /\ WF_pathVars(SaveSide(Save!Exit(c)))
          /\ WF_pathVars(SaveSide(Save!Restart(c)))

FairDelivery ==
    /\ \A n \in Notification :
          /\ WF_pathVars(DeliverySide(VisibilityTimeout(n)))
          /\ SF_pathVars(\E c \in Consumer, S \in SUBSET Notification :
                            n \in S /\ DeliverySide(Receive(c, S)))
    /\ \A c \in Consumer :
          /\ WF_pathVars(\E e \in batch[c] : DeliverySide(Start(c, e)))
          /\ WF_pathVars(DeliverySide(Deliver(c)))
          /\ WF_pathVars(DeliverySide(Exit(c)))
          /\ WF_pathVars(DeliverySide(Restart(c)))

FairPath == PathSpec /\ FairSave /\ FairDelivery

-----------------------------------------------------------------------------
(* What the path as a whole promises.                                      *)

\* n has a row, nothing has become of it, and no message or handler is left
\* that would see to it.
Orphan(n) ==
    /\ n \in rows /\ status[n] = "created"
    /\ place[n] \in {"unsent", "deleted"}
    /\ n \notin limited /\ ~Save!InProgress(n)

\* From the row to the provider nothing gets lost but what a save worker has in
\* hand at a failed call, crash, shutdown or death of the process: each orphans
\* notifications of at most one batch for every save worker.
OrphansBoundedByFaults ==
    Cardinality({b \in Batch : \E n \in items[b] : Orphan(n)})
        <= faults * Cardinality(SaveConsumer)

\* A save message that can be decoded is not handled for ever: it is deleted
\* once failures stop, even when every retry runs into its own earlier rows
\* and a message that cannot be decoded keeps coming back beside it.
EveryBatchSettles == Save!EveryBatchSettles

\* A notification that has a row gets an outcome, unless a limit of its
\* service held it back, a failure orphaned it, or it is not Deliverable: its
\* attachment is never scanned, or its worker meets the same error every time.
EveryRowGetsAnOutcome ==
    \A n \in Notification :
        n \in rows /\ Deliverable(n)
            ~> status[n] # "created" \/ n \in limited \/ Orphan(n)

-----------------------------------------------------------------------------
(* What is seen of the path from outside.                                  *)

Life == INSTANCE NotificationLife WITH
            saved <- rows,
            queued <- {n \in Notification : sent[n] > 0},
            taken <- {n \in Notification : accepted[n] > 0},
            contested <- {n \in Notification : overtaken[n] > 0},
            outcome <- status

\* Whatever is retried, delivered twice or interrupted, a notification goes
\* through its life in order: no message without the row, no provider asked
\* without a message, no success in a row that no provider stands for, and no
\* second outcome unless a visibility timeout ran out under a worker.
FollowsLife == Life!Spec

=============================================================================
