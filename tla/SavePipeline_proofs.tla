------------------------ MODULE SavePipeline_proofs ------------------------
(***************************************************************************)
(* Proofs about SavePipeline, for any number of batches, notifications and *)
(* consumers and any bound on failures.                                    *)
(***************************************************************************)
EXTENDS SavePipeline, FiniteSetTheorems, TLAPS

USE SaveAssumption DEF Inside, Goto, Decoded

-----------------------------------------------------------------------------
(* Types.                                                                  *)

\* A handler that has begun works on an entry of a received message.
LEMMA HandlingAnEntry ==
    ASSUME TypeOK, NEW c \in Consumer, step[c] # "idle"
    PROVE  /\ current[c] \in Queue!Entry
           /\ current[c].msg \in Batch
           /\ Work(c) \in SUBSET Notification
<1>1. current[c] \in Queue!Entry
  BY DEF TypeOK, Queue!TypeOK
<1> QED
  BY <1>1 DEF Queue!Entry, Work

LEMMA ReturnTyped ==
    ASSUME TypeOK, NEW c \in Consumer, step[c] # "idle", NEW o, Return(c, o),
           UNCHANGED <<rows, acked, unheard, sent, limited>>
    PROVE  TypeOK'
<1>1. Queue!TypeOK'
  BY HandlingAnEntry, Queue!CompleteTyped DEF TypeOK, Return
<1>2. /\ phase' = [phase EXCEPT ![c] = phase'[c]] /\ phase'[c] # "handling"
      /\ current' = [current EXCEPT ![c] = NoEntry]
  BY DEF Return, Queue!Complete, Queue!NextMessage, TypeOK, Queue!TypeOK
<1> QED
  BY <1>1, <1>2 DEF TypeOK, Queue!TypeOK, Return

\* A step of the handler that leaves the queue as it is.
LEMMA InsideTyped ==
    ASSUME TypeOK, NEW c \in Consumer, step[c] # "idle", Inside,
           faults' \in 0 .. MaxFaults
    PROVE  Queue!TypeOK'
BY DEF TypeOK, Queue!TypeOK

LEMMA AbortTyped ==
    ASSUME TypeOK, NEW c \in Consumer, Queue!Abort(c)
    PROVE  /\ Queue!TypeOK'
           /\ phase' = [phase EXCEPT ![c] = phase'[c]] /\ phase'[c] # "handling"
           /\ current' = [current EXCEPT ![c] = NoEntry]
<1>1. Queue!TypeOK'
  BY Queue!QueueStepTyped DEF TypeOK
<1> QED
  BY <1>1 DEF Queue!Abort, Queue!NextMessage, TypeOK, Queue!TypeOK

\* On the way to its receipt a handler changes little: a batch whose receipt is
\* to be acknowledged is, or failed to be, unless its consumer was cancelled.
LEMMA AcknowledgeGoesOn ==
    ASSUME TypeOK, NEW c \in Consumer, Acknowledge(c)
    PROVE  /\ step[c] \in {"insertFailed", "inserted"}
           /\ Inside /\ UNCHANGED <<rows, sent, limited>>
           /\ faults' = faults \/ Queue!Fault
           /\ faults' >= faults /\ faults' \in 0 .. MaxFaults
           /\ acked \subseteq acked' /\ acked' \subseteq Receipted
           /\ unheard \subseteq unheard' /\ unheard' \subseteq Receipted
           /\ current[c].msg \in Receipted /\ ~cancelled[c]
                 => current[c].msg \in acked' \cup unheard'
           /\ step[c] = "insertFailed" => Goto(c, "retry") /\ UNCHANGED todo
           /\ step[c] = "inserted" =>
                 Goto(c, "enqueue") /\ todo' = [todo EXCEPT ![c] = Work(c)]
<1>1. faults \in 0 .. MaxFaults /\ acked \subseteq Receipted /\ unheard \subseteq Receipted
  BY DEF TypeOK, Queue!TypeOK
<1>2. AcknowledgeReceipt(c) /\ Inside /\ UNCHANGED <<rows, sent, limited>>
  BY DEF Acknowledge
<1>3. /\ faults' = faults \/ Queue!Fault
      /\ faults' >= faults /\ faults' \in 0 .. MaxFaults
  BY <1>1, <1>2 DEF AcknowledgeReceipt, Queue!CallSucceeds, Queue!CallFails, Queue!Fault
<1>4. /\ acked \subseteq acked' /\ acked' \subseteq Receipted
      /\ unheard \subseteq unheard' /\ unheard' \subseteq Receipted
      /\ current[c].msg \in Receipted /\ ~cancelled[c]
            => current[c].msg \in acked' \cup unheard'
  BY <1>1, <1>2 DEF AcknowledgeReceipt
<1>5. /\ step[c] \in {"insertFailed", "inserted"}
      /\ step[c] = "insertFailed" => Goto(c, "retry") /\ UNCHANGED todo
      /\ step[c] = "inserted" => Goto(c, "enqueue") /\ todo' = [todo EXCEPT ![c] = Work(c)]
  BY DEF Acknowledge, GiveBack, EnqueueWork
<1> QED
  BY <1>2, <1>3, <1>4, <1>5

LEMMA HandleTyped ==
    ASSUME TypeOK, NEW c \in Consumer, Handle(c)
    PROVE  TypeOK'
<1> USE HandlingAnEntry DEF Queue!CallSucceeds, Queue!CallFails, Queue!Fault
<1>0. faults \in 0 .. MaxFaults /\ (Queue!Fault => faults' \in 0 .. MaxFaults)
  BY DEF TypeOK, Queue!TypeOK
<1>1. CASE DecodeFails(c) \/ DropBadSignature(c)
  BY <1>1, ReturnTyped DEF DecodeFails, DropBadSignature
<1>2. CASE PrepareFails(c)
  BY <1>2, AbortTyped DEF PrepareFails, TypeOK, Queue!TypeOK
<1>3. CASE InsertSucceeds(c)
  <2>1. Queue!TypeOK'
    BY <1>0, <1>3, InsideTyped DEF InsertSucceeds
  <2> QED
    BY <1>3, <2>1 DEF InsertSucceeds, TypeOK
<1>4. CASE InsertConflicts(c)
  <2>1. Queue!TypeOK'
    BY <1>0, <1>4, InsideTyped DEF InsertConflicts
  <2> QED
    BY <1>4, <2>1 DEF InsertConflicts, TypeOK
<1>5. CASE InsertFails(c)
  <2>1. Queue!TypeOK'
    BY <1>0, <1>5, InsideTyped DEF InsertFails
  <2> QED
    BY <1>5, <2>1 DEF InsertFails, TypeOK
<1>6. CASE Acknowledge(c)
  <2>1. Queue!TypeOK'
    BY <1>6, AcknowledgeGoesOn, InsideTyped
  <2> QED
    BY <1>6, <2>1, AcknowledgeGoesOn DEF TypeOK
<1>7. CASE RetryInsert(c)
  BY <1>7, ReturnTyped DEF RetryInsert
<1>8. ASSUME NEW n \in Notification, EnqueueSucceeds(c, n)
      PROVE  TypeOK'
  <2>1. Queue!TypeOK'
    BY <1>0, <1>8, InsideTyped DEF EnqueueSucceeds
  <2> QED
    BY <1>8, <2>1 DEF EnqueueSucceeds, TypeOK
<1>9. ASSUME NEW n \in Notification, EnqueueLimited(c, n)
      PROVE  TypeOK'
  <2>1. Queue!TypeOK'
    BY <1>0, <1>9, InsideTyped DEF EnqueueLimited
  <2> QED
    BY <1>9, <2>1 DEF EnqueueLimited, TypeOK
<1>10. ASSUME NEW n \in Notification, EnqueueFails(c, n)
       PROVE  TypeOK'
  <2>1. sent' \in [Notification -> Nat]
    BY <1>10 DEF EnqueueFails, TypeOK
  <2> QED
    BY <1>10, <2>1, AbortTyped DEF EnqueueFails, TypeOK, Queue!TypeOK
<1>11. CASE Finish(c)
  BY <1>11, ReturnTyped DEF Finish
<1> QED
  BY <1>1, <1>2, <1>3, <1>4, <1>5, <1>6, <1>7, <1>8, <1>9, <1>10, <1>11 DEF Handle

LEMMA LoopTyped ==
    ASSUME TypeOK, NEW c \in Consumer,
           \/ \E S \in SUBSET Batch : Receive(c, S)
           \/ \E e \in batch[c] : Start(c, e)
           \/ Cancel(c) \/ Exit(c) \/ Restart(c) \/ Crash(c)
    PROVE  TypeOK'
<1>1. ASSUME NEW S \in SUBSET Batch, Receive(c, S)
      PROVE  TypeOK'
  <2>1. Queue!TypeOK'
    BY <1>1, Queue!ReceiveTyped DEF Receive, TypeOK
  <2>2. \A d \in Consumer : phase'[d] = "handling" <=> phase[d] = "handling"
    BY <1>1 DEF Receive, Queue!Receive, TypeOK, Queue!TypeOK
  <2>3. UNCHANGED <<current, signed, rows, acked, unheard, step, todo, sent, limited>>
    BY <1>1 DEF Receive, Queue!Receive, saveVars
  <2> QED
    BY <2>1, <2>2, <2>3 DEF TypeOK
<1>2. ASSUME NEW e \in batch[c], Start(c, e)
      PROVE  TypeOK'
  <2>1. Queue!TypeOK'
    BY <1>2, Queue!TakeTyped DEF Start, TypeOK
  <2>2. e # NoEntry
    BY NoEntryAssumption DEF TypeOK, Queue!TypeOK, Queue!Entry
  <2> QED
    BY <1>2, <2>1, <2>2 DEF Start, Queue!Take, TypeOK, Queue!TypeOK
<1>3. CASE Cancel(c)
  BY <1>3, Queue!QueueStepTyped DEF Cancel, Queue!Cancel, TypeOK, saveVars
<1>4. CASE Exit(c)
  <2>1. Queue!TypeOK'
    BY <1>4, Queue!QueueStepTyped DEF Exit, TypeOK
  <2> QED
    BY <1>4, <2>1 DEF Exit, Queue!Exit, TypeOK, Queue!TypeOK, saveVars
<1>5. CASE Restart(c)
  <2>1. Queue!TypeOK'
    BY <1>5, Queue!QueueStepTyped DEF Restart, TypeOK
  <2> QED
    BY <1>5, <2>1 DEF Restart, Queue!Restart, TypeOK, Queue!TypeOK, saveVars
<1>6. CASE Crash(c)
  <2>1. Queue!TypeOK'
    BY <1>6, Queue!QueueStepTyped DEF Crash, TypeOK
  <2> QED
    BY <1>6, <2>1 DEF Crash, Queue!Crash, TypeOK, Queue!TypeOK
<1> QED
  BY <1>1, <1>2, <1>3, <1>4, <1>5, <1>6

LEMMA NextTyped == TypeOK /\ [Next]_vars => TypeOK'
<1> SUFFICES ASSUME TypeOK, [Next]_vars
             PROVE  TypeOK'
  OBVIOUS
<1>1. ASSUME NEW b \in Batch, Send(b) \/ VisibilityTimeout(b)
      PROVE  TypeOK'
  <2>1. Queue!TypeOK'
    BY <1>1 DEF Send, VisibilityTimeout, Queue!Send, Queue!VisibilityTimeout, TypeOK,
        Queue!TypeOK
  <2> QED
    BY <1>1, <2>1 DEF Send, VisibilityTimeout, Queue!Send, Queue!VisibilityTimeout, TypeOK,
        saveVars
<1>2. CASE UNCHANGED vars
  BY <1>2 DEF vars, Queue!queueVars, saveVars, TypeOK, Queue!TypeOK
<1> QED
  BY <1>1, <1>2, HandleTyped, LoopTyped DEF Next

\* In every reachable state the program's data have their types, and a
\* handler is in the middle of its work exactly when its consumer has handed
\* it a message: nothing of a handler's local state outlives a return or a
\* crash.
THEOREM TypeCorrect == Spec => []TypeOK
<1>1. Init => TypeOK
  BY DEF Init, Queue!Init, TypeOK, Queue!TypeOK
<1> QED
  BY <1>1, NextTyped, PTL DEF Spec

-----------------------------------------------------------------------------
(* At most one delivery message per notification.                          *)

\* The handlers past their INSERT: each owns rows that it alone may enqueue.
Owner(c) == step[c] \in {"inserted", "enqueue"}

\* What keeps EnqueuedAtMostOnce: rows appear only under an owner, no two
\* owners share a notification, and what an owner still has to enqueue has not
\* been enqueued.
OwnerInv ==
    /\ \A n \in Notification : sent[n] > 0 => n \in rows
    /\ \A c \in Consumer : Owner(c) => Work(c) \subseteq rows
    /\ \A c \in Consumer : todo[c] # {} => todo[c] \subseteq Work(c)
    /\ \A c \in Consumer : step[c] = "inserted" => \A n \in Work(c) : sent[n] = 0
    /\ \A c \in Consumer : \A n \in todo[c] : sent[n] = 0
    /\ \A n \in Notification : sent[n] <= 1
    /\ \A c, d \in Consumer : c # d /\ Owner(c) /\ Owner(d) => Work(c) \cap Work(d) = {}

\* A step in which c lets go of its message and nothing is enqueued.
LEMMA LetGoKeepsOwners ==
    ASSUME TypeOK, OwnerInv, NEW c \in Consumer,
           step' = [step EXCEPT ![c] = "idle"],
           todo' = [todo EXCEPT ![c] = {}],
           \A d \in Consumer : d # c => current'[d] = current[d],
           UNCHANGED <<rows, sent>>
    PROVE  OwnerInv'
BY DEF OwnerInv, Owner, Work, TypeOK

LEMMA ReturnKeepsOwners ==
    ASSUME TypeOK, OwnerInv, NEW c \in Consumer, NEW o, Return(c, o),
           UNCHANGED <<rows, sent>>
    PROVE  OwnerInv'
<1>1. \A d \in Consumer : d # c => current'[d] = current[d]
  BY DEF Return, Queue!Complete, Queue!NextMessage, TypeOK, Queue!TypeOK
<1> QED
  BY <1>1, LetGoKeepsOwners DEF Return

LEMMA HandleKeepsOwners ==
    ASSUME TypeOK, OwnerInv, NEW c \in Consumer, Handle(c)
    PROVE  OwnerInv'
<1> USE HandlingAnEntry
<1>1. CASE DecodeFails(c) \/ DropBadSignature(c)
  BY <1>1, ReturnKeepsOwners DEF DecodeFails, DropBadSignature
<1>2. CASE PrepareFails(c)
  <2>1. todo[c] = {} /\ todo' = [todo EXCEPT ![c] = {}]
    BY <1>2 DEF PrepareFails, TypeOK
  <2>2. step' = [step EXCEPT ![c] = "idle"] /\ UNCHANGED <<rows, sent>>
    BY <1>2 DEF PrepareFails
  <2>3. \A d \in Consumer : d # c => current'[d] = current[d]
    BY <1>2, AbortTyped DEF PrepareFails, TypeOK, Queue!TypeOK
  <2> QED
    BY <2>1, <2>2, <2>3, LetGoKeepsOwners
<1>3. CASE InsertSucceeds(c)
  <2>1. \A n \in Work(c) : sent[n] = 0
    BY <1>3 DEF InsertSucceeds, OwnerInv, TypeOK
  <2>2. \A d \in Consumer : Work(d)' = Work(d) /\ (d # c => step'[d] = step[d])
    BY <1>3 DEF InsertSucceeds, Work, TypeOK
  <2>3. \A d \in Consumer : Owner(d) => Work(c) \cap Work(d) = {}
    BY <1>3 DEF InsertSucceeds, OwnerInv
  <2>4. step'[c] = "inserted" /\ rows' = rows \cup Work(c) /\ UNCHANGED <<todo, sent>>
    BY <1>3 DEF InsertSucceeds, TypeOK
  <2>5. \A d, e \in Consumer :
           d # e /\ Owner(d)' /\ Owner(e)' => Work(d)' \cap Work(e)' = {}
    BY <2>2, <2>3 DEF OwnerInv, Owner
  <2>6. \A d \in Consumer : Owner(d)' => Work(d)' \subseteq rows'
    BY <2>2, <2>4 DEF OwnerInv, Owner
  <2>7. \A d \in Consumer : step'[d] = "inserted" => \A n \in Work(d)' : sent'[n] = 0
    BY <2>1, <2>2, <2>4 DEF OwnerInv
  <2> QED
    BY <2>2, <2>4, <2>5, <2>6, <2>7 DEF OwnerInv
<1>4. CASE InsertConflicts(c)
  BY <1>4 DEF InsertConflicts, OwnerInv, Owner, Work, TypeOK
<1>5. CASE InsertFails(c)
  <2>1. rows \subseteq rows'
    BY <1>5 DEF InsertFails
  <2> QED
    BY <1>5, <2>1 DEF InsertFails, OwnerInv, Owner, Work, TypeOK
<1>6. CASE Acknowledge(c)
  BY <1>6, AcknowledgeGoesOn DEF OwnerInv, Owner, Work, TypeOK
<1>7. CASE RetryInsert(c)
  BY <1>7, ReturnKeepsOwners DEF RetryInsert
<1>8. ASSUME NEW n \in Notification, EnqueueSucceeds(c, n)
      PROVE  OwnerInv'
  <2>1. n \in Work(c) /\ n \in rows /\ sent[n] = 0
    BY <1>8 DEF EnqueueSucceeds, OwnerInv, Owner, TypeOK
  <2>2. \A d \in Consumer : d # c => n \notin todo[d]
    BY <2>1, <1>8 DEF EnqueueSucceeds, OwnerInv, Owner, TypeOK
  <2>3. \A d \in Consumer : step[d] = "inserted" => n \notin Work(d)
    BY <2>1, <1>8 DEF EnqueueSucceeds, OwnerInv, Owner
  <2> QED
    BY <1>8, <2>1, <2>2, <2>3 DEF EnqueueSucceeds, OwnerInv, Owner, Work, TypeOK
<1>9. ASSUME NEW n \in Notification, EnqueueLimited(c, n)
      PROVE  OwnerInv'
  BY <1>9 DEF EnqueueLimited, OwnerInv, Owner, Work, TypeOK
<1>10. ASSUME NEW n \in Notification, EnqueueFails(c, n)
       PROVE  OwnerInv'
  <2>1. n \in Work(c) /\ n \in rows /\ sent[n] = 0
    BY <1>10 DEF EnqueueFails, OwnerInv, Owner, TypeOK
  <2>2. \A d \in Consumer : d # c => n \notin todo[d]
    BY <2>1, <1>10 DEF EnqueueFails, OwnerInv, Owner, TypeOK
  <2>3. \A d \in Consumer : step[d] = "inserted" => n \notin Work(d)
    BY <2>1, <1>10 DEF EnqueueFails, OwnerInv, Owner
  <2>4. \A d \in Consumer : d # c => current'[d] = current[d]
    BY <1>10, AbortTyped DEF EnqueueFails, TypeOK, Queue!TypeOK
  <2>5. \A m \in Notification : sent'[m] = sent[m] \/ (m = n /\ sent'[m] = 1)
    BY <1>10, <2>1 DEF EnqueueFails, TypeOK
  <2> QED
    BY <1>10, <2>1, <2>2, <2>3, <2>4, <2>5 DEF EnqueueFails, OwnerInv, Owner, Work, TypeOK
<1>11. CASE Finish(c)
  BY <1>11, ReturnKeepsOwners DEF Finish
<1> QED
  BY <1>1, <1>2, <1>3, <1>4, <1>5, <1>6, <1>7, <1>8, <1>9, <1>10, <1>11 DEF Handle

LEMMA NextKeepsOwners == TypeOK /\ OwnerInv /\ [Next]_vars => OwnerInv'
<1> SUFFICES ASSUME TypeOK, OwnerInv, [Next]_vars
             PROVE  OwnerInv'
  OBVIOUS
<1>1. CASE UNCHANGED <<saveVars, current>>
  BY <1>1 DEF saveVars, OwnerInv, Owner, Work
<1>2. ASSUME NEW c \in Consumer, NEW e \in batch[c], Start(c, e)
      PROVE  OwnerInv'
  <2>1. todo[c] = {}
    BY <1>2 DEF Start, Queue!Take, TypeOK
  <2>2. \A d \in Consumer : d # c => Work(d)' = Work(d) /\ step'[d] = step[d]
    BY <1>2 DEF Start, Queue!Take, Work, TypeOK, Queue!TypeOK
  <2>3. step'[c] = "verify" /\ UNCHANGED <<rows, todo, sent>>
    BY <1>2 DEF Start, TypeOK
  <2> QED
    BY <2>1, <2>2, <2>3 DEF OwnerInv, Owner
<1>3. ASSUME NEW c \in Consumer, Crash(c)
      PROVE  OwnerInv'
  BY <1>3, LetGoKeepsOwners DEF Crash, Queue!Crash, TypeOK, Queue!TypeOK
<1>4. ASSUME NEW b \in Batch, Send(b) \/ VisibilityTimeout(b)
      PROVE  UNCHANGED <<saveVars, current>>
  BY <1>4 DEF Send, VisibilityTimeout, Queue!Send, Queue!VisibilityTimeout
<1>5. ASSUME NEW c \in Consumer,
             (\E S \in SUBSET Batch : Receive(c, S)) \/ Cancel(c) \/ Exit(c) \/ Restart(c)
      PROVE  UNCHANGED <<saveVars, current>>
  BY <1>5 DEF Receive, Cancel, Exit, Restart, Queue!Receive, Queue!Cancel, Queue!Exit,
      Queue!Restart
<1>6. CASE UNCHANGED vars
  BY <1>1, <1>6 DEF vars, Queue!queueVars
<1> QED
  BY <1>1, <1>2, <1>3, <1>4, <1>5, <1>6, HandleKeepsOwners DEF Next

LEMMA OwnersInvariant == Spec => []OwnerInv
<1>1. Init => OwnerInv
  BY DEF Init, OwnerInv, Owner, Work
<1> QED
  BY <1>1, NextKeepsOwners, TypeCorrect, PTL DEF Spec

\* What a step does to the rows and the delivery messages: it writes the rows of
\* a batch, all of them and for the first time, or sends the first message of a
\* notification whose row is there, or neither.
LEMMA RowsThenMessages ==
    ASSUME TypeOK, OwnerInv, [Next]_vars
    PROVE  \/ UNCHANGED <<rows, sent>>
           \/ /\ UNCHANGED sent
              /\ \E b \in Batch : items[b] \cap rows = {} /\ rows' = rows \cup items[b]
           \/ /\ UNCHANGED rows
              /\ \E n \in rows : sent[n] = 0 /\ sent' = [sent EXCEPT ![n] = @ + 1]
<1> DEFINE Goal ==
           \/ UNCHANGED <<rows, sent>>
           \/ /\ UNCHANGED sent
              /\ \E b \in Batch : items[b] \cap rows = {} /\ rows' = rows \cup items[b]
           \/ /\ UNCHANGED rows
              /\ \E n \in rows : sent[n] = 0 /\ sent' = [sent EXCEPT ![n] = @ + 1]
<1>1. ASSUME NEW c \in Consumer, InsertSucceeds(c) \/ InsertFails(c)
      PROVE  Goal
  <2>1. current[c].msg \in Batch
    BY <1>1, HandlingAnEntry DEF InsertSucceeds, InsertFails, Decoded
  <2> QED
    BY <1>1, <2>1 DEF InsertSucceeds, InsertFails, Work
<1>2. ASSUME NEW c \in Consumer, NEW n \in Notification,
             EnqueueSucceeds(c, n) \/ EnqueueFails(c, n)
      PROVE  Goal
  <2>1. n \in rows /\ sent[n] = 0
    BY <1>2 DEF EnqueueSucceeds, EnqueueFails, OwnerInv, Owner
  <2> QED
    BY <1>2, <2>1 DEF EnqueueSucceeds, EnqueueFails
<1>3. ASSUME NEW c \in Consumer, Handle(c)
      PROVE  Goal
  BY <1>1, <1>2, <1>3 DEF Handle, DecodeFails, DropBadSignature, PrepareFails, InsertConflicts,
     Acknowledge, RetryInsert, EnqueueLimited, Finish
<1>4. CASE \/ \E b \in Batch : Send(b) \/ VisibilityTimeout(b)
           \/ \E c \in Consumer :
                 \/ \E S \in SUBSET Batch : Receive(c, S)
                 \/ \E e \in batch[c] : Start(c, e)
                 \/ Cancel(c) \/ Exit(c) \/ Restart(c) \/ Crash(c)
  BY <1>4 DEF Send, VisibilityTimeout, Receive, Start, Cancel, Exit, Restart, Crash, saveVars
<1> QED
  BY <1>3, <1>4 DEF Next, vars, saveVars

\* However often and to however many consumers a save message is delivered, a
\* notification is put on a delivery queue at most once.
THEOREM AtMostOneDeliveryMessage == Spec => []EnqueuedAtMostOnce
<1>1. OwnerInv => EnqueuedAtMostOnce
  BY DEF OwnerInv, EnqueuedAtMostOnce
<1> QED
  BY <1>1, OwnersInvariant, PTL

\* A delivery message is only ever on a queue for a notification whose row
\* has been committed.
THEOREM DeliveryFollowsPersistence == Spec => []EnqueuedIsPersisted
<1>1. OwnerInv => EnqueuedIsPersisted
  BY DEF OwnerInv, EnqueuedIsPersisted
<1> QED
  BY <1>1, OwnersInvariant, PTL

-----------------------------------------------------------------------------
(* A batch is given up only after MaxRetries receives.                     *)

\* The receive count a consumer read never exceeds the one SQS holds now.
CountInv ==
    /\ \A c \in Consumer : step[c] # "idle" => current[c].count <= received[current[c].msg]
    /\ \A c \in Consumer : \A e \in batch[c] : e.count <= received[e.msg]

DropInv == CountInv /\ DroppedOnlyAfterRetries

\* A step of the handler that does not settle the message.
LEMMA InsideKeepsDrops ==
    ASSUME TypeOK, DropInv, NEW c \in Consumer, step[c] # "idle", Inside, rows \subseteq rows',
           \A d \in Consumer : d # c => step'[d] = step[d]
    PROVE  DropInv'
BY DEF DropInv, CountInv, DroppedOnlyAfterRetries, TypeOK, Queue!TypeOK

\* Letting go of a message without deleting it.
LEMMA LetGoKeepsCounts ==
    ASSUME TypeOK, CountInv, NEW c \in Consumer,
           step' = [step EXCEPT ![c] = "idle"],
           current' = [current EXCEPT ![c] = NoEntry],
           batch'[c] \subseteq batch[c],
           \A d \in Consumer : d # c => batch'[d] = batch[d],
           UNCHANGED received
    PROVE  CountInv'
BY DEF CountInv, TypeOK, Queue!TypeOK

\* A handler may return nil only for a batch that was badly signed, has been
\* saved or has used up its retries.
LEMMA ReturnKeepsDrops ==
    ASSUME TypeOK, DropInv, NEW c \in Consumer, step[c] # "idle",
           NEW o \in Queue!Outcome, Return(c, o), UNCHANGED rows,
           o = "ok" => \/ ~signed[current[c].msg]
                       \/ Work(c) \subseteq rows
                       \/ received[current[c].msg] >= MaxRetries
    PROVE  DropInv'
<1>1. /\ UNCHANGED <<received, batch, signed>>
      /\ current' = [current EXCEPT ![c] = NoEntry]
      /\ step' = [step EXCEPT ![c] = "idle"]
  BY DEF Return, Queue!Complete, Queue!NextMessage
<1>2. CountInv'
  BY <1>1, LetGoKeepsCounts DEF DropInv
<1>3. \A b \in Batch : place'[b] = "deleted" =>
         place[b] = "deleted" \/ (b = current[c].msg /\ o = "ok")
  BY HandlingAnEntry DEF Return, Queue!Complete, Queue!Settle, Queue!DeleteMessage,
      Queue!ChangeMessageVisibility, TypeOK, Queue!TypeOK
<1>4. DroppedOnlyAfterRetries'
  BY <1>1, <1>3 DEF DropInv, DroppedOnlyAfterRetries, Work
<1> QED
  BY <1>2, <1>4 DEF DropInv

LEMMA AbortKeepsDrops ==
    ASSUME TypeOK, DropInv, NEW c \in Consumer, Queue!Abort(c),
           step' = [step EXCEPT ![c] = "idle"], UNCHANGED <<signed, rows>>
    PROVE  DropInv'
<1>1. UNCHANGED <<place, received, batch>> /\ current' = [current EXCEPT ![c] = NoEntry]
  BY DEF Queue!Abort, Queue!NextMessage
<1>2. CountInv'
  BY <1>1, LetGoKeepsCounts DEF DropInv
<1> QED
  BY <1>1, <1>2 DEF DropInv, DroppedOnlyAfterRetries

LEMMA HandleKeepsDrops ==
    ASSUME TypeOK, OwnerInv, DropInv, NEW c \in Consumer, Handle(c)
    PROVE  DropInv'
<1>0. Queue!Outcome = {"ok", "transient", "error"}
  BY DEF Queue!Outcome
<1>1. CASE DecodeFails(c) \/ DropBadSignature(c)
  BY <1>0, <1>1, ReturnKeepsDrops DEF DecodeFails, DropBadSignature
<1>2. CASE PrepareFails(c)
  BY <1>2, AbortKeepsDrops DEF PrepareFails
<1>3. CASE \/ InsertSucceeds(c) \/ InsertConflicts(c) \/ InsertFails(c) \/ Acknowledge(c)
           \/ \E n \in Notification : EnqueueSucceeds(c, n) \/ EnqueueLimited(c, n)
  BY <1>3, InsideKeepsDrops, AcknowledgeGoesOn DEF InsertSucceeds, InsertConflicts, InsertFails,
      EnqueueSucceeds, EnqueueLimited, TypeOK
<1>4. CASE RetryInsert(c)
  <2>1. CASE current[c].count < MaxRetries
    BY <1>0, <1>4, <2>1, ReturnKeepsDrops DEF RetryInsert
  <2>2. CASE ~(current[c].count < MaxRetries)
    <3>1. received[current[c].msg] >= MaxRetries
      BY <1>4, <2>2, HandlingAnEntry
         DEF RetryInsert, DropInv, CountInv, TypeOK, Queue!TypeOK, Queue!Entry
    <3> QED
      BY <1>0, <1>4, <2>2, <3>1, ReturnKeepsDrops DEF RetryInsert
  <2> QED
    BY <2>1, <2>2
<1>5. ASSUME NEW n \in Notification, EnqueueFails(c, n)
      PROVE  DropInv'
  BY <1>5, AbortKeepsDrops DEF EnqueueFails
<1>6. CASE Finish(c)
  <2>1. Work(c) \subseteq rows
    BY <1>6 DEF Finish, OwnerInv, Owner
  <2> QED
    BY <1>0, <1>6, <2>1, ReturnKeepsDrops DEF Finish
<1> QED
  BY <1>1, <1>2, <1>3, <1>4, <1>5, <1>6 DEF Handle

LEMMA NextKeepsDrops == TypeOK /\ OwnerInv /\ DropInv /\ [Next]_vars => DropInv'
<1> SUFFICES ASSUME TypeOK, OwnerInv, DropInv, [Next]_vars
             PROVE  DropInv'
  OBVIOUS
<1>1. ASSUME NEW b \in Batch, Send(b) \/ VisibilityTimeout(b)
      PROVE  DropInv'
  BY <1>1 DEF Send, VisibilityTimeout, Queue!Send, Queue!VisibilityTimeout, saveVars,
      DropInv, CountInv, DroppedOnlyAfterRetries, TypeOK, Queue!TypeOK
<1>2. ASSUME NEW c \in Consumer, NEW S \in SUBSET Batch, Receive(c, S)
      PROVE  DropInv'
  <2>1. \A b \in Batch : received[b] <= received'[b]
    BY <1>2 DEF Receive, Queue!Receive, Queue!Least, TypeOK, Queue!TypeOK
  <2>2. \A e \in batch'[c] : e.count <= received'[e.msg]
    <3>0. batch'[c] = {[msg |-> m, count |-> received'[m]] : m \in S}
      BY <1>2 DEF Receive, Queue!Receive, TypeOK, Queue!TypeOK
    <3>1. \A e \in batch'[c] : e.msg \in Batch /\ e.count = received'[e.msg]
      BY <3>0
    <3>2. received' \in [Batch -> 0 .. ReceiveCap]
      BY <1>2 DEF Receive, Queue!Receive, Queue!Least, TypeOK, Queue!TypeOK
    <3> QED
      BY <3>1, <3>2
  <2>3. \A d \in Consumer : d # c => \A e \in batch'[d] : e.count <= received'[e.msg]
    <3>1. ASSUME NEW d \in Consumer, d # c, NEW e \in batch'[d]
          PROVE  e.count <= received'[e.msg]
      <4>1. e \in batch[d] /\ e \in Queue!Entry
        BY <1>2, <3>1 DEF Receive, Queue!Receive, TypeOK, Queue!TypeOK
      <4>2. e.msg \in Batch /\ e.count \in Nat /\ e.count <= received[e.msg]
        BY <4>1 DEF Queue!Entry, DropInv, CountInv
      <4> QED
        BY <1>2, <2>1, <4>2 DEF Receive, Queue!Receive, Queue!Least, TypeOK, Queue!TypeOK
    <3> QED
      BY <3>1
  <2>4. ASSUME NEW d \in Consumer, step'[d] # "idle"
        PROVE  current'[d].count <= received'[current'[d].msg]
    <3>1. step[d] # "idle" /\ current'[d] = current[d]
      BY <1>2, <2>4 DEF Receive, Queue!Receive, saveVars
    <3>2. current[d].count \in Nat /\ current[d].msg \in Batch
      BY <3>1, HandlingAnEntry DEF Queue!Entry
    <3>3. current[d].count <= received[current[d].msg]
      BY <3>1 DEF DropInv, CountInv
    <3> QED
      BY <1>2, <2>1, <3>1, <3>2, <3>3 DEF Receive, Queue!Receive, Queue!Least, TypeOK,
          Queue!TypeOK
  <2>5. \A b \in Batch : place'[b] = "deleted" => place[b] = "deleted"
    BY <1>2 DEF Receive, Queue!Receive
  <2>6. DroppedOnlyAfterRetries'
    <3>1. ASSUME NEW b \in Batch, place'[b] = "deleted", signed[b], ~(items[b] \subseteq rows)
          PROVE  received'[b] >= MaxRetries
      <4>1. received[b] >= MaxRetries
        BY <2>5, <3>1 DEF DropInv, DroppedOnlyAfterRetries
      <4> QED
        BY <1>2, <2>1, <4>1 DEF Receive, Queue!Receive, Queue!Least, TypeOK, Queue!TypeOK
    <3> QED
      BY <1>2, <3>1 DEF DroppedOnlyAfterRetries, Receive, saveVars
  <2> QED
    BY <2>2, <2>3, <2>4, <2>6 DEF DropInv, CountInv
<1>3. ASSUME NEW c \in Consumer, NEW e \in batch[c], Start(c, e)
      PROVE  DropInv'
  BY <1>3 DEF Start, Queue!Take, DropInv, CountInv, DroppedOnlyAfterRetries, TypeOK, Queue!TypeOK
<1>4. ASSUME NEW c \in Consumer, Cancel(c) \/ Exit(c) \/ Restart(c)
      PROVE  DropInv'
  BY <1>4 DEF Cancel, Exit, Restart, Queue!Cancel, Queue!Exit, Queue!Restart, saveVars, DropInv,
      CountInv, DroppedOnlyAfterRetries
<1>5. ASSUME NEW c \in Consumer, Crash(c)
      PROVE  DropInv'
  <2>1. CountInv'
    BY <1>5, LetGoKeepsCounts DEF Crash, Queue!Crash, DropInv, TypeOK, Queue!TypeOK
  <2> QED
    BY <1>5, <2>1 DEF Crash, Queue!Crash, DropInv, DroppedOnlyAfterRetries
<1>6. CASE UNCHANGED vars
  BY <1>6 DEF vars, Queue!queueVars, saveVars, DropInv, CountInv, DroppedOnlyAfterRetries
<1> QED
  BY <1>1, <1>2, <1>3, <1>4, <1>5, <1>6, HandleKeepsDrops DEF Next

\* A signed batch whose message is gone and whose rows were never written has
\* been received MaxRetries times: neither a race nor a shutdown makes the
\* worker give up earlier.
THEOREM NoEarlyDrop == Spec => []DroppedOnlyAfterRetries
<1>1. Init => DropInv
  BY DEF Init, Queue!Init, DropInv, CountInv, DroppedOnlyAfterRetries
<1>2. DropInv => DroppedOnlyAfterRetries
  BY DEF DropInv
<1> QED
  BY <1>1, <1>2, NextKeepsDrops, TypeCorrect, OwnersInvariant, PTL DEF Spec

-----------------------------------------------------------------------------
(* The save workers drive the queue as the consumer loop does.             *)

LEMMA HandleIsConsumerStep ==
    ASSUME TypeOK, NEW c \in Consumer, Handle(c)
    PROVE  \/ \E o \in Queue!Outcome : Queue!Complete(c, o)
           \/ Queue!Abort(c) \/ Queue!HandlerFault(c)
           \/ UNCHANGED Queue!queueVars
<1> USE DEF Queue!queueVars
<1>0. Queue!Outcome = {"ok", "transient", "error"}
  BY DEF Queue!Outcome
<1>1. step[c] # "idle" => phase[c] = "handling"
  BY DEF TypeOK
<1>2. CASE DecodeFails(c) \/ DropBadSignature(c) \/ RetryInsert(c) \/ Finish(c)
  BY <1>0, <1>2 DEF DecodeFails, DropBadSignature, RetryInsert, Finish, Return
<1>3. CASE PrepareFails(c) \/ \E n \in Notification : EnqueueFails(c, n)
  BY <1>3 DEF PrepareFails, EnqueueFails
<1>4. CASE \/ InsertSucceeds(c) \/ InsertConflicts(c)
           \/ \E n \in Notification : EnqueueSucceeds(c, n) \/ EnqueueLimited(c, n)
  BY <1>4 DEF InsertSucceeds, InsertConflicts, EnqueueSucceeds, EnqueueLimited,
      Queue!CallSucceeds
<1>5. CASE InsertFails(c)
  BY <1>1, <1>5 DEF InsertFails, Queue!CallFails, Queue!HandlerFault
<1>6. CASE Acknowledge(c)
  BY <1>1, <1>6, AcknowledgeGoesOn DEF Queue!HandlerFault
<1> QED
  BY <1>2, <1>3, <1>4, <1>5, <1>6 DEF Handle

\* Every behaviour of the save pipeline is one of the consumer loop: the
\* handler never touches the queue but through the result it returns.
THEOREM ImplementsQueueConsumer == Spec => UsesQueueConsumer
<1>1. Init => Queue!Init
  BY DEF Init
<1>2. TypeOK /\ [Next]_vars => [Queue!Next]_Queue!queueVars
  <2> SUFFICES ASSUME TypeOK, [Next]_vars
               PROVE  [Queue!Next]_Queue!queueVars
    OBVIOUS
  <2>1. CASE UNCHANGED vars
    BY <2>1 DEF vars
  <2>2. ASSUME NEW b \in Batch, Send(b) \/ VisibilityTimeout(b)
        PROVE  Queue!Next
    BY <2>2 DEF Send, VisibilityTimeout, Queue!Next
  <2>3. ASSUME NEW c \in Consumer,
               \/ \E S \in SUBSET Batch : Receive(c, S)
               \/ \E e \in batch[c] : Start(c, e)
               \/ Cancel(c) \/ Exit(c) \/ Restart(c) \/ Crash(c)
        PROVE  Queue!Next
    BY <2>3 DEF Receive, Start, Cancel, Exit, Restart, Crash, Queue!Next
  <2>4. ASSUME NEW c \in Consumer, Handle(c)
        PROVE  [Queue!Next]_Queue!queueVars
    BY <2>4, HandleIsConsumerStep DEF Queue!Next
  <2> QED
    BY <2>1, <2>2, <2>3, <2>4 DEF Next
<1> QED
  BY <1>1, <1>2, TypeCorrect, PTL DEF Spec, UsesQueueConsumer, Queue!Spec

-----------------------------------------------------------------------------
(* A signed batch leaves no receipt behind but by a failed acknowledgement. *)

\* A handler about to give up or to enqueue has been to the receipt, or is
\* cancelled and cannot have its message deleted.
AckInv ==
    /\ \A c \in Consumer :
          /\ step[c] \in {"retry", "enqueue"} /\ ~cancelled[c]
          /\ current[c].msg \in Receipted
          => current[c].msg \in acked \cup unheard
    /\ SettledIsAcknowledged

\* A return deletes a message only if the answer is "ok".
LEMMA ReturnKeepsAcks ==
    ASSUME TypeOK, AckInv, NEW c \in Consumer, step[c] # "idle", NEW o, Return(c, o),
           o = "ok" => ~signed[current[c].msg] \/ step[c] \in {"retry", "enqueue"},
           UNCHANGED <<acked, unheard>>
    PROVE  AckInv'
<1>1. /\ \A d \in Consumer : d # c => current'[d] = current[d] /\ step'[d] = step[d]
      /\ UNCHANGED cancelled
  BY DEF Return, Queue!Complete, Queue!NextMessage, TypeOK, Queue!TypeOK
<1>2. step'[c] = "idle" /\ UNCHANGED signed
  BY DEF Return, TypeOK
<1>3. \A b \in Batch : place'[b] = "deleted" =>
         place[b] = "deleted" \/ (b = current[c].msg /\ o = "ok" /\ ~cancelled[c])
  BY DEF Return, Queue!Complete, Queue!Settle, Queue!DeleteMessage, Queue!ChangeMessageVisibility,
      Queue!CallSucceeds, TypeOK, Queue!TypeOK
<1> QED
  BY <1>1, <1>2, <1>3 DEF AckInv, SettledIsAcknowledged

\* A step of the handler that settles nothing.
LEMMA InsideKeepsAcks ==
    ASSUME TypeOK, AckInv, NEW c \in Consumer, UNCHANGED <<place, signed>>,
           acked \subseteq acked', unheard \subseteq unheard',
           /\ step'[c] \in {"retry", "enqueue"} /\ ~cancelled'[c]
           /\ current'[c].msg \in Receipted
           => current'[c].msg \in acked' \cup unheard',
           \A d \in Consumer : d # c =>
              current'[d] = current[d] /\ step'[d] = step[d] /\ cancelled'[d] = cancelled[d]
    PROVE  AckInv'
BY DEF AckInv, SettledIsAcknowledged

LEMMA HandleKeepsAcks ==
    ASSUME TypeOK, AckInv, NEW c \in Consumer, Handle(c)
    PROVE  AckInv'
<1>1. CASE DecodeFails(c)
  BY <1>1, ReturnKeepsAcks DEF DecodeFails
<1>2. CASE DropBadSignature(c)
  BY <1>2, ReturnKeepsAcks DEF DropBadSignature
<1>3. CASE RetryInsert(c)
  BY <1>3, ReturnKeepsAcks DEF RetryInsert
<1>4. CASE Finish(c)
  BY <1>4, ReturnKeepsAcks DEF Finish
<1>5. CASE PrepareFails(c) \/ \E n \in Notification : EnqueueFails(c, n)
  <2>1. /\ Queue!Abort(c) /\ UNCHANGED <<place, signed, acked, unheard, cancelled>>
        /\ step' = [step EXCEPT ![c] = "idle"]
    BY <1>5 DEF PrepareFails, EnqueueFails, Queue!Abort, Queue!NextMessage
  <2>2. \A d \in Consumer : d # c => current'[d] = current[d]
    BY <2>1, AbortTyped DEF TypeOK, Queue!TypeOK
  <2> QED
    BY <2>1, <2>2, InsideKeepsAcks DEF TypeOK
<1>6. CASE InsertSucceeds(c) \/ InsertConflicts(c) \/ InsertFails(c)
  BY <1>6, InsideKeepsAcks DEF InsertSucceeds, InsertConflicts, InsertFails, TypeOK
<1>7. CASE Acknowledge(c)
  BY <1>7, AcknowledgeGoesOn, InsideKeepsAcks DEF TypeOK
<1>8. CASE \E n \in Notification : EnqueueSucceeds(c, n) \/ EnqueueLimited(c, n)
  <2>1. UNCHANGED <<place, signed, acked, unheard, step, current, cancelled>> /\ step[c] = "enqueue"
    BY <1>8 DEF EnqueueSucceeds, EnqueueLimited
  <2> QED
    BY <2>1 DEF AckInv, SettledIsAcknowledged
<1> QED
  BY <1>1, <1>2, <1>3, <1>4, <1>5, <1>6, <1>7, <1>8 DEF Handle

LEMMA NextKeepsAcks == TypeOK /\ AckInv /\ [Next]_vars => AckInv'
<1> SUFFICES ASSUME TypeOK, AckInv, [Next]_vars
             PROVE  AckInv'
  OBVIOUS
<1>1. ASSUME NEW b \in Batch, Send(b) \/ VisibilityTimeout(b)
      PROVE  AckInv'
  <2>1. \A a \in Batch : place'[a] = "deleted" => place[a] = "deleted"
    BY <1>1 DEF Send, VisibilityTimeout, Queue!Send, Queue!VisibilityTimeout, TypeOK, Queue!TypeOK
  <2> QED
    BY <1>1, <2>1 DEF Send, VisibilityTimeout, Queue!Send, Queue!VisibilityTimeout, saveVars,
        AckInv, SettledIsAcknowledged
<1>2. ASSUME NEW c \in Consumer, NEW S \in SUBSET Batch, Receive(c, S)
      PROVE  AckInv'
  BY <1>2 DEF Receive, Queue!Receive, saveVars, AckInv, SettledIsAcknowledged
<1>3. ASSUME NEW c \in Consumer, NEW e \in batch[c], Start(c, e)
      PROVE  AckInv'
  BY <1>3, InsideKeepsAcks DEF Start, Queue!Take, TypeOK, Queue!TypeOK
<1>4. ASSUME NEW c \in Consumer, Cancel(c) \/ Exit(c) \/ Restart(c)
      PROVE  AckInv'
  <2>1. /\ UNCHANGED <<place, signed, saveVars, current>>
        /\ \A d \in Consumer : ~cancelled'[d] => ~cancelled[d] \/ step[d] = "idle"
    BY <1>4 DEF Cancel, Exit, Restart, Queue!Cancel, Queue!Exit, Queue!Restart, TypeOK,
        Queue!TypeOK
  <2> QED
    BY <2>1 DEF saveVars, AckInv, SettledIsAcknowledged
<1>5. ASSUME NEW c \in Consumer, Crash(c)
      PROVE  AckInv'
  BY <1>5, InsideKeepsAcks DEF Crash, Queue!Crash, TypeOK, Queue!TypeOK
<1>6. CASE UNCHANGED vars
  BY <1>6 DEF vars, Queue!queueVars, saveVars, AckInv, SettledIsAcknowledged
<1> QED
  BY <1>1, <1>2, <1>3, <1>4, <1>5, <1>6, HandleKeepsAcks DEF Next

\* A signed batch that has left the queue has left no receipt in flight, on
\* whichever of its deliveries it was settled, unless Redis failed a handler
\* that was not cancelled.
THEOREM SettledMeansAcknowledged == Spec => []SettledIsAcknowledged
<1>1. Init => AckInv
  BY DEF Init, Queue!Init, AckInv, SettledIsAcknowledged
<1>2. AckInv => SettledIsAcknowledged
  BY DEF AckInv
<1> QED
  BY <1>1, <1>2, NextKeepsAcks, TypeCorrect, PTL DEF Spec

-----------------------------------------------------------------------------
(* Each fault strands one batch at most.                                   *)

\* The batches in the hands of a cancelled handler past its INSERT: its next
\* call fails, and the fault has been counted when it was cancelled.
AtRisk == {b \in Batch : \E c \in Consumer : cancelled[c] /\ Owner(c) /\ current[c].msg = b}

Endangered == Stranded \cup AtRisk

\* An enqueue loop has still to do what it has not done.
LoopInv ==
    \A c \in Consumer : step[c] = "enqueue" =>
        \A n \in Work(c) : n \in todo[c] \/ sent[n] > 0 \/ n \in limited

RiskInv == LoopInv /\ IsFiniteSet(Endangered) /\ Cardinality(Endangered) <= faults

\* A step endangers nothing, or costs a fault and endangers one batch.
Charged ==
    \/ Endangered' \subseteq Endangered /\ faults' >= faults
    \/ \E b \in Batch : Endangered' \subseteq Endangered \cup {b} /\ faults' = faults + 1

LEMMA ChargedKeepsCount ==
    ASSUME TypeOK, TypeOK', RiskInv, Charged
    PROVE  IsFiniteSet(Endangered)' /\ Cardinality(Endangered)' <= faults'
<1>1. faults \in Nat /\ faults' \in Nat /\ IsFiniteSet(Endangered)
      /\ Cardinality(Endangered) <= faults
  BY DEF TypeOK, Queue!TypeOK, RiskInv
<1>2. Cardinality(Endangered) \in Nat
  BY <1>1, FS_CardinalityType
<1>3. CASE Endangered' \subseteq Endangered /\ faults' >= faults
  <2>1. IsFiniteSet(Endangered') /\ Cardinality(Endangered') <= Cardinality(Endangered)
    BY <1>1, <1>3, FS_Subset
  <2>2. Cardinality(Endangered') \in Nat
    BY <2>1, FS_CardinalityType
  <2> QED
    BY <1>1, <1>2, <1>3, <2>1, <2>2
<1>4. ASSUME NEW b \in Batch, Endangered' \subseteq Endangered \cup {b}, faults' = faults + 1
      PROVE  IsFiniteSet(Endangered') /\ Cardinality(Endangered') <= faults'
  <2> DEFINE All == Endangered \cup {b}
  <2>1. IsFiniteSet(All) /\ Cardinality(All) <= Cardinality(Endangered) + 1
    <3>1. IsFiniteSet(All) /\ Cardinality(All) = IF b \in Endangered THEN Cardinality(Endangered)
                                                 ELSE Cardinality(Endangered) + 1
      BY <1>1, FS_AddElement, Zenon
    <3> QED
      BY <1>2, <3>1
  <2>2. IsFiniteSet(Endangered') /\ Cardinality(Endangered') <= Cardinality(All)
    BY <1>4, <2>1, FS_Subset
  <2> HIDE DEF All
  <2>3. Cardinality(Endangered') \in Nat /\ Cardinality(All) \in Nat
    BY <2>1, <2>2, FS_CardinalityType
  <2> QED
    BY <1>1, <1>2, <1>4, <2>1, <2>2, <2>3
<1> QED
  BY <1>3, <1>4 DEF Charged

\* A step of c on its batch b alone.
StepOn(c, b) ==
    /\ step[c] # "idle" => current[c].msg = b
    /\ step'[c] # "idle" => current'[c].msg = b
    /\ \A d \in Consumer \ {c} :
          /\ current'[d] = current[d] /\ step'[d] = step[d] /\ todo'[d] = todo[d]
          /\ cancelled'[d] = cancelled[d]
    /\ \A n \in Notification : sent[n] > 0 => sent'[n] > 0
    /\ limited \subseteq limited'
    /\ rows' \subseteq rows \cup items[b]

\* It endangers b at most.
LEMMA OthersAreSafe ==
    ASSUME TypeOK, OwnerInv, NEW c \in Consumer, NEW b \in Batch, StepOn(c, b)
    PROVE  Endangered' \subseteq Endangered \cup {b}
<1> SUFFICES ASSUME NEW a \in Batch \ {b}, a \in Endangered' PROVE a \in Endangered
  BY DEF Endangered, Stranded, AtRisk
<1>1. items[a] \cap items[b] = {} /\ items[a] \subseteq Notification
  OBVIOUS
<1>2. CASE a \in AtRisk'
  <2>1. PICK d \in Consumer : cancelled'[d] /\ Owner(d)' /\ current'[d].msg = a
    BY <1>2 DEF AtRisk
  <2>2. d # c
    BY <2>1 DEF StepOn, Owner
  <2> QED
    BY <2>1, <2>2 DEF StepOn, Endangered, AtRisk, Owner
<1>3. CASE a \in Stranded'
  <2>1. PICK n \in items[a] : n \in rows' /\ ~Dispatched(n)'
    BY <1>3 DEF Stranded
  <2>2. n \in rows /\ n \notin items[b] /\ n \in Notification
    BY <1>1, <2>1 DEF StepOn
  <2>3. ~(sent[n] > 0) /\ n \notin limited
    BY <2>1, <2>2 DEF StepOn, Dispatched
  <2>4. ASSUME NEW d \in Consumer, n \in todo[d] \/ (step[d] = "inserted" /\ n \in Work(d))
        PROVE  FALSE
    <3>1. CASE d = c
      <4>1. step[c] # "idle" /\ n \in Work(c)
        BY <2>4, <3>1 DEF OwnerInv, TypeOK
      <4> QED
        BY <2>2, <4>1 DEF StepOn, Work
    <3>2. CASE d # c
      BY <2>1, <2>4, <3>2 DEF StepOn, Dispatched, InProgress, Work
    <3> QED
      BY <3>1, <3>2
  <2> QED
    BY <2>2, <2>3, <2>4 DEF Endangered, Stranded, Dispatched, InProgress
<1> QED
  BY <1>2, <1>3 DEF Endangered

\* It endangers none when it sees to the notifications of b.
LEMMA AllAreSafe ==
    ASSUME TypeOK, OwnerInv, NEW c \in Consumer, NEW b \in Batch, StepOn(c, b),
           cancelled'[c] /\ Owner(c)' => cancelled[c] /\ Owner(c),
           \A n \in items[b] : n \in rows' /\ ~Dispatched(n)' => n \in rows /\ ~Dispatched(n)
    PROVE  Endangered' \subseteq Endangered
<1>1. b \in Stranded' => b \in Stranded
  BY DEF Stranded
<1>2. b \in AtRisk' => b \in AtRisk
  <2> SUFFICES ASSUME NEW d \in Consumer, cancelled'[d], Owner(d)', current'[d].msg = b
               PROVE  b \in AtRisk
    BY DEF AtRisk
  <2>1. CASE d = c
    BY <2>1 DEF StepOn, AtRisk, Owner
  <2>2. CASE d # c
    BY <2>2 DEF StepOn, AtRisk, Owner
  <2> QED
    BY <2>1, <2>2
<1> QED
  BY <1>1, <1>2, OthersAreSafe DEF Endangered

\* What a handler that is no owner leaves behind was not in its hands.
LEMMA NoOwnerLosesNone ==
    ASSUME TypeOK, OwnerInv, NEW c \in Consumer, NEW b \in Batch, StepOn(c, b), ~Owner(c),
           UNCHANGED rows, step'[c] # "inserted", ~(cancelled'[c] /\ Owner(c)')
    PROVE  Endangered' \subseteq Endangered
<1> SUFFICES ASSUME NEW n \in items[b], n \in rows, ~Dispatched(n)' PROVE ~Dispatched(n)
  BY AllAreSafe
<1>1. ~(sent[n] > 0) /\ n \notin limited
  BY DEF StepOn, Dispatched
<1>2. ASSUME NEW d \in Consumer, n \in todo[d] \/ (step[d] = "inserted" /\ n \in Work(d))
      PROVE  FALSE
  <2>1. d # c
    BY <1>2 DEF Owner, TypeOK
  <2> QED
    BY <1>2, <2>1 DEF StepOn, Dispatched, InProgress, Work
<1> QED
  BY <1>1, <1>2 DEF Dispatched, InProgress

LEMMA ReturnStepsOn ==
    ASSUME TypeOK, NEW c \in Consumer, step[c] # "idle", NEW o, Return(c, o),
           UNCHANGED <<rows, sent, limited>>
    PROVE  StepOn(c, current[c].msg) /\ step'[c] = "idle" /\ faults' >= faults
<1>1. /\ \A d \in Consumer : d # c => current'[d] = current[d]
      /\ UNCHANGED cancelled /\ step' = [step EXCEPT ![c] = "idle"]
      /\ todo' = [todo EXCEPT ![c] = {}]
  BY DEF Return, Queue!Complete, Queue!NextMessage, TypeOK, Queue!TypeOK
<1>2. faults' >= faults
  BY DEF Return, Queue!Complete, Queue!Settle, Queue!DeleteMessage, Queue!ChangeMessageVisibility,
      Queue!CallSucceeds, Queue!CallFails, Queue!Fault, TypeOK, Queue!TypeOK
<1> QED
  BY <1>1, <1>2 DEF StepOn, TypeOK

LEMMA HandleIsCharged ==
    ASSUME TypeOK, OwnerInv, LoopInv, NEW c \in Consumer, Handle(c)
    PROVE  Charged
<1> DEFINE b == current[c].msg
<1>0. step[c] # "idle" => b \in Batch /\ Work(c) = items[b] /\ items[b] \subseteq Notification
  BY HandlingAnEntry DEF Work
<1>a. faults \in Nat
  BY DEF TypeOK, Queue!TypeOK
<1>1. CASE DecodeFails(c) \/ DropBadSignature(c) \/ RetryInsert(c)
  <2>1. step[c] \in {"verify", "retry"} /\ \E o : Return(c, o) /\ UNCHANGED <<rows, sent, limited>>
    BY <1>1 DEF DecodeFails, DropBadSignature, RetryInsert
  <2>2. StepOn(c, b) /\ step'[c] = "idle" /\ faults' >= faults /\ UNCHANGED rows
    BY <2>1, ReturnStepsOn
  <2> QED
    BY <1>0, <2>1, <2>2, NoOwnerLosesNone DEF Charged, Owner
<1>2. CASE Finish(c)
  <2>1. step[c] = "enqueue" /\ todo[c] = {} /\ Return(c, "ok") /\ UNCHANGED <<rows, sent, limited>>
    BY <1>2 DEF Finish
  <2>2. StepOn(c, b) /\ step'[c] = "idle" /\ faults' >= faults
    BY <2>1, ReturnStepsOn
  <2>3. \A n \in items[b] : Dispatched(n)'
    BY <1>0, <2>1 DEF LoopInv, Dispatched
  <2> QED
    BY <1>0, <2>1, <2>2, <2>3, AllAreSafe DEF Charged, Owner
<1>3. CASE PrepareFails(c)
  <2>1. StepOn(c, b) /\ step[c] = "verify" /\ step'[c] = "idle" /\ UNCHANGED rows
    BY <1>3, AbortTyped DEF PrepareFails, StepOn, Queue!Abort, Queue!NextMessage, TypeOK,
        Queue!TypeOK
  <2>2. faults' >= faults
    BY <1>3, <1>a DEF PrepareFails, Queue!Abort, Queue!CallFails, Queue!Fault
  <2> QED
    BY <1>0, <2>1, <2>2, NoOwnerLosesNone DEF Charged, Owner
<1>4. CASE InsertConflicts(c)
  <2>1. /\ StepOn(c, b) /\ step[c] = "verify" /\ step'[c] = "insertFailed" /\ UNCHANGED rows
        /\ UNCHANGED faults
    BY <1>4 DEF InsertConflicts, StepOn, Queue!CallSucceeds, TypeOK
  <2> QED
    BY <1>0, <1>a, <2>1, NoOwnerLosesNone DEF Charged, Owner
<1>5. CASE InsertFails(c)
  <2>1. /\ StepOn(c, b) /\ step[c] = "verify" /\ step'[c] = "insertFailed"
        /\ rows' = rows \/ ~cancelled[c]
    BY <1>0, <1>5 DEF InsertFails, StepOn, TypeOK
  <2>2. IF cancelled[c] THEN faults' = faults ELSE faults' = faults + 1
    BY <1>5 DEF InsertFails, Queue!CallFails, Queue!Fault
  <2>3. CASE rows' = rows
    BY <1>0, <1>a, <2>1, <2>2, <2>3, NoOwnerLosesNone DEF Charged, Owner
  <2>4. CASE rows' # rows
    BY <1>0, <2>1, <2>2, <2>4, OthersAreSafe DEF Charged
  <2> QED
    BY <2>3, <2>4
<1>6. CASE InsertSucceeds(c)
  <2>1. /\ StepOn(c, b) /\ step[c] = "verify" /\ step'[c] = "inserted" /\ ~cancelled'[c]
        /\ UNCHANGED faults /\ UNCHANGED current
    BY <1>0, <1>6 DEF InsertSucceeds, StepOn, Queue!CallSucceeds, TypeOK
  <2>2. \A n \in items[b] : Dispatched(n)'
    BY <1>0, <2>1 DEF Dispatched, InProgress, Work
  <2> QED
    BY <1>0, <1>a, <2>1, <2>2, AllAreSafe DEF Charged
<1>7. CASE Acknowledge(c)
  <2>1. StepOn(c, b) /\ faults' >= faults /\ UNCHANGED <<rows, current, cancelled>>
    BY <1>7, AcknowledgeGoesOn DEF StepOn, TypeOK
  <2>2. CASE step[c] = "insertFailed"
    <3>1. step'[c] = "retry"
      BY <1>7, <2>2, AcknowledgeGoesOn DEF TypeOK
    <3> QED
      BY <1>0, <1>a, <2>1, <2>2, <3>1, NoOwnerLosesNone DEF Charged, Owner
  <2>3. CASE step[c] = "inserted"
    <3>1. todo'[c] = Work(c) /\ step'[c] = "enqueue"
      BY <1>7, <2>3, AcknowledgeGoesOn DEF TypeOK
    <3>2. \A n \in items[b] : Dispatched(n)'
      BY <1>0, <2>3, <3>1 DEF Dispatched, InProgress
    <3> QED
      BY <1>0, <1>a, <2>1, <2>3, <3>2, AllAreSafe DEF Charged, Owner
  <2> QED
    BY <1>7, <2>2, <2>3, AcknowledgeGoesOn
<1>8. ASSUME NEW n \in Notification, EnqueueSucceeds(c, n) \/ EnqueueLimited(c, n)
      PROVE  Charged
  <2>1. /\ StepOn(c, b) /\ step[c] = "enqueue" /\ UNCHANGED <<faults, rows, current, cancelled, step>>
        /\ todo' = [todo EXCEPT ![c] = @ \ {n}]
        /\ sent'[n] > 0 \/ n \in limited'
    BY <1>8 DEF EnqueueSucceeds, EnqueueLimited, StepOn, TypeOK, Queue!CallSucceeds
  <2>2. ASSUME NEW m \in items[b], ~Dispatched(m)' PROVE ~Dispatched(m)
    <3>1. m # n /\ m \in Notification
      BY <1>0, <2>1, <2>2 DEF Dispatched
    <3>2. \A d \in Consumer : m \in todo[d] => m \in todo'[d]
      BY <2>1, <3>1 DEF TypeOK
    <3> QED
      BY <2>1, <2>2, <3>1, <3>2 DEF Dispatched, InProgress, StepOn, Work
  <2> QED
    BY <1>0, <1>a, <2>1, <2>2, AllAreSafe DEF Charged, Owner
<1>9. ASSUME NEW n \in Notification, EnqueueFails(c, n)
      PROVE  Charged
  <2>1. StepOn(c, b) /\ step[c] = "enqueue" /\ UNCHANGED cancelled
    BY <1>9, AbortTyped DEF EnqueueFails, StepOn, Queue!Abort, Queue!NextMessage, TypeOK,
        Queue!TypeOK
  <2>2. IF cancelled[c] THEN faults' = faults ELSE faults' = faults + 1
    BY <1>9 DEF EnqueueFails, Queue!Abort, Queue!CallFails, Queue!Fault
  <2>3. CASE cancelled[c]
    <3>1. b \in Endangered
      BY <1>0, <2>1, <2>3 DEF Endangered, AtRisk, Owner
    <3> QED
      BY <1>0, <1>a, <2>1, <2>2, <2>3, <3>1, OthersAreSafe DEF Charged
  <2>4. CASE ~cancelled[c]
    BY <1>0, <2>1, <2>2, <2>4, OthersAreSafe DEF Charged
  <2> QED
    BY <2>3, <2>4
<1> QED
  BY <1>1, <1>2, <1>3, <1>4, <1>5, <1>6, <1>7, <1>8, <1>9 DEF Handle

\* Where nothing of the workers' data changes but by Cancel and Restart.
LEMMA LoopIsCharged ==
    ASSUME TypeOK, OwnerInv, NEW c \in Consumer,
           \/ \E S \in SUBSET Batch : Receive(c, S)
           \/ \E e \in batch[c] : Start(c, e)
           \/ Cancel(c) \/ Exit(c) \/ Restart(c) \/ Crash(c)
    PROVE  Charged
<1>a. faults \in Nat
  BY DEF TypeOK, Queue!TypeOK
<1>1. CASE \/ \E S \in SUBSET Batch : Receive(c, S)
           \/ Exit(c) \/ Restart(c)
  <2>1. UNCHANGED <<saveVars, current, faults>> /\ \A d \in Consumer : cancelled'[d] => cancelled[d]
    BY <1>1 DEF Receive, Exit, Restart, Queue!Receive, Queue!Exit, Queue!Restart, TypeOK,
        Queue!TypeOK
  <2>2. Endangered' \subseteq Endangered
    BY <2>1 DEF Endangered, Stranded, AtRisk, Dispatched, InProgress, Work, Owner, saveVars
  <2> QED
    BY <1>a, <2>1, <2>2 DEF Charged
<1>2. ASSUME NEW e \in batch[c], Start(c, e)
      PROVE  Charged
  <2>1. e.msg \in Batch
    BY DEF TypeOK, Queue!TypeOK, Queue!Entry
  <2>2. /\ step[c] = "idle" /\ step'[c] = "verify" /\ current'[c] = e
        /\ UNCHANGED <<rows, todo, sent, limited, faults, cancelled>>
        /\ \A d \in Consumer \ {c} : current'[d] = current[d] /\ step'[d] = step[d]
    BY <1>2 DEF Start, Queue!Take, TypeOK, Queue!TypeOK
  <2>3. StepOn(c, e.msg)
    BY <2>2 DEF StepOn
  <2> QED
    BY <1>a, <2>1, <2>2, <2>3, NoOwnerLosesNone DEF Charged, Owner
<1>3. CASE Cancel(c) \/ Crash(c)
  <2>1. faults' = faults + 1 /\ UNCHANGED <<rows, sent, limited>>
    BY <1>3 DEF Cancel, Crash, Queue!Cancel, Queue!Crash, Queue!Fault, saveVars
  <2>2. /\ \A d \in Consumer \ {c} :
              /\ current'[d] = current[d] /\ step'[d] = step[d] /\ todo'[d] = todo[d]
              /\ cancelled'[d] = cancelled[d]
        /\ step'[c] # "idle" => step[c] # "idle" /\ current'[c] = current[c]
        /\ step[c] = "idle" => step'[c] = "idle"
    BY <1>3 DEF Cancel, Crash, Queue!Cancel, Queue!Crash, saveVars, TypeOK, Queue!TypeOK
  <2>3. CASE step[c] = "idle"
    <3>1. todo[c] = {}
      BY <2>3 DEF TypeOK
    <3>2. Endangered' \subseteq Endangered
      <4>1. \A n \in Notification : Dispatched(n) => Dispatched(n)'
        BY <2>1, <2>2, <2>3, <3>1 DEF Dispatched, InProgress, Work
      <4>2. AtRisk' \subseteq AtRisk
        BY <2>2, <2>3 DEF AtRisk, Owner
      <4> QED
        BY <2>1, <4>1, <4>2 DEF Endangered, Stranded
    <3> QED
      BY <1>a, <2>1, <3>2 DEF Charged
  <2>4. CASE step[c] # "idle"
    <3>1. current[c].msg \in Batch /\ StepOn(c, current[c].msg)
      BY <2>1, <2>2, <2>4, HandlingAnEntry DEF StepOn
    <3> QED
      BY <2>1, <3>1, OthersAreSafe DEF Charged
  <2> QED
    BY <2>3, <2>4
<1> QED
  BY <1>1, <1>2, <1>3

LEMMA NextIsCharged == TypeOK /\ OwnerInv /\ LoopInv /\ [Next]_vars => Charged
<1> SUFFICES ASSUME TypeOK, OwnerInv, LoopInv, [Next]_vars
             PROVE  Charged
  OBVIOUS
<1>1. CASE UNCHANGED <<saveVars, current, cancelled, faults>>
  <2>1. Endangered' = Endangered
    BY <1>1 DEF Endangered, Stranded, AtRisk, Dispatched, InProgress, Work, Owner, saveVars
  <2> QED
    BY <1>1, <2>1 DEF Charged, TypeOK, Queue!TypeOK
<1>2. ASSUME NEW b \in Batch, Send(b) \/ VisibilityTimeout(b)
      PROVE  UNCHANGED <<saveVars, current, cancelled, faults>>
  BY <1>2 DEF Send, VisibilityTimeout, Queue!Send, Queue!VisibilityTimeout
<1>3. CASE UNCHANGED vars
  BY <1>1, <1>3 DEF vars, Queue!queueVars
<1> QED
  BY <1>1, <1>2, <1>3, HandleIsCharged, LoopIsCharged DEF Next

LEMMA NextKeepsLoops == TypeOK /\ OwnerInv /\ LoopInv /\ [Next]_vars => LoopInv'
<1> SUFFICES ASSUME TypeOK, OwnerInv, LoopInv, [Next]_vars,
                    NEW c \in Consumer, step'[c] = "enqueue", NEW n \in Work(c)'
             PROVE  n \in todo'[c] \/ sent'[n] > 0 \/ n \in limited'
  BY DEF LoopInv
<1> DEFINE Goal == n \in todo'[c] \/ sent'[n] > 0 \/ n \in limited'
<1>0. n \in Work(c) /\ step[c] = "enqueue" => n \in todo[c] \/ sent[n] > 0 \/ n \in limited
  BY DEF LoopInv
<1>1. ASSUME step'[c] = step[c], UNCHANGED <<current, sent, limited>>, todo'[c] = todo[c]
      PROVE  Goal
  BY <1>0, <1>1 DEF Work
<1>2. ASSUME NEW d \in Consumer, Handle(d)
      PROVE  Goal
  <2>1. CASE DecodeFails(d) \/ DropBadSignature(d) \/ RetryInsert(d) \/ Finish(d)
    <3>1. \E o : Return(d, o) /\ UNCHANGED <<sent, limited>>
      BY <2>1 DEF DecodeFails, DropBadSignature, RetryInsert, Finish
    <3>2. d # c /\ current'[c] = current[c] /\ step'[c] = step[c] /\ todo'[c] = todo[c]
      BY <3>1 DEF Return, Queue!Complete, Queue!NextMessage, TypeOK, Queue!TypeOK
    <3> QED
      BY <1>0, <3>1, <3>2 DEF Work
  <2>2. CASE PrepareFails(d)
    <3>1. d # c /\ current'[c] = current[c] /\ UNCHANGED <<sent, limited>>
      BY <2>2, AbortTyped DEF PrepareFails, TypeOK, Queue!TypeOK
    <3> QED
      BY <1>0, <2>2, <3>1 DEF PrepareFails, TypeOK, Work
  <2>3. CASE InsertSucceeds(d) \/ InsertConflicts(d) \/ InsertFails(d)
    BY <1>0, <2>3 DEF InsertSucceeds, InsertConflicts, InsertFails, TypeOK, Work
  <2>4. CASE Acknowledge(d)
    BY <1>0, <2>4, AcknowledgeGoesOn DEF TypeOK, Work
  <2>5. ASSUME NEW m \in Notification, EnqueueSucceeds(d, m) \/ EnqueueLimited(d, m)
        PROVE  Goal
    <3>1. step[c] = "enqueue" /\ n \in Work(c)
      BY <2>5 DEF EnqueueSucceeds, EnqueueLimited, Work
    <3>2. n \in Notification
      BY <3>1, HandlingAnEntry
    <3> QED
      BY <1>0, <2>5, <3>1, <3>2 DEF EnqueueSucceeds, EnqueueLimited, TypeOK
  <2>6. ASSUME NEW m \in Notification, EnqueueFails(d, m)
        PROVE  Goal
    <3>1. d # c /\ current'[c] = current[c] /\ step'[c] = step[c] /\ todo'[c] = todo[c]
      BY <2>6, AbortTyped DEF EnqueueFails, TypeOK, Queue!TypeOK
    <3>2. n \in Notification
      BY <3>1, HandlingAnEntry DEF Work
    <3>3. sent[n] > 0 => sent'[n] > 0
      BY <2>6, <3>2 DEF EnqueueFails, TypeOK
    <3> QED
      BY <1>0, <2>6, <3>1, <3>3 DEF EnqueueFails, Work
  <2> QED
    BY <1>2, <2>1, <2>2, <2>3, <2>4, <2>5, <2>6 DEF Handle
<1>3. ASSUME NEW d \in Consumer, NEW e \in batch[d], Start(d, e)
      PROVE  Goal
  <2>1. d # c
    BY <1>3 DEF Start, TypeOK
  <2> QED
    BY <1>0, <1>3, <2>1 DEF Start, Queue!Take, TypeOK, Queue!TypeOK, Work
<1>4. ASSUME NEW d \in Consumer, Crash(d)
      PROVE  Goal
  BY <1>0, <1>4 DEF Crash, Queue!Crash, TypeOK, Queue!TypeOK, Work
<1>5. ASSUME NEW b \in Batch, Send(b) \/ VisibilityTimeout(b)
      PROVE  Goal
  BY <1>1, <1>5 DEF Send, VisibilityTimeout, Queue!Send, Queue!VisibilityTimeout, saveVars
<1>6. ASSUME NEW d \in Consumer,
             (\E S \in SUBSET Batch : Receive(d, S)) \/ Cancel(d) \/ Exit(d) \/ Restart(d)
      PROVE  Goal
  BY <1>1, <1>6 DEF Receive, Cancel, Exit, Restart, Queue!Receive, Queue!Cancel, Queue!Exit,
      Queue!Restart, saveVars
<1>7. CASE UNCHANGED vars
  BY <1>1, <1>7 DEF vars, Queue!queueVars, saveVars
<1> QED
  BY <1>2, <1>3, <1>4, <1>5, <1>6, <1>7 DEF Next

\* Whatever is delivered twice and in whichever order handlers run, each
\* failed call, crash or shutdown strands the notifications of one batch at
\* most: without failures no row stays "created" for want of a message.
THEOREM FaultsBoundStranding == Spec => []StrandedBoundedByFaults
<1>1. Init => RiskInv
  <2> SUFFICES ASSUME Init PROVE RiskInv
    OBVIOUS
  <2>1. Endangered = {}
    BY DEF Init, Queue!Init, Endangered, Stranded, AtRisk, Owner
  <2> QED
    BY <2>1, FS_EmptySet DEF RiskInv, LoopInv, Init, Queue!Init
<1>2. TypeOK /\ TypeOK' /\ OwnerInv /\ RiskInv /\ [Next]_vars => RiskInv'
  BY NextIsCharged, NextKeepsLoops, ChargedKeepsCount DEF RiskInv
<1>3. TypeOK /\ RiskInv => StrandedBoundedByFaults
  <2> SUFFICES ASSUME TypeOK, RiskInv PROVE Cardinality(Stranded) <= faults
    BY DEF StrandedBoundedByFaults
  <2>1. Stranded \subseteq Endangered /\ IsFiniteSet(Endangered)
    BY DEF Endangered, RiskInv
  <2>2. IsFiniteSet(Stranded) /\ Cardinality(Stranded) <= Cardinality(Endangered)
    BY <2>1, FS_Subset
  <2>3. Cardinality(Stranded) \in Nat /\ Cardinality(Endangered) \in Nat /\ faults \in Nat
    BY <2>1, <2>2, FS_CardinalityType DEF TypeOK, Queue!TypeOK
  <2> QED
    BY <2>2, <2>3 DEF RiskInv
<1> QED
  BY <1>1, <1>2, <1>3, TypeCorrect, OwnersInvariant, PTL DEF Spec
-----------------------------------------------------------------------------
(* A batch is not received for nothing.                                    *)

\* A handler that returns without a fault, uncancelled and with its retries
\* used up, has its message deleted: no outcome but nil is left to it.
LEMMA LastHandleDeletes ==
    ASSUME TypeOK, NEW c \in Consumer, Handle(c),
           phase'[c] # "handling", faults' = faults, ~cancelled[c],
           current[c].msg \notin Unreadable, current[c].count >= MaxRetries
    PROVE  place'[current[c].msg] = "deleted"
<1>1. phase[c] = "handling" /\ current[c] \in Queue!Entry
  <2>1. step[c] # "idle"
    BY DEF Handle, DecodeFails, DropBadSignature, PrepareFails, InsertSucceeds, InsertConflicts,
       InsertFails, Decoded, Acknowledge, RetryInsert, EnqueueSucceeds, EnqueueLimited,
       EnqueueFails, Finish
  <2> QED
    BY <2>1, HandlingAnEntry DEF TypeOK
<1>2. current[c].msg \in Batch /\ current[c].count \in Nat
  BY <1>1 DEF Queue!Entry
<1>3. ~Queue!Abort(c)
  BY DEF Queue!Abort, Queue!CallFails, Queue!Fault, TypeOK, Queue!TypeOK
<1>4. ~Inside
  BY <1>1 DEF Inside
<1>5. Return(c, "ok")
  BY <1>2, <1>3, <1>4, SaveAssumption DEF Handle, DecodeFails, DropBadSignature, PrepareFails,
     InsertSucceeds, InsertConflicts, InsertFails, Acknowledge, RetryInsert, EnqueueSucceeds,
     EnqueueLimited, EnqueueFails, Finish
<1>6. Queue!DeleteMessage(c, current[c].msg)
  BY <1>5 DEF Return, Queue!Complete, Queue!Settle
<1>7. ~Queue!CallFails(c)
  BY DEF Queue!CallFails, Queue!Fault, TypeOK, Queue!TypeOK
<1> QED
  BY <1>2, <1>6, <1>7 DEF Queue!DeleteMessage, TypeOK, Queue!TypeOK

\* A readable batch is settled with its MaxRetries-th receive at the latest,
\* unless a call of that very handler fails or its consumer is stopped.
THEOREM SettledInTime == Spec => LastReceiveSettles
<1>1. TypeOK /\ [Next]_vars =>
         [\A c \in Consumer :
             (/\ phase[c] = "handling" /\ phase'[c] # "handling" /\ faults' = faults
              /\ ~cancelled[c] /\ current[c].msg \notin Unreadable
              /\ current[c].count >= MaxRetries)
             => place'[current[c].msg] = "deleted"]_vars
  <2> SUFFICES ASSUME TypeOK, [Next]_vars, NEW c \in Consumer,
                      phase[c] = "handling", phase'[c] # "handling", faults' = faults,
                      ~cancelled[c], current[c].msg \notin Unreadable,
                      current[c].count >= MaxRetries
               PROVE  place'[current[c].msg] = "deleted"
    OBVIOUS
  <2>1. CASE Handle(c)
    BY <2>1, LastHandleDeletes
  <2>2. ASSUME NEW d \in Consumer, d # c, Handle(d)
        PROVE  phase'[c] = phase[c]
    BY <2>2 DEF Handle, DecodeFails, DropBadSignature, PrepareFails, InsertSucceeds,
       InsertConflicts, InsertFails, Acknowledge, RetryInsert, EnqueueSucceeds, EnqueueLimited,
       EnqueueFails, Finish, Inside, Return, Queue!Complete, Queue!Abort, Queue!NextMessage,
       TypeOK, Queue!TypeOK
  <2>3. ASSUME NEW d \in Consumer, NEW e \in batch[d], Start(d, e)
        PROVE  phase'[c] = "handling"
    BY <2>3 DEF Start, Queue!Take, TypeOK, Queue!TypeOK
  <2>4. ASSUME NEW d \in Consumer, Crash(d)
        PROVE  FALSE
    BY <2>4 DEF Crash, Queue!Crash, Queue!Fault, TypeOK, Queue!TypeOK
  <2>5. ASSUME NEW b \in Batch, Send(b) \/ VisibilityTimeout(b)
        PROVE  phase' = phase
    BY <2>5 DEF Send, VisibilityTimeout, Queue!Send, Queue!VisibilityTimeout
  <2>6. ASSUME NEW d \in Consumer, NEW S \in SUBSET Batch, Receive(d, S)
        PROVE  phase'[c] = "handling"
    BY <2>6 DEF Receive, Queue!Receive, TypeOK, Queue!TypeOK
  <2>7. ASSUME NEW d \in Consumer, Cancel(d) \/ Exit(d) \/ Restart(d)
        PROVE  phase'[c] = "handling"
    BY <2>7 DEF Cancel, Exit, Restart, Queue!Cancel, Queue!Exit, Queue!Restart, TypeOK,
       Queue!TypeOK
  <2>8. CASE UNCHANGED vars
    BY <2>8 DEF vars, Queue!queueVars
  <2> QED
    BY <2>1, <2>2, <2>3, <2>4, <2>5, <2>6, <2>7, <2>8 DEF Next
<1> QED
  BY <1>1, TypeCorrect, PTL DEF Spec, LastReceiveSettles

=============================================================================
