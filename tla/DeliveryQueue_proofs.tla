------------------------ MODULE DeliveryQueue_proofs ------------------------
(***************************************************************************)
(* Proofs about DeliveryQueue, of either kind, for any notifications,      *)
(* consumers and retry limit and any bound on failures; and about          *)
(* NotificationPath, which puts the save workers in front of it.           *)
(***************************************************************************)
EXTENDS NotificationPath, FiniteSetTheorems, TLAPS

-----------------------------------------------------------------------------
(* Types.                                                                  *)

\* A handler that has begun works on an entry of a received message.
LEMMA HandlingAnEntry ==
    ASSUME TypeOK, NEW c \in Consumer, step[c] # "idle"
    PROVE  /\ current[c] \in Queue!Entry /\ current[c] # NoEntry
           /\ Subject(c) \in Notification /\ phase[c] = "handling"
<1>1. current[c] \in Queue!Entry
  BY DEF TypeOK, Queue!TypeOK
<1> QED
  BY <1>1 DEF Queue!Entry, Subject, TypeOK

\* What a handler may be about to do with a verdict.
Fits(s, v) ==
    /\ s \in Step /\ v \in Status
    /\ s \in {"bounce", "callback", "done"} => v # "created"
    /\ s = "callback" => v \in Failed

GhostsTyped ==
    /\ status \in [Notification -> Status]
    /\ accepted \in [Notification -> Nat]
    /\ callbacks \in [Notification -> Nat]
    /\ unrecorded \in [Notification -> Nat]
    /\ overtaken \in [Notification -> 0 .. MaxOvertakes]

\* The handler goes on to another step; the queue stays as it is.
LEMMA MoveTyped ==
    ASSUME TypeOK, NEW c \in Consumer, step[c] # "idle",
           NEW s, NEW v, Goto(c, s, v), Fits(s, v), s # "idle",
           UNCHANGED <<place, received, timer, batch, current, phase, cancelled>>,
           faults' \in 0 .. MaxFaults, GhostsTyped'
    PROVE  TypeOK'
<1>1. Queue!TypeOK'
  BY DEF TypeOK, Queue!TypeOK
<1>2. \A d \in Consumer : /\ step'[d] = IF d = c THEN s ELSE step[d]
                          /\ verdict'[d] = IF d = c THEN v ELSE verdict[d]
  BY DEF Goto, TypeOK
<1>3. step' \in [Consumer -> Step] /\ verdict' \in [Consumer -> Status]
  BY DEF Goto, TypeOK, Fits
<1> QED
  BY <1>1, <1>2, <1>3 DEF TypeOK, GhostsTyped, Fits

\* The handler returns and the consumer goes on to the next message.
LEMMA LeaveTyped ==
    ASSUME TypeOK, NEW c \in Consumer, step[c] # "idle",
           Goto(c, "idle", "created"), Queue!NextMessage(c), Queue!TypeOK', GhostsTyped'
    PROVE  TypeOK'
<1>1. \A d \in Consumer : /\ step'[d] = IF d = c THEN "idle" ELSE step[d]
                          /\ verdict'[d] = IF d = c THEN "created" ELSE verdict[d]
                          /\ current'[d] = IF d = c THEN NoEntry ELSE current[d]
                          /\ d # c => phase'[d] = phase[d]
  BY DEF Goto, Queue!NextMessage, TypeOK, Queue!TypeOK
<1>2. phase'[c] # "handling"
  BY DEF Queue!NextMessage, TypeOK, Queue!TypeOK
<1>3. step' \in [Consumer -> Step] /\ verdict' \in [Consumer -> Status]
  BY DEF Goto, TypeOK, Step, Status, Taken, Failed
<1> QED
  BY <1>1, <1>2, <1>3 DEF TypeOK, GhostsTyped

LEMMA ReturnTyped ==
    ASSUME TypeOK, NEW c \in Consumer, step[c] # "idle", NEW o, Return(c, o), GhostsTyped'
    PROVE  TypeOK'
<1>1. Queue!TypeOK'
  BY HandlingAnEntry, Queue!CompleteTyped, DeliveryAssumption DEF TypeOK, Return
<1> QED
  BY <1>1, LeaveTyped DEF Return, Queue!Complete

LEMMA FailTyped ==
    ASSUME TypeOK, NEW c \in Consumer, step[c] # "idle", Fail(c), GhostsTyped'
    PROVE  TypeOK'
<1>1. Queue!TypeOK'
  BY Queue!QueueStepTyped, DeliveryAssumption DEF TypeOK, Fail
<1> QED
  BY <1>1, LeaveTyped DEF Fail, Queue!Abort

-----------------------------------------------------------------------------
(* The steps of either Deliver, by what they do to the row and the queue.  *)

\* A mail's row is never written without a status.
MailsHaveVerdicts ==
    \A c \in Consumer : kind = "email" /\ step[c] = "write" => verdict[c] # "created"

Typed == TypeOK /\ kind \in {"sms", "email"} /\ MailsHaveVerdicts

\* Where a handler is that has found the row untouched and has not written it.
Open == {"prepare", "send", "write", "toggle", "retry"}

QueueStays == UNCHANGED <<place, received, timer, batch, current, phase, cancelled>>

\* Deliver returns; with nil only if the row tells the outcome.
Leaves(c) ==
    /\ \E o \in Queue!Outcome :
              /\ Return(c, o) /\ step[c] \notin {"write", "callback"}
              /\ o = "ok" => step[c] = "done" \/ status[Subject(c)] # "created"
    /\ UNCHANGED <<status, ghosts>>

\* What a step adds to the counts: a provider takes the message and the row
\* is to say so, or takes it and nobody knows, or there is nothing to count.
Counts(c, s, v) ==
    \/ /\ UNCHANGED <<accepted, unrecorded>>
       /\ s = "write" => v \notin Taken
       /\ step[c] # "write"
    \/ /\ step[c] \in {"prepare", "send"} /\ s = "write" /\ v \in Taken
       /\ accepted' = Increment(accepted, Subject(c)) /\ UNCHANGED unrecorded
    \/ /\ step[c] = "send" /\ s \in {"write", "retry"} /\ v \notin Taken
       /\ accepted' = Increment(accepted, Subject(c))
       /\ unrecorded' = Increment(unrecorded, Subject(c))

\* Deliver goes on without touching the row or telling the service.
Moves(c) ==
    /\ \E s, v : /\ Goto(c, s, v) /\ Fits(s, v)
                 /\ kind = "email" /\ s = "write" => v # "created"
                 /\ \/ step[c] = "load" /\ status[Subject(c)] = "created" /\ s \in Open
                    \/ step[c] \in Open /\ s \in Open
                    \/ step[c] = "bounce" /\ s = "done"
                 /\ Counts(c, s, v)
    /\ QueueStays /\ (Queue!Fault \/ UNCHANGED faults)
    /\ UNCHANGED <<status, callbacks, overtaken>>
    /\ GhostsTyped'

\* Deliver writes the row; what follows depends on the status it wrote.
Records(c) ==
    /\ step[c] = "write" /\ status' = Write(c)
    /\ \E s : /\ Goto(c, s, verdict[c])
              /\ s \in {"toggle", "bounce", "callback", "done"}
              /\ s = "toggle" <=> verdict[c] = "created"
              /\ s = "callback" <=> verdict[c] \in Failed
    /\ ~cancelled[c] /\ QueueStays /\ UNCHANGED <<faults, ghosts>>

\* A call fails; it may have done its work.
Breaks(c) ==
    /\ Fail(c)
    /\ \/ status' = status
       \/ step[c] = "write" /\ ~cancelled[c] /\ status' = Write(c)
    /\ \/ callbacks' = callbacks
       \/ step[c] = "callback" /\ callbacks' = Increment(callbacks, Subject(c))
    /\ unrecorded' = IF step[c] = "write" /\ verdict[c] \in Taken
                     THEN Increment(unrecorded, Subject(c)) ELSE unrecorded
    /\ UNCHANGED <<accepted, overtaken>>
    /\ GhostsTyped'

\* The service is told.
Tells(c) ==
    /\ step[c] = "callback" /\ Goto(c, "done", verdict[c])
    /\ callbacks' = Increment(callbacks, Subject(c))
    /\ QueueStays /\ UNCHANGED <<faults, status, accepted, unrecorded, overtaken>>

Shape(c) == Leaves(c) \/ Moves(c) \/ Records(c) \/ Breaks(c) \/ Tells(c)

\* One more of a count is a count.
LEMMA IncrementTyped ==
    ASSUME NEW f \in [Notification -> Nat], NEW n \in Notification
    PROVE  Increment(f, n) \in [Notification -> Nat]
  BY DEF Increment

LEMMA WriteTyped ==
    ASSUME TypeOK, NEW c \in Consumer
    PROVE  Write(c) \in [Notification -> Status]
  BY DEF TypeOK, Write

LEMMA FaultTyped ==
    ASSUME TypeOK, Queue!Fault \/ UNCHANGED faults
    PROVE  faults' \in 0 .. MaxFaults
  BY DeliveryAssumption DEF TypeOK, Queue!TypeOK, Queue!Fault

LEMMA PartTyped ==
    ASSUME TypeOK, UNCHANGED <<status, ghosts>>
    PROVE  GhostsTyped'
  BY DEF TypeOK, GhostsTyped, ghosts

\* The parts that both workers are made of.
LEMMA GoOnShape ==
    ASSUME Typed, NEW c \in Consumer, NEW s \in {"prepare", "send", "write"},
           NEW v \in Status \ Taken,
           GoOn(c, s, v), kind = "email" /\ s = "write" => v # "created"
    PROVE  Moves(c)
<1>1. GhostsTyped'
  BY PartTyped DEF Typed, GoOn, Inside, Queue!CallSucceeds
<1> QED
  BY <1>1 DEF GoOn, Inside, Queue!CallSucceeds, Moves, QueueStays, Fits, Counts, Step, Open, ghosts

LEMMA SimulateShape ==
    ASSUME Typed, NEW c \in Consumer, step[c] \in {"prepare", "send"}, NEW v \in Taken,
           Simulate(c, v)
    PROVE  Moves(c)
<1>1. Subject(c) \in Notification
  BY HandlingAnEntry DEF Typed
<1>2. GhostsTyped'
  BY <1>1, IncrementTyped DEF Typed, Simulate, TypeOK, GhostsTyped
<1> QED
  BY <1>2 DEF Simulate, Moves, QueueStays, Fits, Counts, Step, Status, Open, Taken

LEMMA AcceptShape ==
    ASSUME Typed, NEW c \in Consumer, NEW v \in Taken, Accept(c, v)
    PROVE  Moves(c)
<1>1. Subject(c) \in Notification
  BY HandlingAnEntry DEF Typed, Accept
<1>2. GhostsTyped'
  BY <1>1, IncrementTyped
     DEF Typed, Accept, Inside, Queue!CallSucceeds, TypeOK, GhostsTyped
<1> QED
  BY <1>2 DEF Accept, Inside, Queue!CallSucceeds, Moves, QueueStays, Fits, Counts, Step, Status,
     Open, Taken

LEMMA RejectShape ==
    ASSUME Typed, NEW c \in Consumer, NEW v \in Failed \cup {"permanent-failure"}, Reject(c, v)
    PROVE  Moves(c)
<1>1. GhostsTyped'
  BY PartTyped DEF Typed, Reject, Inside, Queue!CallSucceeds
<1> QED
  BY <1>1 DEF Reject, Inside, Queue!CallSucceeds, Moves, QueueStays, Fits, Counts, Step, Status,
     Open, Taken, Failed, ghosts

LEMMA ProviderFailsShape ==
    ASSUME Typed, NEW c \in Consumer, NEW s \in {"write", "retry"}, NEW v \in Status \ Taken,
           ProviderFails(c, s, v), kind = "email" /\ s = "write" => v # "created"
    PROVE  Moves(c)
<1>1. Subject(c) \in Notification
  BY HandlingAnEntry DEF Typed, ProviderFails
<1>2. GhostsTyped'
  BY <1>1, IncrementTyped DEF Typed, ProviderFails, TypeOK, GhostsTyped
<1> QED
  BY <1>2 DEF ProviderFails, Moves, QueueStays, Fits, Counts, Step, Open

LEMMA RecordFailsShape ==
    ASSUME Typed, NEW c \in Consumer, RecordFails(c)
    PROVE  Breaks(c)
<1>1. Subject(c) \in Notification
  BY HandlingAnEntry DEF Typed, RecordFails
<1>2. status' = status \/ (~cancelled[c] /\ status' = Write(c))
  BY DEF RecordFails
<1>3. GhostsTyped'
  BY <1>1, <1>2, IncrementTyped, WriteTyped DEF Typed, RecordFails, TypeOK, GhostsTyped
<1> QED
  BY <1>2, <1>3 DEF RecordFails, Breaks

LEMMA CallbackFailsShape ==
    ASSUME Typed, NEW c \in Consumer, CallbackFails(c)
    PROVE  Breaks(c)
<1>1. Subject(c) \in Notification
  BY HandlingAnEntry DEF Typed, CallbackFails
<1>2. callbacks' = callbacks \/ callbacks' = Increment(callbacks, Subject(c))
  BY DEF CallbackFails
<1>3. GhostsTyped'
  BY <1>1, <1>2, IncrementTyped DEF Typed, CallbackFails, TypeOK, GhostsTyped
<1> QED
  BY <1>2, <1>3 DEF CallbackFails, Breaks

LEMMA CommonShape ==
    ASSUME Typed, NEW c \in Consumer,
           \/ NotFound(c) \/ Skip(c) \/ CallFails(c) \/ ErrorLasts(c) \/ RecordFails(c)
           \/ Retry(c) \/ EnqueueDeliveryStatusCallback(c) \/ CallbackFails(c)
    PROVE  Shape(c)
<1>1. CASE NotFound(c) \/ ErrorLasts(c) \/ Retry(c)
  BY <1>1, DeliveryAssumption DEF NotFound, ErrorLasts, Retry, Leaves, Queue!Outcome, Shape
<1>2. CASE Skip(c)
  BY <1>2 DEF Skip, Leaves, Queue!Outcome, Shape
<1>3. CASE CallFails(c)
  BY <1>3, PartTyped DEF Typed, CallFails, Breaks, Shape, ghosts
<1>4. CASE EnqueueDeliveryStatusCallback(c)
  BY <1>4 DEF EnqueueDeliveryStatusCallback, Inside, Queue!CallSucceeds, Tells, QueueStays, Shape
<1> QED
  BY <1>1, <1>2, <1>3, <1>4, RecordFailsShape, CallbackFailsShape DEF Shape

\* A step that leaves the row and the counts alone and gives no message back.
LEMMA StayShape ==
    ASSUME Typed, NEW c \in Consumer, NEW s, NEW v, Goto(c, s, v), Fits(s, v),
           kind = "email" /\ s = "write" => v # "created",
           \/ step[c] \in Open /\ s \in Open
           \/ step[c] = "bounce" /\ s = "done",
           step[c] # "write", v \notin Taken \/ s = "done",
           QueueStays, Queue!Fault \/ UNCHANGED faults, UNCHANGED <<status, ghosts>>
    PROVE  Moves(c)
<1>1. GhostsTyped'
  BY PartTyped DEF Typed
<1> QED
  BY <1>1 DEF Moves, Counts, ghosts

\* A step in which a call fails and nothing else happens.
LEMMA FailShape ==
    ASSUME Typed, NEW c \in Consumer, step[c] # "write", Fail(c), UNCHANGED <<status, ghosts>>
    PROVE  Shape(c)
  BY PartTyped DEF Typed, Breaks, Shape, ghosts

\* A step that writes the row.
LEMMA RecordShape ==
    ASSUME NEW c \in Consumer, NEW s \in {"toggle", "bounce", "callback", "done"}, Record(c, s),
           s = "toggle" <=> verdict[c] = "created",
           s = "callback" <=> verdict[c] \in Failed
    PROVE  Shape(c)
<1>1. /\ step[c] = "write" /\ status' = Write(c) /\ Goto(c, s, verdict[c])
      /\ ~cancelled[c] /\ QueueStays /\ UNCHANGED <<faults, ghosts>>
  BY DEF Record, Inside, Queue!CallSucceeds, QueueStays
<1> QED
  BY <1>1 DEF Records, Shape

LEMMA FinishShape ==
    ASSUME NEW c \in Consumer, NEW o \in Queue!Outcome, Finish(c, o)
    PROVE  Shape(c)
  BY DEF Finish, Leaves, Shape

\* Every step of the worker for texts has one of the shapes.
LEMMA SmsShape ==
    ASSUME Typed, kind = "sms", NEW c \in Consumer, DeliverSMS(c)
    PROVE  Shape(c)
<1>1. CASE \/ NotFound(c) \/ Skip(c) \/ CallFails(c) \/ ErrorLasts(c) \/ RecordFails(c)
           \/ Retry(c) \/ EnqueueDeliveryStatusCallback(c) \/ CallbackFails(c)
  BY <1>1, CommonShape
<1>2. CASE ProceedSMS(c) \/ RefuseSMS(c)
  BY <1>2, GoOnShape DEF ProceedSMS, RefuseSMS, Shape, Status, Failed, Taken
<1>3. CASE SentSMS(c)
  BY <1>3, SimulateShape, AcceptShape DEF SentSMS, Shape, Taken
<1>4. CASE RejectedSMS(c)
  BY <1>4, RejectShape DEF RejectedSMS, Shape, Status, Failed
<1>5. CASE SendFailsSMS(c)
  BY <1>5, ProviderFailsShape DEF SendFailsSMS, Shape, Status, Taken
<1>6. CASE WrittenSMS(c)
  <2>1. /\ Then(verdict[c]) \in {"toggle", "bounce", "callback", "done"}
        /\ Then(verdict[c]) = "toggle" <=> verdict[c] = "created"
        /\ Then(verdict[c]) = "callback" <=> verdict[c] \in Failed
    BY DEF Then, Failed
  <2> QED
    BY <1>6, <2>1, RecordShape DEF WrittenSMS
<1>7. CASE Toggle(c)
  <2>1. PICK s \in {"write", "retry"}, v \in {"technical-failure", "created"} : Goto(c, s, v)
    BY <1>7 DEF Toggle
  <2> QED
    BY <1>7, <2>1, StayShape DEF Toggle, Inside, Queue!CallSucceeds, QueueStays, Fits, Step,
       Status, Failed, Taken, Open, Shape
<1>8. CASE ToggleFails(c)
  BY <1>8, FailShape DEF ToggleFails
<1>9. CASE FinishedSMS(c)
  BY <1>9, FinishShape DEF FinishedSMS, Queue!Outcome
<1> QED
  BY <1>1, <1>2, <1>3, <1>4, <1>5, <1>6, <1>7, <1>8, <1>9 DEF DeliverSMS

\* Every step of the worker for mails has one of the shapes.
LEMMA EmailShape ==
    ASSUME Typed, kind = "email", NEW c \in Consumer, DeliverEmail(c)
    PROVE  Shape(c)
<1>1. CASE \/ NotFound(c) \/ Skip(c) \/ CallFails(c) \/ ErrorLasts(c) \/ RecordFails(c)
           \/ Retry(c) \/ Report(c)
  BY <1>1, CommonShape DEF Report
<1>2. CASE ProceedEmail(c) \/ RefuseEmail(c)
  BY <1>2, GoOnShape DEF ProceedEmail, RefuseEmail, Shape, Status, Failed, Taken
<1>3. CASE Pretend(c) \/ SentEmail(c)
  BY <1>3, SimulateShape, AcceptShape DEF Pretend, SentEmail, Shape, Taken
<1>4. CASE RejectedEmail(c)
  BY <1>4, RejectShape DEF RejectedEmail, Shape, Status, Failed
<1>5. CASE SendFailsEmail(c)
  BY <1>5, ProviderFailsShape DEF SendFailsEmail, Shape, Status, Failed, Taken
<1>6. CASE WrittenEmail(c)
  <2>1. verdict[c] # "created"
    BY <1>6 DEF Typed, MailsHaveVerdicts, WrittenEmail
  <2>2. PICK s \in {"bounce", "callback", "done"} :
           Record(c, s) /\ (s = "callback" <=> verdict[c] \in Failed)
    BY <1>6 DEF WrittenEmail, Failed
  <2> QED
    BY <2>1, <2>2, RecordShape
<1>7. CASE PiiFound(c) \/ BadAttachment(c) \/ Attached(c)
  <2>1. PICK s \in {"write", "send"}, v \in Status \ Taken : /\ Prepared(c, s, v)
                                                             /\ s = "write" => v # "created"
    BY <1>7 DEF PiiFound, BadAttachment, Attached, Status, Failed, Taken
  <2> QED
    BY <2>1, StayShape DEF Prepared, Inside, Queue!CallSucceeds, QueueStays, Fits, Step,
       Open, Shape
<1>8. CASE ScanInProgress(c)
  <2>1. Queue!Fault \/ UNCHANGED faults
    BY <1>8 DEF ScanInProgress
  <2> QED
    BY <1>8, <2>1, StayShape DEF ScanInProgress, QueueStays, Fits, Step, Status, Taken, Open,
       Shape
<1>9. CASE CountForBounceRate(c)
  <2>1. verdict[c] \in Status \ {"created"}
    BY <1>9 DEF Typed, TypeOK, CountForBounceRate
  <2> QED
    BY <1>9, <2>1, StayShape DEF CountForBounceRate, Inside, Queue!CallSucceeds, QueueStays,
       Fits, Step, Shape
<1>10. CASE BounceRateFails(c)
  BY <1>10, FailShape DEF BounceRateFails
<1>11. CASE FinishedEmail(c)
  BY <1>11, FinishShape DEF FinishedEmail, Queue!Outcome
<1> QED
  BY <1>1, <1>2, <1>3, <1>4, <1>5, <1>6, <1>7, <1>8, <1>9, <1>10, <1>11
     DEF DeliverEmail, Load, Prepare, Report

LEMMA DeliverShape ==
    ASSUME Typed, NEW c \in Consumer, Deliver(c)
    PROVE  Shape(c)
  BY SmsShape, EmailShape DEF Deliver


-----------------------------------------------------------------------------
(* Type correctness.                                                       *)

LEMMA ShapeTyped ==
    ASSUME Typed, NEW c \in Consumer, step[c] # "idle", Shape(c), UNCHANGED kind
    PROVE  Typed'
<1>1. Subject(c) \in Notification
  BY HandlingAnEntry DEF Typed
<1>2. ASSUME NEW s, NEW v, Goto(c, s, v), kind = "email" /\ s = "write" => v # "created"
      PROVE  MailsHaveVerdicts'
  BY <1>2 DEF Typed, MailsHaveVerdicts, TypeOK, Goto
<1>3. CASE Leaves(c)
  <2>1. PICK o \in Queue!Outcome : Return(c, o)
    BY <1>3 DEF Leaves
  <2>2. TypeOK'
    BY <1>3, <2>1, ReturnTyped, PartTyped DEF Typed, Leaves
  <2> QED
    BY <1>2, <2>1, <2>2 DEF Typed, Return
<1>4. CASE Moves(c)
  <2>1. PICK s, v : /\ Goto(c, s, v) /\ Fits(s, v) /\ s \in Open \cup {"done"}
                    /\ kind = "email" /\ s = "write" => v # "created"
    BY <1>4 DEF Moves
  <2>2. TypeOK'
    BY <1>4, <2>1, MoveTyped, FaultTyped DEF Typed, Moves, QueueStays, Open
  <2> QED
    BY <1>2, <2>1, <2>2 DEF Typed
<1>5. CASE Records(c)
  <2>1. PICK s \in {"toggle", "bounce", "callback", "done"} :
           /\ Goto(c, s, verdict[c])
           /\ s = "toggle" <=> verdict[c] = "created"
           /\ s = "callback" => verdict[c] \in Failed
    BY <1>5 DEF Records
  <2>2. GhostsTyped'
    BY <1>5, WriteTyped DEF Typed, Records, TypeOK, GhostsTyped, ghosts
  <2>3. Fits(s, verdict[c])
    BY <2>1 DEF Typed, TypeOK, Fits, Step
  <2>4. TypeOK'
    BY <1>5, <2>1, <2>2, <2>3, MoveTyped, FaultTyped DEF Typed, Records, QueueStays
  <2> QED
    BY <1>2, <2>1, <2>4 DEF Typed
<1>6. CASE Breaks(c)
  BY <1>2, <1>6, FailTyped DEF Typed, Breaks, Fail
<1>7. CASE Tells(c)
  <2>1. GhostsTyped'
    BY <1>1, <1>7, IncrementTyped DEF Typed, Tells, TypeOK, GhostsTyped
  <2>2. Fits("done", verdict[c])
    BY <1>7 DEF Typed, TypeOK, Fits, Step, Tells
  <2>3. TypeOK'
    BY <1>7, <2>1, <2>2, MoveTyped, FaultTyped DEF Typed, Tells, QueueStays
  <2> QED
    BY <1>2, <1>7, <2>3 DEF Typed, Tells
<1> QED
  BY <1>3, <1>4, <1>5, <1>6, <1>7 DEF Shape

\* A handler that makes a step is not idle.
LEMMA ShapeIsBusy ==
    ASSUME Typed, NEW c \in Consumer, Deliver(c)
    PROVE  step[c] # "idle"
<1>1. CASE DeliverSMS(c)
  BY <1>1 DEF DeliverSMS, NotFound, Skip, ProceedSMS, RefuseSMS, GoOn, CallFails, ErrorLasts,
     SentSMS, Accept, RejectedSMS, Reject, SendFailsSMS, ProviderFails, WrittenSMS, Record, RecordFails, Toggle,
     ToggleFails, Retry, EnqueueDeliveryStatusCallback, CallbackFails, FinishedSMS, Finish
<1>2. CASE DeliverEmail(c)
  <2>1. CASE Prepare(c)
    BY <2>1 DEF Prepare, Pretend, PiiFound, BadAttachment, ScanInProgress, Attached, Prepared
  <2>2. CASE ~Prepare(c)
    BY <1>2, <2>2 DEF DeliverEmail, Load, NotFound, Skip, ProceedEmail, RefuseEmail, GoOn,
       CallFails, ErrorLasts, SentEmail, Accept, RejectedEmail, Reject, SendFailsEmail, WrittenEmail, Record,
       RecordFails, Retry, Report, EnqueueDeliveryStatusCallback, CallbackFails,
       CountForBounceRate, BounceRateFails, FinishedEmail, Finish
  <2> QED
    BY <2>1, <2>2
<1> QED
  BY <1>1, <1>2 DEF Deliver

LEMMA AroundTyped ==
    ASSUME Typed, NEW c \in Consumer, Around(c), UNCHANGED kind
    PROVE  Typed'
<1> USE DeliveryAssumption
<1>1. ASSUME NEW S \in SUBSET Notification, Receive(c, S)
      PROVE  Typed'
  <2>1. Queue!TypeOK'
    BY <1>1, Queue!ReceiveTyped DEF Receive, Typed, TypeOK
  <2>2. \A d \in Consumer : phase'[d] = "handling" <=> phase[d] = "handling"
    BY <1>1 DEF Receive, Queue!Receive, Typed, TypeOK, Queue!TypeOK
  <2>3. UNCHANGED current
    BY <1>1 DEF Receive, Queue!Receive
  <2>4. UNCHANGED <<status, step, verdict, accepted, callbacks, unrecorded, overtaken>>
    BY <1>1 DEF Receive, deliveryVars, ghosts
  <2> QED
    BY <2>1, <2>2, <2>3, <2>4 DEF Typed, TypeOK, MailsHaveVerdicts
<1>2. ASSUME NEW e \in batch[c], Start(c, e)
      PROVE  Typed'
  <2>1. Queue!TypeOK'
    BY <1>2, Queue!TakeTyped DEF Start, Typed, TypeOK
  <2>2. e # NoEntry
    BY NoEntryAssumption DEF Typed, TypeOK, Queue!TypeOK, Queue!Entry
  <2>3. /\ current' = [current EXCEPT ![c] = e] /\ phase' = [phase EXCEPT ![c] = "handling"]
        /\ step' = [step EXCEPT ![c] = "load"] /\ verdict' = [verdict EXCEPT ![c] = "created"]
        /\ UNCHANGED <<status, accepted, callbacks, unrecorded, overtaken>>
    BY <1>2 DEF Start, Queue!Take, Goto, ghosts
  <2>4. step' \in [Consumer -> Step] /\ verdict' \in [Consumer -> Status]
    BY <2>3 DEF Typed, TypeOK, Step, Status
  <2>5. \A d \in Consumer : d # c => /\ current'[d] = current[d] /\ phase'[d] = phase[d]
                                     /\ step'[d] = step[d] /\ verdict'[d] = verdict[d]
    BY <2>3 DEF Typed, TypeOK, Queue!TypeOK
  <2>6. current'[c] # NoEntry /\ phase'[c] = "handling" /\ step'[c] = "load"
    BY <2>2, <2>3 DEF Typed, TypeOK, Queue!TypeOK
  <2>7. TypeOK'
    BY <2>1, <2>3, <2>4, <2>5, <2>6 DEF Typed, TypeOK
  <2> QED
    BY <2>5, <2>6, <2>7 DEF Typed, MailsHaveVerdicts
<1>3. CASE Cancel(c)
  <2>1. Queue!TypeOK'
    BY <1>3, Queue!QueueStepTyped DEF Cancel, Typed, TypeOK
  <2> QED
    BY <1>3, <2>1 DEF Cancel, Queue!Cancel, Typed, TypeOK, MailsHaveVerdicts, deliveryVars, ghosts
<1>4. CASE Exit(c) \/ Restart(c)
  <2>1. Queue!TypeOK'
    BY <1>4, Queue!QueueStepTyped DEF Exit, Restart, Typed, TypeOK
  <2>2. \A d \in Consumer : phase'[d] = "handling" <=> phase[d] = "handling"
    BY <1>4 DEF Exit, Queue!Exit, Restart, Queue!Restart, Typed, TypeOK, Queue!TypeOK
  <2>3. UNCHANGED <<current, status, step, verdict, accepted, callbacks, unrecorded, overtaken>>
    BY <1>4 DEF Exit, Queue!Exit, Restart, Queue!Restart, deliveryVars, ghosts
  <2> QED
    BY <2>1, <2>2, <2>3 DEF Typed, TypeOK, MailsHaveVerdicts
<1>5. CASE Crash(c)
  <2>1. Queue!TypeOK'
    BY <1>5, Queue!QueueStepTyped DEF Crash, Typed, TypeOK
  <2>2. unrecorded' \in [Notification -> Nat]
    BY <1>5, HandlingAnEntry, IncrementTyped DEF Crash, Typed, TypeOK
  <2>3. /\ current' = [current EXCEPT ![c] = NoEntry] /\ phase' = [phase EXCEPT ![c] = "polling"]
        /\ step' = [step EXCEPT ![c] = "idle"] /\ verdict' = [verdict EXCEPT ![c] = "created"]
        /\ UNCHANGED <<status, accepted, callbacks, overtaken>>
    BY <1>5 DEF Crash, Queue!Crash, Goto
  <2>4. step' \in [Consumer -> Step] /\ verdict' \in [Consumer -> Status]
    BY <2>3 DEF Typed, TypeOK, Step, Status
  <2>5. \A d \in Consumer : d # c => /\ current'[d] = current[d] /\ phase'[d] = phase[d]
                                     /\ step'[d] = step[d] /\ verdict'[d] = verdict[d]
    BY <2>3 DEF Typed, TypeOK, Queue!TypeOK
  <2>6. current'[c] = NoEntry /\ phase'[c] = "polling" /\ step'[c] = "idle"
    BY <2>3 DEF Typed, TypeOK, Queue!TypeOK
  <2>7. TypeOK'
    BY <2>1, <2>2, <2>3, <2>4, <2>5, <2>6 DEF Typed, TypeOK
  <2> QED
    BY <2>5, <2>6, <2>7 DEF Typed, MailsHaveVerdicts
<1> QED
  BY <1>1, <1>2, <1>3, <1>4, <1>5 DEF Around

LEMMA EnvironmentTyped ==
    ASSUME Typed, NEW n \in Notification, Send(n) \/ VisibilityTimeout(n), UNCHANGED kind
    PROVE  Typed'
<1>1. Queue!TypeOK'
  BY DEF Send, VisibilityTimeout, Queue!Send, Queue!VisibilityTimeout, Typed, TypeOK, Queue!TypeOK
<1>2. UNCHANGED <<current, phase>>
  BY DEF Send, VisibilityTimeout, Queue!Send, Queue!VisibilityTimeout
<1>3. UNCHANGED <<status, step, verdict, accepted, callbacks, unrecorded>>
  BY DEF Send, VisibilityTimeout, deliveryVars, ghosts
<1>4. overtaken' \in [Notification -> 0 .. MaxOvertakes]
  <2>1. CASE Send(n)
    BY <2>1 DEF Send, deliveryVars, ghosts, Typed, TypeOK
  <2>2. CASE VisibilityTimeout(n)
    BY <2>2, DeliveryAssumption DEF VisibilityTimeout, Increment, Typed, TypeOK
  <2> QED
    BY <2>1, <2>2
<1> QED
  BY <1>1, <1>2, <1>3, <1>4 DEF Typed, TypeOK, MailsHaveVerdicts

LEMMA InitTyped == QueueInit => Typed
  BY DeliveryAssumption
     DEF QueueInit, Init, Queue!Init, Queue!TypeOK, Typed, TypeOK, MailsHaveVerdicts, Step, Status

LEMMA NextTyped == Typed /\ [Next]_queueVars => Typed'
<1> SUFFICES ASSUME Typed, [Next]_queueVars PROVE Typed'
  OBVIOUS
<1>1. ASSUME NEW n \in Notification, Send(n) \/ VisibilityTimeout(n), UNCHANGED kind
      PROVE  Typed'
  BY <1>1, EnvironmentTyped
<1>2. ASSUME NEW c \in Consumer, Around(c), UNCHANGED kind
      PROVE  Typed'
  BY <1>2, AroundTyped
<1>3. ASSUME NEW c \in Consumer, Deliver(c), UNCHANGED kind
      PROVE  Typed'
  BY <1>3, DeliverShape, ShapeIsBusy, ShapeTyped
<1>4. CASE UNCHANGED queueVars
  BY <1>4 DEF queueVars, vars, Queue!queueVars, deliveryVars, ghosts, Typed, TypeOK,
     Queue!TypeOK, MailsHaveVerdicts
<1> QED
  BY <1>1, <1>2, <1>3, <1>4 DEF Next

\* The types hold for any notifications, consumers and bounds.
THEOREM TypeCorrect == Spec => []TypeOK
<1>1. Typed => TypeOK
  BY DEF Typed
<1> QED
  BY <1>1, InitTyped, NextTyped, PTL DEF Spec


-----------------------------------------------------------------------------
(* Safety.  The inductive invariant says who may touch a row: while a      *)
(* message was never overtaken, one consumer at most has it, and what its  *)
(* handler is about to do fits what the row says.                          *)

\* A message no worker was overtaken with has one holder at most, who has it
\* once, and none before it is received.
OwnerInv ==
    \A n \in Notification : overtaken[n] = 0 =>
        /\ place[n] \in {"unsent", "visible"} => \A c \in Consumer : ~Holds(c, n)
        /\ \A c, d \in Consumer : Holds(c, n) /\ Holds(d, n) => c = d
        /\ \A c \in Consumer : \A e, f \in batch[c] : e.msg = n /\ f.msg = n => e = f
        /\ \A c \in Consumer : \A e \in batch[c] :
              e.msg = n => current[c] = NoEntry \/ Subject(c) # n

\* After the write the row tells an outcome.
Recorded ==
    \A c \in Consumer :
        step[c] \in {"bounce", "callback", "done"} => status[Subject(c)] # "created"

\* Before the write the row is untouched and the service not told; between
\* the write and the callback the row says what the service will be told.
Fate ==
    \A c \in Consumer : step[c] # "idle" /\ overtaken[Subject(c)] = 0 =>
        /\ step[c] \in Open => status[Subject(c)] = "created" /\ callbacks[Subject(c)] = 0
        /\ step[c] = "callback" =>
              status[Subject(c)] = verdict[c] /\ callbacks[Subject(c)] = 0

\* While no worker was overtaken, the service is told once at most, and of
\* nothing but a failure that the row tells.
CalmCallbacks ==
    \A n \in Notification : overtaken[n] = 0 =>
        callbacks[n] <= IF status[n] \in Failed THEN 1 ELSE 0

IInv == Typed /\ OwnerInv /\ Recorded /\ Fate /\ DeletedIsFinal /\ CalmCallbacks


\* What a step of a handler leaves alone: only its own entry, its own row and
\* its own service's callbacks change, and each only as the step it is at says.
Effects(c) ==
    /\ UNCHANGED <<batch, overtaken>>
    /\ \A d \in Consumer : d # c => /\ current'[d] = current[d]
                                    /\ step'[d] = step[d] /\ verdict'[d] = verdict[d]
    /\ current'[c] \in {current[c], NoEntry}
    /\ step'[c] # "idle" => current'[c] = current[c]
    /\ \A n \in Notification :
          /\ place'[n] # place[n] =>
                /\ place'[n] = "deleted" /\ n = Subject(c)
                /\ step[c] = "done" \/ status[n] # "created"
                /\ UNCHANGED status
          /\ status'[n] # status[n] =>
                /\ n = Subject(c) /\ step[c] = "write"
                /\ verdict[c] # "created" /\ status'[n] = verdict[c]
          /\ callbacks'[n] # callbacks[n] =>
                n = Subject(c) /\ step[c] = "callback" /\ callbacks'[n] = callbacks[n] + 1

LEMMA GotoElsewhere ==
    ASSUME TypeOK, NEW c \in Consumer, NEW s, NEW v, Goto(c, s, v)
    PROVE  /\ step'[c] = s /\ verdict'[c] = v
           /\ \A d \in Consumer : d # c => step'[d] = step[d] /\ verdict'[d] = verdict[d]
  BY DEF TypeOK, Goto

LEMMA NextMessageElsewhere ==
    ASSUME TypeOK, NEW c \in Consumer, Queue!NextMessage(c)
    PROVE  /\ current'[c] = NoEntry /\ UNCHANGED batch
           /\ \A d \in Consumer : d # c => current'[d] = current[d]
  BY DEF TypeOK, Queue!TypeOK, Queue!NextMessage

LEMMA WriteElsewhere ==
    ASSUME TypeOK, NEW c \in Consumer, step[c] = "write", status' = Write(c)
    PROVE  \A n \in Notification : status'[n] # status[n] =>
              n = Subject(c) /\ verdict[c] # "created" /\ status'[n] = verdict[c]
  BY DEF TypeOK, Write

LEMMA ShapeEffects ==
    ASSUME Typed, NEW c \in Consumer, step[c] # "idle", Shape(c)
    PROVE  Effects(c)
<1> USE DEF Typed
<1>1. Subject(c) \in Notification
  BY HandlingAnEntry
<1>2. CASE Leaves(c)
  <2>1. PICK o \in Queue!Outcome :
           Return(c, o) /\ (o = "ok" => step[c] = "done" \/ status[Subject(c)] # "created")
    BY <1>2 DEF Leaves
  <2>2. /\ Goto(c, "idle", "created") /\ Queue!NextMessage(c)
        /\ UNCHANGED <<status, callbacks, overtaken>>
    BY <1>2, <2>1 DEF Leaves, Return, Queue!Complete, ghosts
  <2>3. \/ place' = place
        \/ o = "ok" /\ place' = [place EXCEPT ![Subject(c)] = "deleted"]
    BY <2>1 DEF Return, Queue!Complete, Queue!Settle, Queue!DeleteMessage,
       Queue!ChangeMessageVisibility, Subject
  <2>4. \A n \in Notification : place'[n] # place[n] =>
           /\ place'[n] = "deleted" /\ n = Subject(c)
           /\ step[c] = "done" \/ status[n] # "created"
    BY <2>1, <2>3 DEF TypeOK, Queue!TypeOK
  <2> QED
    BY <2>2, <2>4, GotoElsewhere, NextMessageElsewhere DEF Effects
<1>3. CASE Moves(c)
  <2>1. /\ \E s, v : Goto(c, s, v)
        /\ UNCHANGED <<place, batch, current, status, callbacks, overtaken>>
    BY <1>3 DEF Moves, QueueStays
  <2> QED
    BY <2>1, GotoElsewhere DEF Effects
<1>4. CASE Records(c)
  <2>1. /\ \E s, v : Goto(c, s, v)
        /\ UNCHANGED <<place, batch, current, callbacks, overtaken>>
        /\ step[c] = "write" /\ status' = Write(c)
    BY <1>4 DEF Records, QueueStays, ghosts
  <2> QED
    BY <2>1, GotoElsewhere, WriteElsewhere DEF Effects
<1>5. CASE Breaks(c)
  <2>1. /\ Goto(c, "idle", "created") /\ Queue!NextMessage(c)
        /\ UNCHANGED <<place, overtaken>>
    BY <1>5 DEF Breaks, Fail, Queue!Abort
  <2>2. \A n \in Notification : status'[n] # status[n] =>
           /\ n = Subject(c) /\ step[c] = "write"
           /\ verdict[c] # "created" /\ status'[n] = verdict[c]
    BY <1>5, WriteElsewhere DEF Breaks
  <2>3. \A n \in Notification : callbacks'[n] # callbacks[n] =>
           n = Subject(c) /\ step[c] = "callback" /\ callbacks'[n] = callbacks[n] + 1
    BY <1>5 DEF Breaks, Increment, TypeOK
  <2> QED
    BY <2>1, <2>2, <2>3, GotoElsewhere, NextMessageElsewhere DEF Effects
<1>6. CASE Tells(c)
  <2>1. /\ Goto(c, "done", verdict[c])
        /\ UNCHANGED <<place, batch, current, status, overtaken>>
    BY <1>6 DEF Tells, QueueStays
  <2>2. \A n \in Notification : callbacks'[n] # callbacks[n] =>
           n = Subject(c) /\ step[c] = "callback" /\ callbacks'[n] = callbacks[n] + 1
    BY <1>6 DEF Tells, Increment, TypeOK
  <2> QED
    BY <2>1, <2>2, GotoElsewhere DEF Effects
<1> QED
  BY <1>2, <1>3, <1>4, <1>5, <1>6 DEF Shape

\* Giving messages up and deleting them keeps the holders apart.
LEMMA HolderKept ==
    ASSUME OwnerInv,
           \A d \in Consumer : batch'[d] \subseteq batch[d] /\ current'[d] \in {current[d], NoEntry},
           \A n \in Notification : place'[n] \in {place[n], "deleted"},
           UNCHANGED overtaken
    PROVE  OwnerInv'
<1>1. \A d \in Consumer, n \in Notification : Holds(d, n)' => Holds(d, n)
  BY DEF Holds, Subject
<1> QED
  BY <1>1 DEF OwnerInv, Subject

\* No step of a handler undoes what a row or a callback says of another
\* message, and its own moves on as the invariant has it.
LEMMA DeliverKeeps ==
    ASSUME IInv, NEW c \in Consumer, step[c] # "idle", Shape(c), Typed'
    PROVE  IInv'
<1> USE DEF IInv
<1> DEFINE n == Subject(c)
<1>1. /\ n \in Notification /\ current[c] # NoEntry /\ Effects(c)
  BY HandlingAnEntry, ShapeEffects DEF Typed
<1>2. \A m \in Notification : status'[m] # "created" \/ status[m] = "created"
  BY <1>1 DEF Effects
<1>3. OwnerInv'
  BY <1>1, HolderKept DEF Effects
<1>4. \A d \in Consumer : step'[d] # "idle" => /\ Subject(d)' = Subject(d)
                                               /\ step[d] # "idle" /\ Subject(d) \in Notification
  BY <1>1, HandlingAnEntry DEF Effects, Subject, Typed
<1>5. DeletedIsFinal'
  BY <1>1, <1>2 DEF DeletedIsFinal, Effects, Recorded
<1>6. step'[c] \in {"bounce", "callback", "done"} => status'[n] # "created"
  <2>1. CASE Leaves(c) \/ Breaks(c)
    BY <2>1, GotoElsewhere DEF Leaves, Return, Breaks, Fail, Typed
  <2>2. CASE Moves(c)
    BY <2>2, <1>1, GotoElsewhere DEF Moves, Recorded, Open, Typed
  <2>3. CASE Records(c)
    BY <2>3, <1>1, GotoElsewhere DEF Records, Write, Typed, TypeOK
  <2>4. CASE Tells(c)
    BY <2>4 DEF Tells, Recorded
  <2> QED
    BY <2>1, <2>2, <2>3, <2>4 DEF Shape
<1>7. Recorded'
  BY <1>1, <1>2, <1>4, <1>6 DEF Recorded, Effects
<1>8. overtaken[n] = 0 =>
         /\ step'[c] \in Open => status'[n] = "created" /\ callbacks'[n] = 0
         /\ step'[c] = "callback" => status'[n] = verdict'[c] /\ callbacks'[n] = 0
  <2> SUFFICES ASSUME overtaken[n] = 0
               PROVE  /\ step'[c] \in Open => status'[n] = "created" /\ callbacks'[n] = 0
                      /\ step'[c] = "callback" => status'[n] = verdict'[c] /\ callbacks'[n] = 0
    OBVIOUS
  <2>1. step[c] \in Open => status[n] = "created" /\ callbacks[n] = 0
    BY DEF Fate
  <2>2. status[n] = "created" => callbacks[n] = 0
    BY <1>1 DEF CalmCallbacks, Failed, Typed, TypeOK
  <2>3. CASE Leaves(c) \/ Breaks(c)
    BY <2>3, GotoElsewhere DEF Leaves, Return, Breaks, Fail, Typed, Open
  <2>4. CASE Moves(c)
    BY <2>1, <2>2, <2>4, GotoElsewhere DEF Moves, Typed, Open
  <2>5. CASE Records(c)
    <3>1. step[c] \in Open /\ UNCHANGED callbacks /\ status' = Write(c)
      BY <2>5 DEF Records, Open, ghosts
    <3>2. PICK s : /\ step'[c] = s /\ verdict'[c] = verdict[c]
                   /\ s \in {"toggle", "bounce", "callback", "done"}
                   /\ s = "toggle" <=> verdict[c] = "created"
                   /\ s = "callback" => verdict[c] \in Failed
      BY <2>5, GotoElsewhere DEF Records, Typed
    <3>3. CASE verdict[c] = "created"
      BY <2>1, <3>1, <3>2, <3>3 DEF Write
    <3>4. CASE verdict[c] # "created"
      <4>1. status'[n] = verdict[c]
        BY <1>1, <3>1, <3>4 DEF Write, Typed, TypeOK
      <4> QED
        BY <2>1, <3>1, <3>2, <3>4, <4>1 DEF Open
    <3> QED
      BY <3>3, <3>4
  <2>6. CASE Tells(c)
    BY <2>6, GotoElsewhere DEF Tells, Typed, Open
  <2> QED
    BY <2>3, <2>4, <2>5, <2>6 DEF Shape
<1>9. \A d \in Consumer : d # c /\ step[d] # "idle" /\ overtaken[Subject(d)] = 0 => Subject(d) # n
  BY <1>1, HandlingAnEntry DEF OwnerInv, Holds, Typed
<1>10. Fate'
  <2> SUFFICES ASSUME NEW d \in Consumer, step'[d] # "idle", overtaken'[Subject(d)'] = 0
               PROVE  /\ step'[d] \in Open => /\ status'[Subject(d)'] = "created"
                                              /\ callbacks'[Subject(d)'] = 0
                      /\ step'[d] = "callback" => /\ status'[Subject(d)'] = verdict'[d]
                                                  /\ callbacks'[Subject(d)'] = 0
    BY DEF Fate
  <2>1. CASE d = c
    BY <1>1, <1>4, <1>8, <2>1 DEF Effects
  <2>2. CASE d # c
    <3>1. /\ Subject(d)' = Subject(d) /\ Subject(d) \in Notification /\ Subject(d) # n
          /\ step'[d] = step[d] /\ verdict'[d] = verdict[d] /\ overtaken[Subject(d)] = 0
      BY <1>1, <1>4, <1>9, <2>2 DEF Effects
    <3>2. /\ status'[Subject(d)] = status[Subject(d)]
          /\ callbacks'[Subject(d)] = callbacks[Subject(d)]
      BY <1>1, <3>1 DEF Effects
    <3> QED
      BY <3>1, <3>2 DEF Fate
  <2> QED
    BY <2>1, <2>2
<1>11. CalmCallbacks'
  <2> SUFFICES ASSUME NEW m \in Notification, overtaken'[m] = 0
               PROVE  callbacks'[m] <= IF status'[m] \in Failed THEN 1 ELSE 0
    BY DEF CalmCallbacks
  <2>1. overtaken[m] = 0 /\ callbacks[m] \in Nat
    BY <1>1 DEF Effects, Typed, TypeOK
  <2>2. CASE callbacks'[m] # callbacks[m]
    <3>1. m = n /\ step[c] = "callback" /\ callbacks'[m] = callbacks[m] + 1
      BY <1>1, <2>2 DEF Effects
    <3>2. status[m] \in Failed /\ callbacks[m] = 0
      BY <2>1, <3>1 DEF Fate, Typed, TypeOK
    <3>3. status'[m] = status[m]
      BY <1>1, <3>1 DEF Effects
    <3> QED
      BY <3>1, <3>2, <3>3
  <2>3. CASE callbacks'[m] = callbacks[m] /\ status'[m] # status[m]
    <3>1. m = n /\ step[c] = "write"
      BY <1>1, <2>3 DEF Effects
    <3>2. callbacks[m] = 0
      BY <2>1, <3>1 DEF Fate, Open
    <3> QED
      BY <2>3, <3>2
  <2>4. CASE callbacks'[m] = callbacks[m] /\ status'[m] = status[m]
    BY <2>1, <2>4 DEF CalmCallbacks
  <2> QED
    BY <2>2, <2>3, <2>4
<1> QED
  BY <1>3, <1>5, <1>7, <1>10, <1>11


\* Whatever stops a consumer takes nothing back from the rows.
LEMMA StopKeeps ==
    ASSUME IInv, Typed',
           UNCHANGED <<place, status, callbacks, overtaken>>,
           \A d \in Consumer : /\ batch'[d] \subseteq batch[d]
                               /\ \/ current'[d] = NoEntry /\ step'[d] = "idle"
                                  \/ /\ current'[d] = current[d]
                                     /\ step'[d] = step[d] /\ verdict'[d] = verdict[d]
    PROVE  IInv'
<1>1. OwnerInv'
  BY HolderKept DEF IInv
<1>2. \A d \in Consumer : step'[d] # "idle" => /\ Subject(d)' = Subject(d) /\ step'[d] = step[d]
                                               /\ verdict'[d] = verdict[d]
  BY DEF Subject
<1>3. Recorded' /\ Fate'
  BY <1>2 DEF IInv, Recorded, Fate
<1> QED
  BY <1>1, <1>3 DEF IInv, DeletedIsFinal, CalmCallbacks

\* A message that is received had no holder, and gets one.
LEMMA ReceiveKeeps ==
    ASSUME IInv, Typed', NEW c \in Consumer, NEW S \in SUBSET Notification, Receive(c, S)
    PROVE  IInv'
<1> USE DEF IInv
<1>1. /\ UNCHANGED <<current, status, step, verdict, callbacks, overtaken>>
      /\ phase[c] = "polling" /\ current[c] = NoEntry
      /\ \A m \in S : place[m] = "visible"
      /\ place' = [m \in Notification |-> IF m \in S THEN "inflight" ELSE place[m]]
  BY DEF Receive, Queue!Receive, deliveryVars, ghosts, Typed, TypeOK
<1>2. /\ batch'[c] = {[msg |-> m, count |-> received'[m]] : m \in S}
      /\ \A d \in Consumer : d # c => batch'[d] = batch[d]
  BY DEF Receive, Queue!Receive, Typed, TypeOK, Queue!TypeOK
<1>3. ASSUME NEW n \in Notification, overtaken'[n] = 0
      PROVE  /\ place'[n] \in {"unsent", "visible"} => \A d \in Consumer : ~Holds(d, n)'
             /\ \A d, e \in Consumer : Holds(d, n)' /\ Holds(e, n)' => d = e
             /\ \A d \in Consumer : \A e, f \in batch'[d] : e.msg = n /\ f.msg = n => e = f
             /\ \A d \in Consumer : \A e \in batch'[d] :
                   e.msg = n => current'[d] = NoEntry \/ Subject(d)' # n
  <2>1. overtaken[n] = 0
    BY <1>1, <1>3
  <2>2. Holds(c, n)' => n \in S
    BY <1>1, <1>2 DEF Holds
  <2>3. \A d \in Consumer : d # c => (Holds(d, n)' <=> Holds(d, n))
    BY <1>1, <1>2 DEF Holds, Subject
  <2>4. n \in S => \A d \in Consumer : ~Holds(d, n)
    BY <1>1, <2>1 DEF OwnerInv
  <2>5. n \in S => place'[n] = "inflight"
    BY <1>1
  <2>6. n \notin S => place'[n] = place[n]
    BY <1>1
  <2>7. \A e, f \in batch'[c] : e.msg = n /\ f.msg = n => e = f
    BY <1>2
  <2>8. place'[n] \in {"unsent", "visible"} => \A d \in Consumer : ~Holds(d, n)'
    BY <2>1, <2>2, <2>3, <2>5, <2>6 DEF OwnerInv
  <2>9. \A d, e \in Consumer : Holds(d, n)' /\ Holds(e, n)' => d = e
    BY <2>1, <2>2, <2>3, <2>4 DEF OwnerInv
  <2>10. \A d \in Consumer : \A e, f \in batch'[d] : e.msg = n /\ f.msg = n => e = f
    BY <1>2, <2>1, <2>7 DEF OwnerInv
  <2>11. \A d \in Consumer : \A e \in batch'[d] :
            e.msg = n => current'[d] = NoEntry \/ Subject(d)' # n
    BY <1>1, <1>2, <2>1 DEF OwnerInv, Subject
  <2> QED
    BY <2>8, <2>9, <2>10, <2>11
<1>4. OwnerInv'
  BY <1>3 DEF OwnerInv
<1>5. \A n \in Notification : place'[n] = "deleted" => place[n] = "deleted"
  BY <1>1
<1> QED
  BY <1>1, <1>4, <1>5 DEF Recorded, Fate, Subject, DeletedIsFinal, CalmCallbacks

\* The handler that starts looks at the row first.
LEMMA StartKeeps ==
    ASSUME IInv, Typed', NEW c \in Consumer, NEW e \in batch[c], Start(c, e)
    PROVE  IInv'
<1> USE DEF IInv
<1>1. /\ UNCHANGED <<place, status, callbacks, overtaken>>
      /\ phase[c] = "batch" /\ current[c] = NoEntry
  BY DEF Start, Queue!Take, ghosts, Typed, TypeOK
<1>2. /\ current'[c] = e /\ batch'[c] = batch[c] \ {e} /\ step'[c] = "load"
      /\ \A d \in Consumer : d # c => /\ current'[d] = current[d] /\ batch'[d] = batch[d]
                                      /\ step'[d] = step[d] /\ verdict'[d] = verdict[d]
  BY DEF Start, Queue!Take, Goto, Typed, TypeOK, Queue!TypeOK
<1>3. \A d \in Consumer, n \in Notification : Holds(d, n)' => Holds(d, n)
  BY <1>1, <1>2 DEF Holds, Subject
<1>4. \A d \in Consumer : batch'[d] \subseteq batch[d]
  BY <1>2
<1>5. ASSUME NEW n \in Notification, overtaken'[n] = 0, NEW d \in Consumer,
             NEW f \in batch'[d], f.msg = n
      PROVE  current'[d] = NoEntry \/ Subject(d)' # n
  <2>1. overtaken[n] = 0 /\ f \in batch[d]
    BY <1>1, <1>4, <1>5
  <2>2. CASE d = c
    <3>1. f # e
      BY <1>2, <2>2
    <3>2. e.msg # n
      BY <1>5, <2>1, <2>2, <3>1 DEF OwnerInv
    <3> QED
      BY <1>2, <2>2, <3>2 DEF Subject
  <2>3. CASE d # c
    BY <1>2, <1>5, <2>1, <2>3 DEF OwnerInv, Subject
  <2> QED
    BY <2>2, <2>3
<1>6. OwnerInv'
  BY <1>1, <1>3, <1>4, <1>5 DEF OwnerInv
<1>7. \A d \in Consumer : step'[d] \notin {"idle", "load"} =>
         d # c /\ Subject(d)' = Subject(d) /\ step'[d] = step[d] /\ verdict'[d] = verdict[d]
  BY <1>2 DEF Subject
<1>8. Recorded' /\ Fate'
  BY <1>1, <1>7 DEF Recorded, Fate, Open
<1> QED
  BY <1>1, <1>6, <1>8 DEF DeletedIsFinal, CalmCallbacks

LEMMA AroundKeeps ==
    ASSUME IInv, Typed', NEW c \in Consumer, Around(c)
    PROVE  IInv'
<1> USE DEF IInv
<1>1. CASE Cancel(c) \/ Exit(c) \/ Restart(c)
  <2>1. UNCHANGED <<place, batch, current, status, step, verdict, callbacks, overtaken>>
    BY <1>1 DEF Cancel, Queue!Cancel, Exit, Queue!Exit, Restart, Queue!Restart, deliveryVars, ghosts
  <2> QED
    BY <2>1, StopKeeps
<1>2. CASE Crash(c)
  <2>1. /\ UNCHANGED <<place, status, callbacks, overtaken>>
        /\ batch' = [batch EXCEPT ![c] = {}] /\ current' = [current EXCEPT ![c] = NoEntry]
        /\ step' = [step EXCEPT ![c] = "idle"] /\ verdict' = [verdict EXCEPT ![c] = "created"]
    BY <1>2 DEF Crash, Queue!Crash, Goto
  <2>2. \A d \in Consumer : /\ batch'[d] \subseteq batch[d]
                            /\ \/ current'[d] = NoEntry /\ step'[d] = "idle"
                               \/ /\ current'[d] = current[d]
                                  /\ step'[d] = step[d] /\ verdict'[d] = verdict[d]
    BY <2>1 DEF Typed, TypeOK, Queue!TypeOK
  <2> QED
    BY <2>1, <2>2, StopKeeps
<1> QED
  BY <1>1, <1>2, ReceiveKeeps, StartKeeps DEF Around

LEMMA EnvironmentKeeps ==
    ASSUME IInv, Typed', NEW n \in Notification, Send(n) \/ VisibilityTimeout(n)
    PROVE  IInv'
<1> USE DEF IInv
<1>1. /\ UNCHANGED <<batch, current, status, step, verdict, callbacks>>
      /\ place' = [place EXCEPT ![n] = "visible"]
      /\ place[n] \in {"unsent", "inflight"}
  BY DEF Send, Queue!Send, VisibilityTimeout, Queue!VisibilityTimeout, deliveryVars, ghosts
<1>2. /\ \A m \in Notification : overtaken'[m] = 0 => overtaken[m] = 0
      /\ overtaken'[n] = 0 => \A d \in Consumer : ~Holds(d, n)
  <2>1. CASE Send(n)
    BY <2>1 DEF Send, Queue!Send, deliveryVars, ghosts, OwnerInv
  <2>2. CASE VisibilityTimeout(n)
    BY <2>2 DEF VisibilityTimeout, Increment, Typed, TypeOK
  <2> QED
    BY <2>1, <2>2
<1>3. \A d \in Consumer, m \in Notification : Holds(d, m)' <=> Holds(d, m)
  BY <1>1 DEF Holds, Subject
<1>4. \A m \in Notification : m # n => place'[m] = place[m]
  BY <1>1 DEF Typed, TypeOK, Queue!TypeOK
<1>5. OwnerInv'
  BY <1>1, <1>2, <1>3, <1>4 DEF OwnerInv, Subject
<1>6. \A m \in Notification : place'[m] = "deleted" => place[m] = "deleted"
  BY <1>1 DEF Typed, TypeOK, Queue!TypeOK
<1>7. \A d \in Consumer : step[d] # "idle" => Subject(d) \in Notification
  BY HandlingAnEntry DEF Typed
<1>8. Recorded' /\ Fate'
  BY <1>1, <1>2, <1>7 DEF Recorded, Fate, Subject
<1> QED
  BY <1>1, <1>2, <1>5, <1>6, <1>8 DEF DeletedIsFinal, CalmCallbacks

LEMMA InitSafe == QueueInit => IInv
<1> SUFFICES ASSUME QueueInit PROVE IInv
  OBVIOUS
<1>1. Typed
  BY InitTyped
<1>2. /\ place = [m \in Notification |-> "unsent"] /\ batch = [d \in Consumer |-> {}]
      /\ current = [d \in Consumer |-> NoEntry] /\ step = [d \in Consumer |-> "idle"]
      /\ callbacks = [m \in Notification |-> 0] /\ status = [m \in Notification |-> "created"]
  BY DEF QueueInit, Init, Queue!Init
<1> QED
  BY <1>1, <1>2 DEF IInv, OwnerInv, Holds, Recorded, Fate, DeletedIsFinal,
     CalmCallbacks, Failed

LEMMA NextSafe == IInv /\ [Next]_queueVars => IInv'
<1> SUFFICES ASSUME IInv, [Next]_queueVars PROVE IInv'
  OBVIOUS
<1>0. Typed'
  BY NextTyped DEF IInv
<1>1. ASSUME NEW n \in Notification, Send(n) \/ VisibilityTimeout(n)
      PROVE  IInv'
  BY <1>0, <1>1, EnvironmentKeeps
<1>2. ASSUME NEW c \in Consumer, Around(c)
      PROVE  IInv'
  BY <1>0, <1>2, AroundKeeps
<1>3. ASSUME NEW c \in Consumer, Deliver(c)
      PROVE  IInv'
  BY <1>0, <1>3, DeliverShape, ShapeIsBusy, DeliverKeeps DEF IInv
<1>4. CASE UNCHANGED queueVars
  <2>1. UNCHANGED <<place, batch, current, status, step, verdict, callbacks, overtaken>>
    BY <1>4 DEF queueVars, vars, Queue!queueVars, deliveryVars, ghosts
  <2> QED
    BY <1>0, <2>1, StopKeeps
<1> QED
  BY <1>1, <1>2, <1>3, <1>4 DEF Next

THEOREM Inductive == Spec => []IInv
  BY InitSafe, NextSafe, PTL DEF Spec

\* A message leaves the queue only when its row tells the outcome.
THEOREM DeletionIsFinal == Spec => []DeletedIsFinal
<1>1. IInv => DeletedIsFinal
  BY DEF IInv
<1> QED
  BY <1>1, Inductive, PTL

-----------------------------------------------------------------------------
(* What a step may not do.                                                 *)

\* A step leaves the outcome in a row alone, unless a worker was overtaken.
LEMMA StatusStands ==
    ASSUME IInv, [Next]_queueVars
    PROVE  [\A n \in Notification :
               status[n] # "created" /\ overtaken[n] = 0 => status'[n] = status[n]]_vars
<1>1. ASSUME NEW n \in Notification, status[n] # "created", overtaken[n] = 0
      PROVE  status'[n] = status[n]
  <2>1. ASSUME NEW m \in Notification, Send(m) \/ VisibilityTimeout(m)
        PROVE  UNCHANGED status
    BY <2>1 DEF Send, VisibilityTimeout, deliveryVars
  <2>2. ASSUME NEW c \in Consumer, Around(c)
        PROVE  UNCHANGED status
    BY <2>2 DEF Around, Receive, Start, Cancel, Exit, Restart, Crash, deliveryVars
  <2>3. ASSUME NEW c \in Consumer, Deliver(c)
        PROVE  status'[n] = status[n]
    <3>1. Effects(c) /\ step[c] # "idle"
      BY <2>3, DeliverShape, ShapeIsBusy, ShapeEffects DEF IInv
    <3>2. step[c] = "write" /\ n = Subject(c) => status[n] = "created"
      BY <1>1 DEF IInv, Fate, Open
    <3> QED
      BY <1>1, <3>1, <3>2 DEF Effects
  <2>4. CASE UNCHANGED queueVars
    BY <2>4 DEF queueVars, vars, deliveryVars
  <2> QED
    BY <2>1, <2>2, <2>3, <2>4 DEF Next
<1> QED
  BY <1>1

\* Retries, crashes and second deliveries do not rewrite the outcome in a
\* row, unless a worker was overtaken.
THEOREM OutcomesStand == Spec => FinalStatusStands
  BY StatusStands, Inductive, PTL DEF Spec, FinalStatusStands

\* Every step of a handler is a step of the consumer loop.
LEMMA ShapeUsesQueue ==
    ASSUME Typed, NEW c \in Consumer, step[c] # "idle", Shape(c)
    PROVE  [Queue!Next]_(Queue!queueVars)
<1>1. CASE Leaves(c)
  BY <1>1 DEF Leaves, Return, Queue!Next
<1>2. CASE Moves(c)
  <2>1. CASE UNCHANGED faults
    BY <1>2, <2>1 DEF Moves, QueueStays, Queue!queueVars
  <2>2. CASE Queue!Fault
    <3>1. Queue!HandlerFault(c)
      BY <1>2, <2>2, HandlingAnEntry DEF Typed, Moves, QueueStays, Queue!HandlerFault
    <3> QED
      BY <3>1 DEF Queue!Next
  <2> QED
    BY <1>2, <2>1, <2>2 DEF Moves
<1>3. CASE Records(c) \/ Tells(c)
  BY <1>3 DEF Records, Tells, QueueStays, Queue!queueVars
<1>4. CASE Breaks(c)
  BY <1>4 DEF Breaks, Fail, Queue!Next
<1> QED
  BY <1>1, <1>2, <1>3, <1>4 DEF Shape

\* A delivery queue with its workers is a queue with consumers: whatever the
\* handler does between Take and Complete, the loop does no step of its own.
THEOREM WorkersUseTheQueue == Spec => UsesQueueConsumer
<1>1. QueueInit => Queue!Init
  BY DEF QueueInit, Init
<1>2. Typed /\ [Next]_queueVars => [Queue!Next]_(Queue!queueVars)
  <2> SUFFICES ASSUME Typed, [Next]_queueVars PROVE [Queue!Next]_(Queue!queueVars)
    OBVIOUS
  <2>1. ASSUME NEW n \in Notification, Send(n) \/ VisibilityTimeout(n)
        PROVE  Queue!Next
    BY <2>1 DEF Send, VisibilityTimeout, Queue!Next
  <2>2. ASSUME NEW c \in Consumer, Around(c)
        PROVE  Queue!Next
    BY <2>2 DEF Around, Receive, Start, Cancel, Exit, Restart, Crash, Queue!Next
  <2>3. ASSUME NEW c \in Consumer, Deliver(c)
        PROVE  [Queue!Next]_(Queue!queueVars)
    BY <2>3, DeliverShape, ShapeIsBusy, ShapeUsesQueue
  <2>4. CASE UNCHANGED queueVars
    BY <2>4 DEF queueVars, vars
  <2> QED
    BY <2>1, <2>2, <2>3, <2>4 DEF Next
<1>3. Spec => []Typed
  BY InitTyped, NextTyped, PTL DEF Spec
<1> QED
  BY <1>1, <1>2, <1>3, PTL DEF Spec, UsesQueueConsumer, Queue!Spec


-----------------------------------------------------------------------------
(* Nobody gets a message twice.  A message has as many holders as it was   *)
(* overtaken, and one; each holder that found the row untouched accounts   *)
(* for one acceptance, until the row says that the message was taken.      *)

Holders(n) == {c \in Consumer : Holds(c, n)}

\* Whether a consumer may yet receive the message without overtaking another.
Free(n) == IF place[n] \in {"unsent", "visible"} THEN 1 ELSE 0

\* The other handlers that found n's row untouched.
Trying(n) ==
    {c \in Consumer : /\ step[c] \in Open /\ Subject(c) = n
                      /\ step[c] = "write" => verdict[c] \notin Taken}

HeldInv ==
    \A n \in Notification : Cardinality(Holders(n)) + Free(n) <= 1 + overtaken[n]

Accounted(n) ==
    /\ status[n] = "created" => accepted[n] <= unrecorded[n] + Cardinality(Answered(n))
    /\ accepted[n] + Cardinality(Trying(n)) <= 1 + unrecorded[n] + overtaken[n]

CountInv == Typed /\ HeldInv /\ \A n \in Notification : Accounted(n)

\* Some of the consumers are finitely many.
LEMMA CountIsNat ==
    ASSUME NEW S \in SUBSET Consumer
    PROVE  IsFiniteSet(S) /\ Cardinality(S) \in Nat
  BY ConsumersAreFinite, FS_Subset, FS_CardinalityType

LEMMA CountMono ==
    ASSUME NEW S \in SUBSET Consumer, NEW T \in SUBSET S
    PROVE  Cardinality(T) <= Cardinality(S)
  BY CountIsNat, FS_Subset

LEMMA CountAdd ==
    ASSUME NEW S \in SUBSET Consumer, NEW c \in Consumer, NEW T \in SUBSET (S \cup {c})
    PROVE  Cardinality(T) <= Cardinality(S) + 1
<1>1. Cardinality(S \cup {c}) <= Cardinality(S) + 1
  BY CountIsNat, FS_AddElement
<1>2. Cardinality(T) <= Cardinality(S \cup {c})
  BY CountMono
<1> QED
  BY <1>1, <1>2, CountIsNat

LEMMA CountRemove ==
    ASSUME NEW S \in SUBSET Consumer, NEW c \in S
    PROVE  Cardinality(S \ {c}) = Cardinality(S) - 1
  BY CountIsNat, FS_RemoveElement

\* A set and another beside it, both among the holders of n.
LEMMA CountBoth ==
    ASSUME NEW R \in SUBSET Consumer, NEW S \in SUBSET R, NEW T \in SUBSET R, S \cap T = {}
    PROVE  Cardinality(S) + Cardinality(T) <= Cardinality(R)
<1>0. S \in SUBSET Consumer /\ T \in SUBSET Consumer
  OBVIOUS
<1>1. /\ IsFiniteSet(S) /\ IsFiniteSet(T)
      /\ Cardinality(S) \in Nat /\ Cardinality(T) \in Nat
  BY <1>0, CountIsNat
<1>2. Cardinality(S \cup T) = Cardinality(S) + Cardinality(T)
  <2>1. Cardinality(S \cap T) = 0
    BY FS_EmptySet
  <2>2. Cardinality(S \cup T) = Cardinality(S) + Cardinality(T) - Cardinality(S \cap T)
    BY <1>1, FS_Union
  <2> QED
    BY <1>1, <2>1, <2>2
<1>3. Cardinality(S \cup T) <= Cardinality(R)
  BY CountMono
<1> QED
  BY <1>2, <1>3

\* Giving messages up and deleting them leaves no more holders.
LEMMA HeldKept ==
    ASSUME Typed, HeldInv,
           \A d \in Consumer : batch'[d] \subseteq batch[d] /\ current'[d] \in {current[d], NoEntry},
           \A n \in Notification : place'[n] \in {place[n], "deleted"},
           UNCHANGED overtaken
    PROVE  HeldInv'
<1>1. SUFFICES ASSUME NEW n \in Notification
               PROVE  Cardinality(Holders(n)') + Free(n)' <= 1 + overtaken[n]
  BY DEF HeldInv
<1>2. Holders(n)' \subseteq Holders(n)
  BY DEF Holders, Holds, Subject
<1>3. Holders(n) \in SUBSET Consumer
  BY DEF Holders
<1>4. Cardinality(Holders(n)') <= Cardinality(Holders(n))
  BY <1>2, <1>3, CountMono
<1>5. Free(n)' <= Free(n) /\ Free(n) \in Nat /\ Free(n)' \in Nat
  BY DEF Free
<1>6. Cardinality(Holders(n)) \in Nat /\ Cardinality(Holders(n)') \in Nat /\ overtaken[n] \in Nat
  BY <1>2, <1>3, CountIsNat, DeliveryAssumption DEF Typed, TypeOK
<1>7. Cardinality(Holders(n)) + Free(n) <= 1 + overtaken[n]
  BY DEF HeldInv
<1> QED
  BY <1>4, <1>5, <1>6, <1>7


\* What a handler that tries or has been answered is.
LEMMA BusyHolds ==
    ASSUME Typed, NEW n \in Notification
    PROVE  /\ Holders(n) \in SUBSET Consumer
           /\ Answered(n) \in SUBSET Holders(n) /\ Trying(n) \in SUBSET Holders(n)
           /\ Answered(n) \cap Trying(n) = {}
           /\ \A c \in Consumer : step[c] # "idle" /\ Subject(c) = n => c \in Holders(n)
<1>1. \A c \in Consumer : step[c] # "idle" /\ Subject(c) = n => c \in Holders(n)
  BY HandlingAnEntry DEF Typed, Holders, Holds
<1> QED
  BY <1>1 DEF Holders, Answered, Trying, Open

\* The numbers behind Accounted.
LEMMA CountTypes ==
    ASSUME Typed, NEW n \in Notification
    PROVE  /\ accepted[n] \in Nat /\ unrecorded[n] \in Nat /\ overtaken[n] \in Nat
           /\ Cardinality(Holders(n)) \in Nat
           /\ Cardinality(Answered(n)) \in Nat /\ Cardinality(Trying(n)) \in Nat
<1>1. /\ Holders(n) \in SUBSET Consumer /\ Answered(n) \in SUBSET Consumer
      /\ Trying(n) \in SUBSET Consumer
  BY DEF Holders, Answered, Trying
<1> QED
  BY <1>1, CountIsNat, DeliveryAssumption DEF Typed, TypeOK

\* Where no handler of n's moved and none was counted, nothing changes.
LEMMA AccountedKept ==
    ASSUME Typed, NEW n \in Notification, Accounted(n), Typed',
           Answered(n)' = Answered(n), Trying(n)' \subseteq Trying(n),
           accepted'[n] = accepted[n], unrecorded'[n] = unrecorded[n],
           overtaken'[n] >= overtaken[n],
           status'[n] = "created" => status[n] = "created"
    PROVE  Accounted(n)'
<1>1. Cardinality(Trying(n)') <= Cardinality(Trying(n))
  BY CountMono DEF Trying
<1>2. /\ overtaken'[n] \in Nat /\ Cardinality(Trying(n)') \in Nat
  BY CountIsNat, DeliveryAssumption DEF Trying, Typed, TypeOK
<1> QED
  BY <1>1, <1>2, CountTypes DEF Accounted

\* A handler steps: other messages are not concerned, and its own message's
\* account stays settled.
LEMMA DeliverCounts ==
    ASSUME CountInv, NEW c \in Consumer, step[c] # "idle", Shape(c), Typed'
    PROVE  CountInv'
<1> USE DEF CountInv
<1> DEFINE n == Subject(c)
<1>1. n \in Notification /\ current[c] # NoEntry /\ Effects(c)
  BY HandlingAnEntry, ShapeEffects DEF Typed
<1>2. HeldInv'
  BY <1>1, HeldKept DEF Effects
<1>3. \A m \in Notification : /\ overtaken'[m] = overtaken[m]
                              /\ status'[m] = "created" => status[m] = "created"
  BY <1>1 DEF Effects
<1>4. \A d \in Consumer : d # c => /\ Subject(d)' = Subject(d)
                                   /\ step'[d] = step[d] /\ verdict'[d] = verdict[d]
  BY <1>1 DEF Effects, Subject
<1>5. step'[c] # "idle" => Subject(c)' = n
  BY <1>1 DEF Effects, Subject
<1>6. \A m \in Notification : m # n => /\ accepted'[m] = accepted[m]
                                       /\ unrecorded'[m] = unrecorded[m]
  <2>1. CASE Leaves(c) \/ Records(c) \/ Tells(c)
    BY <2>1 DEF Leaves, Records, Tells, ghosts
  <2>2. CASE Breaks(c)
    BY <2>2 DEF Breaks, Increment, Typed, TypeOK
  <2>3. CASE Moves(c)
    BY <2>3 DEF Moves, Counts, Increment, Typed, TypeOK
  <2> QED
    BY <2>1, <2>2, <2>3 DEF Shape
<1>7. ASSUME NEW m \in Notification, m # n
      PROVE  Accounted(m)'
  <2>1. Answered(m)' = Answered(m) /\ Trying(m)' = Trying(m)
    BY <1>4, <1>5, <1>7 DEF Answered, Trying, Open
  <2> QED
    BY <1>3, <1>6, <1>7, <2>1, CountTypes, AccountedKept
<1> DEFINE W == Answered(n)  V == Trying(n)
           W2 == {d \in Consumer : step'[d] = "write" /\ verdict'[d] \in Taken /\ Subject(d)' = n}
           V2 == {d \in Consumer : /\ step'[d] \in Open /\ Subject(d)' = n
                                   /\ step'[d] = "write" => verdict'[d] \notin Taken}
<1>8. /\ W \in SUBSET Consumer /\ V \in SUBSET Consumer
      /\ W2 \in SUBSET Consumer /\ V2 \in SUBSET Consumer
  BY DEF Answered, Trying
<1>9. /\ Cardinality(W) \in Nat /\ Cardinality(V) \in Nat
      /\ Cardinality(W2) \in Nat /\ Cardinality(V2) \in Nat
      /\ accepted[n] \in Nat /\ unrecorded[n] \in Nat /\ overtaken[n] \in Nat
  BY <1>1, <1>8, CountIsNat, CountTypes
<1>10. /\ status[n] = "created" => accepted[n] <= unrecorded[n] + Cardinality(W)
       /\ accepted[n] + Cardinality(V) <= 1 + unrecorded[n] + overtaken[n]
  BY <1>1 DEF Accounted
<1>11. \A d \in Consumer : d # c => (d \in W2 <=> d \in W) /\ (d \in V2 <=> d \in V)
  BY <1>4 DEF Answered, Trying
<1> HIDE DEF W, V, W2, V2
<1>12. /\ status'[n] = "created" => accepted'[n] <= unrecorded'[n] + Cardinality(W2)
       /\ accepted'[n] + Cardinality(V2) <= 1 + unrecorded'[n] + overtaken[n]
  <2>0. /\ c \in W <=> step[c] = "write" /\ verdict[c] \in Taken
        /\ c \in V <=> step[c] \in Open /\ (step[c] = "write" => verdict[c] \notin Taken)
    BY DEF W, V, Answered, Trying
  <2>1. /\ c \in W2 => step'[c] = "write" /\ verdict'[c] \in Taken
        /\ step'[c] = "write" /\ verdict'[c] \in Taken => c \in W2
        /\ c \in V2 => step'[c] \in Open /\ (step'[c] = "write" => verdict'[c] \notin Taken)
    BY <1>5 DEF W2, V2
  <2>2. CASE Leaves(c) \/ Tells(c)
    <3>1. /\ step'[c] \in {"idle", "done"} /\ step[c] # "write"
          /\ UNCHANGED <<accepted, unrecorded>>
      BY <2>2, GotoElsewhere DEF Leaves, Return, Tells, Typed, ghosts
    <3>2. W2 = W /\ V2 \subseteq V
      BY <1>8, <1>11, <2>0, <2>1, <3>1 DEF Open
    <3>3. Cardinality(V2) <= Cardinality(V)
      BY <1>8, <3>2, CountMono
    <3> QED
      BY <1>1, <1>3, <1>9, <1>10, <3>1, <3>2, <3>3
  <2>3. CASE Breaks(c)
    <3>1. /\ step'[c] = "idle" /\ UNCHANGED accepted
          /\ unrecorded'[n] = IF c \in W THEN unrecorded[n] + 1 ELSE unrecorded[n]
      BY <1>1, <2>0, <2>3, GotoElsewhere DEF Breaks, Fail, Increment, Typed, TypeOK
    <3>2. W2 = W \ {c} /\ V2 \subseteq V
      BY <1>8, <1>11, <2>1, <3>1 DEF Open
    <3>3. Cardinality(V2) <= Cardinality(V)
      BY <1>8, <3>2, CountMono
    <3>4. Cardinality(W2) = IF c \in W THEN Cardinality(W) - 1 ELSE Cardinality(W)
      <4>1. CASE c \in W
        BY <1>8, <3>2, <4>1, CountRemove
      <4>2. CASE c \notin W
        <5>1. W2 = W
          BY <3>2, <4>2
        <5> QED
          BY <4>2, <5>1
      <4> QED
        BY <4>1, <4>2
    <3> QED
      BY <1>1, <1>3, <1>9, <1>10, <3>1, <3>3, <3>4
  <2>4. CASE Records(c)
    <3>1. PICK s : /\ step'[c] = s /\ verdict'[c] = verdict[c]
                   /\ s \in {"toggle", "bounce", "callback", "done"}
                   /\ s = "toggle" <=> verdict[c] = "created"
      BY <2>4, GotoElsewhere DEF Records, Typed
    <3>2. /\ step[c] = "write" /\ UNCHANGED <<accepted, unrecorded>>
          /\ verdict[c] # "created" => status'[n] # "created"
      BY <1>1, <2>4 DEF Records, Write, ghosts, Typed, TypeOK
    <3>3. verdict[c] = "created" => W2 = W
      BY <1>8, <1>11, <2>0, <2>1, <3>1 DEF Taken
    <3>4. V2 \subseteq V
      BY <1>8, <1>11, <2>0, <2>1, <3>1, <3>2 DEF Open, Taken
    <3>5. Cardinality(V2) <= Cardinality(V)
      BY <1>8, <3>4, CountMono
    <3> QED
      BY <1>1, <1>3, <1>9, <1>10, <3>2, <3>3, <3>5
  <2>5. CASE Moves(c)
    <3>1. PICK s, v : /\ Goto(c, s, v) /\ Counts(c, s, v)
                      /\ \/ step[c] = "load" /\ status[n] = "created" /\ s \in Open
                         \/ step[c] \in Open /\ s \in Open
                         \/ step[c] = "bounce" /\ s = "done"
      BY <2>5 DEF Moves
    <3>2. step'[c] = s /\ verdict'[c] = v
      BY <3>1, GotoElsewhere DEF Typed
    <3>3. CASE /\ UNCHANGED <<accepted, unrecorded>>
               /\ s = "write" => v \notin Taken
               /\ step[c] # "write"
      <4>1. W2 = W
        BY <1>8, <1>11, <2>0, <2>1, <3>2, <3>3
      <4>2. CASE step[c] = "load" /\ status[n] = "created" /\ s \in Open
        <5>1. V2 \subseteq V \cup {c}
          BY <1>8, <1>11
        <5>2. Cardinality(V2) <= Cardinality(V) + 1
          BY <1>8, <5>1, CountAdd
        <5>3. /\ Holders(n) \in SUBSET Consumer /\ c \in Holders(n)
              /\ W \in SUBSET Holders(n) /\ V \in SUBSET Holders(n) /\ W \cap V = {}
          BY <1>1, BusyHolds DEF W, V
        <5>4. c \notin W /\ c \notin V
          BY <2>0, <4>2 DEF Open
        <5>5. Cardinality(W) + Cardinality(V) <= Cardinality(Holders(n) \ {c})
          <6>1. /\ Holders(n) \ {c} \in SUBSET Consumer
                /\ W \in SUBSET (Holders(n) \ {c}) /\ V \in SUBSET (Holders(n) \ {c})
            BY <5>3, <5>4
          <6> QED
            BY <5>3, <6>1, CountBoth
        <5>6. Cardinality(Holders(n) \ {c}) = Cardinality(Holders(n)) - 1
          BY <5>3, CountRemove
        <5>7. Cardinality(Holders(n)) <= 1 + overtaken[n] /\ Cardinality(Holders(n)) \in Nat
          BY <1>1, CountTypes DEF HeldInv, Free
        <5> QED
          BY <1>1, <1>9, <1>10, <3>3, <4>1, <4>2, <5>2, <5>5, <5>6, <5>7
      <4>3. CASE step[c] # "load"
        <5>1. V2 \subseteq V
          BY <1>8, <1>11, <2>0, <2>1, <3>1, <3>2, <3>3, <4>3 DEF Open
        <5>2. Cardinality(V2) <= Cardinality(V)
          BY <1>8, <5>1, CountMono
        <5> QED
          BY <1>1, <1>3, <1>9, <1>10, <3>3, <4>1, <5>2
      <4> QED
        BY <3>1, <4>2, <4>3 DEF Open
    <3>4. CASE /\ step[c] \in {"prepare", "send"} /\ s = "write" /\ v \in Taken
               /\ accepted' = Increment(accepted, n) /\ UNCHANGED unrecorded
      <4>1. accepted'[n] = accepted[n] + 1
        BY <1>1, <3>4 DEF Increment, Typed, TypeOK
      <4>2. c \in V /\ c \notin W /\ c \in W2 /\ c \notin V2
        BY <2>0, <2>1, <3>2, <3>4 DEF Open
      <4>3. V2 = V \ {c} /\ W = W2 \ {c}
        BY <1>8, <1>11, <4>2
      <4>4. Cardinality(V2) = Cardinality(V) - 1 /\ Cardinality(W) = Cardinality(W2) - 1
        BY <1>8, <4>2, <4>3, CountRemove
      <4> QED
        BY <1>1, <1>3, <1>9, <1>10, <3>4, <4>1, <4>4
    <3>5. CASE /\ step[c] = "send" /\ s \in {"write", "retry"} /\ v \notin Taken
               /\ accepted' = Increment(accepted, n)
               /\ unrecorded' = Increment(unrecorded, n)
      <4>1. accepted'[n] = accepted[n] + 1 /\ unrecorded'[n] = unrecorded[n] + 1
        BY <1>1, <3>5 DEF Increment, Typed, TypeOK
      <4>2. W2 = W /\ V2 \subseteq V
        BY <1>8, <1>11, <2>0, <2>1, <3>2, <3>5 DEF Open
      <4>3. Cardinality(V2) <= Cardinality(V)
        BY <1>8, <4>2, CountMono
      <4> QED
        BY <1>1, <1>3, <1>9, <1>10, <4>1, <4>2, <4>3
    <3> QED
      BY <3>1, <3>3, <3>4, <3>5 DEF Counts
  <2> QED
    BY <2>2, <2>3, <2>4, <2>5 DEF Shape
<1>13. ASSUME NEW m \in Notification, m = n
       PROVE  Accounted(m)'
  <2>1. Answered(m)' = W2 /\ Trying(m)' = V2
    BY <1>13 DEF Answered, Trying, W2, V2
  <2> QED
    BY <1>3, <1>12, <1>13, <2>1 DEF Accounted
<1> QED
  BY <1>2, <1>7, <1>13

\* The consumer that receives a message is its one new holder.
LEMMA ReceiveHeld ==
    ASSUME Typed, HeldInv, NEW c \in Consumer, NEW S \in SUBSET Notification, Receive(c, S)
    PROVE  HeldInv'
<1>1. SUFFICES ASSUME NEW n \in Notification
               PROVE  Cardinality(Holders(n)') + Free(n)' <= 1 + overtaken'[n]
  BY DEF HeldInv
<1>2. /\ UNCHANGED <<current, overtaken>>
      /\ \A m \in S : place[m] = "visible"
      /\ place' = [m \in Notification |-> IF m \in S THEN "inflight" ELSE place[m]]
  BY DEF Receive, Queue!Receive, deliveryVars, ghosts
<1>3. /\ batch'[c] = {[msg |-> m, count |-> received'[m]] : m \in S}
      /\ \A d \in Consumer : d # c => batch'[d] = batch[d]
  BY DEF Receive, Queue!Receive, Typed, TypeOK, Queue!TypeOK
<1>4. Holders(n) \in SUBSET Consumer /\ Holders(n)' \in SUBSET Consumer
  BY DEF Holders
<1>5. /\ Cardinality(Holders(n)) \in Nat /\ Cardinality(Holders(n)') \in Nat
      /\ overtaken[n] \in Nat /\ Free(n) \in Nat
      /\ Cardinality(Holders(n)) + Free(n) <= 1 + overtaken[n]
  BY <1>4, CountIsNat, CountTypes DEF HeldInv, Free
<1>6. CASE n \in S
  <2>1. Holders(n)' \subseteq Holders(n) \cup {c}
    BY <1>2, <1>3 DEF Holders, Holds, Subject
  <2>2. Cardinality(Holders(n)') <= Cardinality(Holders(n)) + 1
    BY <1>4, <2>1, CountAdd
  <2>3. Free(n) = 1 /\ Free(n)' = 0
    BY <1>2, <1>6 DEF Free
  <2> QED
    BY <1>2, <1>5, <2>2, <2>3
<1>7. CASE n \notin S
  <2>1. Holders(n)' \subseteq Holders(n)
    BY <1>2, <1>3, <1>7 DEF Holders, Holds, Subject
  <2>2. Cardinality(Holders(n)') <= Cardinality(Holders(n))
    BY <1>4, <2>1, CountMono
  <2>3. Free(n)' = Free(n)
    BY <1>2, <1>7 DEF Free
  <2> QED
    BY <1>2, <1>5, <2>2, <2>3
<1> QED
  BY <1>6, <1>7

LEMMA AroundCounts ==
    ASSUME CountInv, Typed', NEW c \in Consumer, Around(c)
    PROVE  CountInv'
<1> USE DEF CountInv
<1>1. ASSUME NEW S \in SUBSET Notification, Receive(c, S)
      PROVE  CountInv'
  <2>1. UNCHANGED <<current, status, step, verdict, accepted, unrecorded, overtaken>>
    BY <1>1 DEF Receive, Queue!Receive, deliveryVars, ghosts
  <2>2. \A n \in Notification : Answered(n)' = Answered(n) /\ Trying(n)' = Trying(n)
    BY <2>1 DEF Answered, Trying, Subject
  <2> QED
    BY <1>1, <2>1, <2>2, ReceiveHeld DEF Accounted
<1>2. ASSUME NEW e \in batch[c], Start(c, e)
      PROVE  CountInv'
  <2>1. /\ UNCHANGED <<place, status, accepted, unrecorded, overtaken>>
        /\ phase[c] = "batch" /\ current[c] = NoEntry /\ step[c] = "idle"
    BY <1>2 DEF Start, Queue!Take, ghosts, Typed, TypeOK
  <2>2. /\ current'[c] = e /\ batch'[c] = batch[c] \ {e} /\ step'[c] = "load"
        /\ \A d \in Consumer : d # c => /\ current'[d] = current[d] /\ batch'[d] = batch[d]
                                        /\ step'[d] = step[d] /\ verdict'[d] = verdict[d]
    BY <1>2 DEF Start, Queue!Take, Goto, Typed, TypeOK, Queue!TypeOK
  <2>3. ASSUME NEW n \in Notification
        PROVE  Cardinality(Holders(n)') + Free(n)' <= 1 + overtaken'[n]
    <3>1. Holders(n)' \subseteq Holders(n) /\ Holders(n) \in SUBSET Consumer
      BY <2>1, <2>2 DEF Holders, Holds, Subject
    <3>2. Cardinality(Holders(n)') <= Cardinality(Holders(n)) /\ Cardinality(Holders(n)') \in Nat
      BY <3>1, CountMono, CountIsNat
    <3>3. Free(n)' = Free(n) /\ Free(n) \in Nat
      BY <2>1 DEF Free
    <3> QED
      BY <2>1, <3>2, <3>3, CountTypes DEF HeldInv
  <2>4. \A n \in Notification : Answered(n)' = Answered(n) /\ Trying(n)' = Trying(n)
    BY <2>1, <2>2 DEF Answered, Trying, Subject, Open
  <2> QED
    BY <2>1, <2>3, <2>4 DEF HeldInv, Accounted
<1>3. CASE Cancel(c) \/ Exit(c) \/ Restart(c)
  <2>1. UNCHANGED <<place, batch, current, status, step, verdict, ghosts>>
    BY <1>3 DEF Cancel, Queue!Cancel, Exit, Queue!Exit, Restart, Queue!Restart, deliveryVars
  <2>2. HeldInv'
    BY <2>1, HeldKept DEF ghosts
  <2>3. \A n \in Notification : Answered(n)' = Answered(n) /\ Trying(n)' = Trying(n)
    BY <2>1 DEF Answered, Trying, Subject
  <2> QED
    BY <2>1, <2>2, <2>3 DEF Accounted, ghosts
<1>4. CASE Crash(c)
  <2>1. /\ UNCHANGED <<place, status, accepted, overtaken>>
        /\ batch' = [batch EXCEPT ![c] = {}] /\ current' = [current EXCEPT ![c] = NoEntry]
        /\ step' = [step EXCEPT ![c] = "idle"]
        /\ verdict' = [verdict EXCEPT ![c] = "created"]
        /\ unrecorded' = IF step[c] = "write" /\ verdict[c] \in Taken
                         THEN Increment(unrecorded, Subject(c)) ELSE unrecorded
    BY <1>4 DEF Crash, Queue!Crash, Goto
  <2>2. /\ \A d \in Consumer : d # c => /\ current'[d] = current[d]
                                        /\ step'[d] = step[d] /\ verdict'[d] = verdict[d]
        /\ step'[c] = "idle" /\ current'[c] = NoEntry
        /\ \A d \in Consumer : batch'[d] \subseteq batch[d]
    BY <2>1 DEF Typed, TypeOK, Queue!TypeOK
  <2>3. HeldInv'
    BY <2>1, <2>2, HeldKept
  <2>4. ASSUME NEW n \in Notification
        PROVE  Accounted(n)'
    <3>1. Answered(n)' = Answered(n) \ {c} /\ Trying(n)' \subseteq Trying(n)
      BY <2>2 DEF Answered, Trying, Subject, Open
    <3>2. /\ Answered(n) \in SUBSET Consumer /\ Trying(n) \in SUBSET Consumer
          /\ Cardinality(Trying(n)') <= Cardinality(Trying(n))
          /\ Cardinality(Trying(n)') \in Nat
      BY <3>1, CountMono, CountIsNat DEF Answered, Trying
    <3>3. CASE c \in Answered(n)
      <4>1. Cardinality(Answered(n)') = Cardinality(Answered(n)) - 1
        BY <3>1, <3>2, <3>3, CountRemove
      <4>2. unrecorded'[n] = unrecorded[n] + 1
        BY <2>1, <3>3 DEF Answered, Increment, Typed, TypeOK
      <4> QED
        BY <2>1, <3>2, <4>1, <4>2, CountTypes DEF Accounted
    <3>4. CASE c \notin Answered(n)
      <4>1. Answered(n)' = Answered(n)
        BY <3>1, <3>4
      <4>2. unrecorded'[n] = unrecorded[n]
        BY <2>1, <3>4, HandlingAnEntry DEF Answered, Increment, Typed, TypeOK
      <4> QED
        BY <2>1, <3>2, <4>1, <4>2, CountTypes DEF Accounted
    <3> QED
      BY <3>3, <3>4
  <2> QED
    BY <2>3, <2>4
<1> QED
  BY <1>1, <1>2, <1>3, <1>4 DEF Around

\* A message that comes back either had no holder or overtakes one more.
LEMMA EnvironmentCounts ==
    ASSUME CountInv, Typed', NEW n \in Notification, Send(n) \/ VisibilityTimeout(n)
    PROVE  CountInv'
<1> USE DEF CountInv
<1>1. /\ UNCHANGED <<batch, current, status, step, verdict, accepted, unrecorded>>
      /\ place' = [place EXCEPT ![n] = "visible"]
  BY DEF Send, Queue!Send, VisibilityTimeout, Queue!VisibilityTimeout, deliveryVars, ghosts
<1>2. \A m \in Notification : /\ Holders(m)' = Holders(m) /\ Answered(m)' = Answered(m)
                              /\ Trying(m)' = Trying(m)
  BY <1>1 DEF Holders, Answered, Trying, Holds, Subject
<1>3. \A m \in Notification : m # n => place'[m] = place[m] /\ overtaken'[m] = overtaken[m]
  <2>1. CASE Send(n)
    BY <1>1, <2>1 DEF Send, deliveryVars, ghosts, Typed, TypeOK, Queue!TypeOK
  <2>2. CASE VisibilityTimeout(n)
    BY <1>1, <2>2 DEF VisibilityTimeout, Increment, Typed, TypeOK, Queue!TypeOK
  <2> QED
    BY <2>1, <2>2
<1>4. /\ Cardinality(Holders(n)) + Free(n)' <= 1 + overtaken'[n]
      /\ overtaken'[n] >= overtaken[n]
  <2>1. Free(n)' = 1
    BY <1>1 DEF Free, Typed, TypeOK, Queue!TypeOK
  <2>2. Cardinality(Holders(n)) + Free(n) <= 1 + overtaken[n]
    BY DEF HeldInv
  <2>3. CASE Send(n)
    <3>1. Free(n) = 1 /\ UNCHANGED overtaken
      BY <2>3 DEF Send, Queue!Send, Free, deliveryVars, ghosts
    <3> QED
      BY <2>1, <2>2, <3>1, CountTypes
  <2>4. CASE VisibilityTimeout(n) /\ \E c \in Consumer : Holds(c, n)
    <3>1. overtaken'[n] = overtaken[n] + 1
      BY <2>4 DEF VisibilityTimeout, Increment, Typed, TypeOK
    <3>2. Free(n) \in Nat
      BY DEF Free
    <3> QED
      BY <2>1, <2>2, <3>1, <3>2, CountTypes
  <2>5. CASE VisibilityTimeout(n) /\ ~\E c \in Consumer : Holds(c, n)
    <3>1. UNCHANGED overtaken /\ Holders(n) = {}
      BY <2>5 DEF VisibilityTimeout, Holders
    <3> QED
      BY <2>1, <3>1, FS_EmptySet, CountTypes
  <2> QED
    BY <2>3, <2>4, <2>5
<1>5. HeldInv'
  <2> SUFFICES ASSUME NEW m \in Notification
               PROVE  Cardinality(Holders(m)') + Free(m)' <= 1 + overtaken'[m]
    BY DEF HeldInv
  <2>1. CASE m = n
    BY <1>2, <1>4, <2>1
  <2>2. CASE m # n
    <3>1. Free(m)' = Free(m)
      BY <1>3, <2>2 DEF Free
    <3> QED
      BY <1>2, <1>3, <2>2, <3>1 DEF HeldInv
  <2> QED
    BY <2>1, <2>2
<1>6. ASSUME NEW m \in Notification
      PROVE  Accounted(m)'
  <2>1. overtaken'[m] >= overtaken[m]
    BY <1>3, <1>4, CountTypes
  <2> QED
    BY <1>1, <1>2, <2>1, AccountedKept
<1> QED
  BY <1>5, <1>6

LEMMA InitCounts == QueueInit => CountInv
<1> SUFFICES ASSUME QueueInit PROVE CountInv
  OBVIOUS
<1>1. Typed
  BY InitTyped
<1>2. /\ batch = [d \in Consumer |-> {}] /\ current = [d \in Consumer |-> NoEntry]
      /\ step = [d \in Consumer |-> "idle"]
      /\ accepted = [m \in Notification |-> 0] /\ unrecorded = [m \in Notification |-> 0]
      /\ overtaken = [m \in Notification |-> 0]
  BY DEF QueueInit, Init, Queue!Init
<1>3. \A m \in Notification : Holders(m) = {} /\ Answered(m) = {} /\ Trying(m) = {}
  BY <1>2 DEF Holders, Holds, Answered, Trying, Open
<1>4. Cardinality({}) = 0
  BY FS_EmptySet
<1>5. \A m \in Notification : /\ Cardinality(Holders(m)) = 0 /\ Cardinality(Answered(m)) = 0
                              /\ Cardinality(Trying(m)) = 0
  BY <1>3, <1>4
<1> QED
  BY <1>1, <1>2, <1>5 DEF CountInv, HeldInv, Free, Accounted

LEMMA NextCounts == CountInv /\ [Next]_queueVars => CountInv'
<1> SUFFICES ASSUME CountInv, [Next]_queueVars PROVE CountInv'
  OBVIOUS
<1>0. Typed'
  BY NextTyped DEF CountInv
<1>1. ASSUME NEW n \in Notification, Send(n) \/ VisibilityTimeout(n)
      PROVE  CountInv'
  BY <1>0, <1>1, EnvironmentCounts
<1>2. ASSUME NEW c \in Consumer, Around(c)
      PROVE  CountInv'
  BY <1>0, <1>2, AroundCounts
<1>3. ASSUME NEW c \in Consumer, Deliver(c)
      PROVE  CountInv'
  BY <1>0, <1>3, DeliverShape, ShapeIsBusy, DeliverCounts DEF CountInv
<1>4. CASE UNCHANGED queueVars
  <2>1. UNCHANGED <<place, batch, current, status, step, verdict, ghosts>>
    BY <1>4 DEF queueVars, vars, Queue!queueVars, deliveryVars
  <2>2. \A n \in Notification : /\ Holders(n)' = Holders(n) /\ Answered(n)' = Answered(n)
                                /\ Trying(n)' = Trying(n) /\ Free(n)' = Free(n)
    BY <2>1 DEF Holders, Holds, Answered, Trying, Subject, Free
  <2> QED
    BY <1>0, <2>1, <2>2 DEF CountInv, HeldInv, Accounted, ghosts
<1> QED
  BY <1>1, <1>2, <1>3, <1>4 DEF Next

\* However many consumers work a queue, and however often calls fail and
\* processes stop, a message is taken once, but for the attempts whose outcome
\* may not have been written and the times a worker was overtaken.
THEOREM TakenOnce == Spec => []SentOnceButForLapses
<1>1. CountInv => SentOnceButForLapses
  <2> SUFFICES ASSUME CountInv, NEW n \in Notification
               PROVE  accepted[n] <= 1 + unrecorded[n] + overtaken[n]
    BY DEF SentOnceButForLapses
  <2> QED
    BY CountTypes DEF CountInv, Accounted
<1> QED
  BY <1>1, InitCounts, NextCounts, PTL DEF Spec


-----------------------------------------------------------------------------
(* A service is told of a failure as often as its message was overtaken,   *)
(* and once more.  A handler may still tell it that found the row          *)
(* untouched, and nobody was told before the row was written.              *)

\* The handlers that may still tell n's service of a failure.
Telling(n) == {c \in Consumer : step[c] \in Open \cup {"callback"} /\ Subject(c) = n}

Reported(n) ==
    /\ callbacks[n] > 0 => status[n] # "created"
    /\ callbacks[n] + Cardinality(Telling(n)) <= 1 + overtaken[n]

ReportInv == \A n \in Notification : Reported(n)

\* The numbers behind Reported.
LEMMA ReportTypes ==
    ASSUME Typed, NEW n \in Notification
    PROVE  /\ callbacks[n] \in Nat /\ overtaken[n] \in Nat
           /\ Telling(n) \in SUBSET Consumer /\ Cardinality(Telling(n)) \in Nat
<1>1. Telling(n) \in SUBSET Consumer
  BY DEF Telling
<1> QED
  BY <1>1, CountIsNat, DeliveryAssumption DEF Typed, TypeOK

\* Where nobody is told and no handler joins those that may tell.
LEMMA ReportedKept ==
    ASSUME Typed, Typed', NEW n \in Notification, Reported(n),
           Telling(n)' \subseteq Telling(n), callbacks'[n] = callbacks[n],
           overtaken'[n] >= overtaken[n],
           status'[n] = "created" => status[n] = "created"
    PROVE  Reported(n)'
<1>1. Cardinality(Telling(n)') <= Cardinality(Telling(n)) /\ Cardinality(Telling(n)') \in Nat
  BY ReportTypes, CountMono, CountIsNat
<1>2. overtaken'[n] \in Nat
  BY DeliveryAssumption DEF Typed, TypeOK
<1> QED
  BY <1>1, <1>2, ReportTypes DEF Reported

\* Who may tell and does not yet: a handler that finds the row untouched.  Who
\* told, or may have, is done.
LEMMA ShapeTells ==
    ASSUME Typed, NEW c \in Consumer, step[c] # "idle", Shape(c),
           step'[c] \in Open \cup {"callback"}
    PROVE  \/ step[c] = "load" /\ status[Subject(c)] = "created" /\ UNCHANGED callbacks
           \/ step[c] \in Open /\ UNCHANGED callbacks
<1>1. CASE Leaves(c) \/ Breaks(c)
  BY <1>1, GotoElsewhere DEF Leaves, Return, Breaks, Fail, Typed, Open
<1>2. CASE Moves(c)
  BY <1>2, GotoElsewhere DEF Moves, Typed, Open
<1>3. CASE Records(c)
  BY <1>3 DEF Records, Open, ghosts
<1>4. CASE Tells(c)
  BY <1>4, GotoElsewhere DEF Tells, Typed, Open
<1> QED
  BY <1>1, <1>2, <1>3, <1>4 DEF Shape

\* A handler steps: the account of the message it works on stays settled, and
\* no other is concerned.
LEMMA DeliverReports ==
    ASSUME Typed, Recorded, HeldInv, ReportInv, NEW c \in Consumer, step[c] # "idle", Shape(c),
           Typed'
    PROVE  ReportInv'
<1> SUFFICES ASSUME NEW n \in Notification PROVE Reported(n)'
  BY DEF ReportInv
<1>1. Subject(c) \in Notification /\ Effects(c)
  BY HandlingAnEntry, ShapeEffects DEF Typed
<1>2. /\ overtaken'[n] = overtaken[n] /\ overtaken[n] \in Nat
      /\ status'[n] = "created" => status[n] = "created"
      /\ Reported(n)
  BY <1>1, ReportTypes DEF Effects, ReportInv
<1>3. /\ \A d \in Consumer : d # c => Subject(d)' = Subject(d) /\ step'[d] = step[d]
      /\ step'[c] # "idle" => Subject(c)' = Subject(c)
  BY <1>1 DEF Effects, Subject
<1>4. Telling(n) \in SUBSET Consumer /\ Telling(n)' \in SUBSET Consumer
  BY DEF Telling
<1>5. Telling(n)' \subseteq Telling(n) \cup {c}
  BY <1>3 DEF Telling
<1>6. c \in Telling(n)' => step'[c] \in Open \cup {"callback"} /\ Subject(c) = n
  BY <1>3 DEF Telling, Open
<1>7. CASE c \in Telling(n)' /\ step[c] = "load"
  <2>1. status[n] = "created" /\ callbacks'[n] = callbacks[n] /\ callbacks[n] = 0
    BY <1>2, <1>6, <1>7, ShapeTells, ReportTypes DEF Reported, Open
  <2>2. Telling(n)' \subseteq Holders(n) /\ Holders(n) \in SUBSET Consumer
    BY <1>5, <1>6, <1>7, BusyHolds DEF Telling, Open
  <2>3. Cardinality(Telling(n)') <= Cardinality(Holders(n))
    BY <2>2, CountMono
  <2>4. Cardinality(Holders(n)) <= 1 + overtaken[n]
    BY CountTypes DEF HeldInv, Free
  <2>5. Cardinality(Telling(n)') \in Nat /\ Cardinality(Holders(n)) \in Nat
    BY <1>4, <2>2, CountIsNat
  <2> QED
    BY <1>2, <2>1, <2>3, <2>4, <2>5 DEF Reported
<1>8. CASE c \in Telling(n)' /\ step[c] # "load"
  <2>1. step[c] \in Open /\ callbacks'[n] = callbacks[n]
    BY <1>6, <1>8, ShapeTells
  <2>2. Telling(n)' \subseteq Telling(n)
    BY <1>5, <1>6, <1>8, <2>1 DEF Telling
  <2> QED
    BY <1>2, <2>1, <2>2, ReportedKept
<1>9. CASE c \notin Telling(n)'
  <2>1. Telling(n)' \subseteq Telling(n) \ {c}
    BY <1>5, <1>9
  <2>2. CASE callbacks'[n] = callbacks[n]
    BY <1>2, <2>1, <2>2, ReportedKept
  <2>3. CASE callbacks'[n] # callbacks[n]
    <3>1. n = Subject(c) /\ step[c] = "callback" /\ callbacks'[n] = callbacks[n] + 1
      BY <1>1, <2>3 DEF Effects
    <3>2. c \in Telling(n)
      BY <3>1 DEF Telling
    <3>3. Cardinality(Telling(n) \ {c}) = Cardinality(Telling(n)) - 1
      BY <1>4, <3>2, CountRemove
    <3>4. Cardinality(Telling(n)') <= Cardinality(Telling(n) \ {c})
      BY <1>4, <2>1, CountMono
    <3>5. Cardinality(Telling(n)') \in Nat /\ Cardinality(Telling(n)) \in Nat
      BY <1>4, CountIsNat
    <3>6. status'[n] # "created"
      BY <1>2, <3>1 DEF Recorded
    <3> QED
      BY <1>2, <3>1, <3>3, <3>4, <3>5, <3>6, ReportTypes DEF Reported
  <2> QED
    BY <2>2, <2>3
<1> QED
  BY <1>7, <1>8, <1>9

\* Nobody is told where no handler steps.
LEMMA NobodyIsTold ==
    ASSUME Typed, Typed', ReportInv, UNCHANGED <<status, callbacks>>,
           \A c \in Consumer : step'[c] \in Open \cup {"callback"} =>
                                 step'[c] = step[c] /\ current'[c] = current[c],
           \A n \in Notification : overtaken'[n] >= overtaken[n]
    PROVE  ReportInv'
<1>1. \A n \in Notification : Telling(n)' \subseteq Telling(n)
  BY DEF Telling, Subject
<1> QED
  BY <1>1, ReportedKept DEF ReportInv

LEMMA NextReports ==
    ASSUME IInv, CountInv, ReportInv, [Next]_queueVars
    PROVE  ReportInv'
<1>0. Typed /\ Typed'
  BY NextTyped DEF IInv
<1>1. \A n \in Notification : overtaken[n] >= overtaken[n]
  BY <1>0, ReportTypes
<1>2. ASSUME NEW m \in Notification, Send(m) \/ VisibilityTimeout(m)
      PROVE  ReportInv'
  <2>1. UNCHANGED <<current, step, status, callbacks>>
    BY <1>2 DEF Send, Queue!Send, VisibilityTimeout, Queue!VisibilityTimeout, deliveryVars, ghosts
  <2>2. \A n \in Notification : overtaken'[n] >= overtaken[n]
    <3>1. CASE Send(m)
      BY <1>1, <3>1 DEF Send, deliveryVars, ghosts
    <3>2. CASE VisibilityTimeout(m)
      BY <1>0, <1>1, <3>2, ReportTypes DEF VisibilityTimeout, Increment, Typed, TypeOK
    <3> QED
      BY <1>2, <3>1, <3>2
  <2> QED
    BY <1>0, <2>1, <2>2, NobodyIsTold
<1>3. ASSUME NEW c \in Consumer, Around(c)
      PROVE  ReportInv'
  <2>1. UNCHANGED <<status, callbacks, overtaken>>
    BY <1>3 DEF Around, Receive, Start, Cancel, Exit, Restart, Crash, deliveryVars, ghosts
  <2>2. ASSUME NEW d \in Consumer, step'[d] \in Open \cup {"callback"}
        PROVE  step'[d] = step[d] /\ current'[d] = current[d]
    <3>1. CASE \E S \in SUBSET Notification : Receive(c, S)
      BY <3>1 DEF Receive, Queue!Receive, deliveryVars
    <3>2. CASE \E e \in batch[c] : Start(c, e)
      BY <1>0, <2>2, <3>2 DEF Start, Queue!Take, Goto, Typed, TypeOK, Queue!TypeOK, Open
    <3>3. CASE Cancel(c) \/ Exit(c) \/ Restart(c)
      BY <3>3 DEF Cancel, Queue!Cancel, Exit, Queue!Exit, Restart, Queue!Restart, deliveryVars
    <3>4. CASE Crash(c)
      BY <1>0, <2>2, <3>4 DEF Crash, Queue!Crash, Goto, Typed, TypeOK, Queue!TypeOK, Open
    <3> QED
      BY <1>3, <3>1, <3>2, <3>3, <3>4 DEF Around
  <2> QED
    BY <1>0, <1>1, <2>1, <2>2, NobodyIsTold
<1>4. ASSUME NEW c \in Consumer, Deliver(c)
      PROVE  ReportInv'
  BY <1>0, <1>4, DeliverShape, ShapeIsBusy, DeliverReports DEF IInv, CountInv
<1>5. CASE UNCHANGED queueVars
  <2>1. UNCHANGED <<current, step, status, callbacks, overtaken>>
    BY <1>5 DEF queueVars, vars, Queue!queueVars, deliveryVars, ghosts
  <2> QED
    BY <1>0, <1>1, <2>1, NobodyIsTold
<1> QED
  BY <1>2, <1>3, <1>4, <1>5 DEF Next

LEMMA InitReports == QueueInit => ReportInv
<1> SUFFICES ASSUME QueueInit, NEW n \in Notification PROVE Reported(n)
  BY DEF ReportInv
<1>1. /\ step = [d \in Consumer |-> "idle"] /\ callbacks = [m \in Notification |-> 0]
      /\ overtaken = [m \in Notification |-> 0]
  BY DEF QueueInit, Init
<1>2. Telling(n) = {}
  BY <1>1 DEF Telling, Open
<1> QED
  BY <1>1, <1>2, FS_EmptySet DEF Reported

LEMMA ReportsAreTrue ==
    ASSUME IInv, ReportInv
    PROVE  CallbackTellsTheTruth
<1> SUFFICES ASSUME NEW n \in Notification
             PROVE  /\ callbacks[n] <= 1 + overtaken[n]
                    /\ callbacks[n] > 0 /\ overtaken[n] = 0 => status[n] \in Failed
  BY DEF CallbackTellsTheTruth
<1> QED
  BY ReportTypes DEF IInv, ReportInv, Reported, CalmCallbacks

\* A service hears of a failure once and once more at most for every time its
\* message was overtaken; and where it never was, of no failure that the row
\* does not tell.
THEOREM CallbacksAreTrue == Spec => []CallbackTellsTheTruth
  BY InitReports, NextReports, ReportsAreTrue, Inductive, InitCounts, NextCounts, PTL DEF Spec

-----------------------------------------------------------------------------
(* Failures the service does not hear of.  To count them, the failures whose *)
(* handler is about to report them but is cancelled count already: the       *)
(* cancelling is then what the report's failing is charged to.               *)

Endangered ==
    {n \in Notification :
        /\ status[n] \in Failed /\ callbacks[n] = 0
        /\ ~\E c \in Consumer : step[c] = "callback" /\ Subject(c) = n /\ ~cancelled[c]}

RiskInv == IsFiniteSet(Endangered) /\ Cardinality(Endangered) <= faults

\* A step endangers nothing, or one notification and counts as a fault.
Charged ==
    \/ Endangered' \subseteq Endangered /\ faults' >= faults
    \/ \E n \in Notification : Endangered' \subseteq Endangered \cup {n} /\ faults' = faults + 1

LEMMA ChargedKeepsCount ==
    ASSUME TypeOK, TypeOK', RiskInv, Charged
    PROVE  RiskInv'
<1>1. /\ faults \in Nat /\ faults' \in Nat
      /\ IsFiniteSet(Endangered) /\ Cardinality(Endangered) <= faults
  BY DEF TypeOK, Queue!TypeOK, RiskInv
<1>2. Cardinality(Endangered) \in Nat
  BY <1>1, FS_CardinalityType
<1>3. CASE Endangered' \subseteq Endangered /\ faults' >= faults
  <2>1. IsFiniteSet(Endangered') /\ Cardinality(Endangered') <= Cardinality(Endangered)
    BY <1>1, <1>3, FS_Subset
  <2>2. Cardinality(Endangered') \in Nat
    BY <2>1, FS_CardinalityType
  <2> QED
    BY <1>1, <1>2, <1>3, <2>1, <2>2 DEF RiskInv
<1>4. ASSUME NEW n \in Notification, Endangered' \subseteq Endangered \cup {n}, faults' = faults + 1
      PROVE  RiskInv'
  <2> DEFINE All == Endangered \cup {n}
  <2>1. IsFiniteSet(All) /\ Cardinality(All) <= Cardinality(Endangered) + 1
    <3>1. IsFiniteSet(All) /\ Cardinality(All) = IF n \in Endangered THEN Cardinality(Endangered)
                                                 ELSE Cardinality(Endangered) + 1
      BY <1>1, FS_AddElement, Zenon
    <3> QED
      BY <1>2, <3>1
  <2>2. IsFiniteSet(Endangered') /\ Cardinality(Endangered') <= Cardinality(All)
    BY <1>4, <2>1, FS_Subset
  <2> HIDE DEF All
  <2>3. Cardinality(Endangered') \in Nat /\ Cardinality(All) \in Nat
    BY <2>1, <2>2, FS_CardinalityType
  <2> QED
    BY <1>1, <1>2, <1>4, <2>1, <2>2, <2>3 DEF RiskInv
<1> QED
  BY <1>3, <1>4 DEF Charged

\* What a step does to the other consumers and the other notifications.
StepOn(c, n) ==
    /\ step[c] = "callback" => Subject(c) = n
    /\ \A d \in Consumer : d # c =>
          current'[d] = current[d] /\ step'[d] = step[d] /\ cancelled'[d] = cancelled[d]
    /\ \A m \in Notification : m # n => status'[m] = status[m] /\ callbacks'[m] = callbacks[m]

LEMMA OthersAreSafe ==
    ASSUME NEW c \in Consumer, NEW n \in Notification, StepOn(c, n)
    PROVE  Endangered' \subseteq Endangered \cup {n}
<1> SUFFICES ASSUME NEW m \in Endangered', m # n PROVE m \in Endangered
  OBVIOUS
<1>1. m \in Notification /\ status[m] \in Failed /\ callbacks[m] = 0
  BY DEF Endangered, StepOn
<1>2. ASSUME NEW d \in Consumer, step[d] = "callback", Subject(d) = m, ~cancelled[d]
      PROVE  FALSE
  <2>1. d # c
    BY <1>2 DEF StepOn
  <2>2. step'[d] = "callback" /\ Subject(d)' = m /\ ~cancelled'[d]
    BY <1>2, <2>1 DEF StepOn, Subject
  <2> QED
    BY <2>2 DEF Endangered
<1> QED
  BY <1>1, <1>2 DEF Endangered

\* A handler that is not about to report and writes no failure endangers none.
LEMMA NoReporterLosesNone ==
    ASSUME NEW c \in Consumer, NEW n \in Notification, StepOn(c, n),
           step[c] # "callback" \/ cancelled[c],
           status'[n] \in Failed => status[n] = status'[n], callbacks'[n] = 0 => callbacks[n] = 0
    PROVE  Endangered' \subseteq Endangered
<1> SUFFICES ASSUME n \in Endangered' PROVE n \in Endangered
  BY OthersAreSafe
<1>1. ASSUME NEW d \in Consumer, step[d] = "callback", Subject(d) = n, ~cancelled[d]
      PROVE  FALSE
  <2>1. step'[d] = "callback" /\ Subject(d)' = n /\ ~cancelled'[d]
    BY <1>1 DEF StepOn, Subject
  <2> QED
    BY <2>1 DEF Endangered
<1> QED
  BY <1>1 DEF Endangered

LEMMA DeliverIsCharged ==
    ASSUME Typed, Typed', NEW c \in Consumer, step[c] # "idle", Shape(c)
    PROVE  Charged
<1> DEFINE n == Subject(c)
<1>1. /\ n \in Notification /\ current[c] # NoEntry /\ Effects(c)
  BY HandlingAnEntry, ShapeEffects DEF Typed
<1>2. faults \in Nat /\ callbacks[n] \in Nat
  BY <1>1 DEF Typed, TypeOK, Queue!TypeOK
<1>3. UNCHANGED cancelled
  BY DEF Shape, Leaves, Moves, Records, Breaks, Tells, QueueStays, Return, Fail, Queue!Complete,
     Queue!Abort, Queue!NextMessage
<1>4. StepOn(c, n)
  BY <1>1, <1>3 DEF StepOn, Effects
<1> HIDE DEF n
<1>5. CASE Leaves(c)
  <2>1. PICK o : Return(c, o) /\ step[c] # "callback" /\ UNCHANGED <<status, callbacks>>
    BY <1>5 DEF Leaves, ghosts
  <2>2. faults' >= faults
    BY <1>2, <2>1 DEF Return, Queue!Complete, Queue!Settle, Queue!DeleteMessage, Queue!CallSucceeds,
       Queue!ChangeMessageVisibility, Queue!CallFails, Queue!Fault
  <2> QED
    BY <1>1, <1>4, <2>1, <2>2, NoReporterLosesNone DEF Charged
<1>6. CASE Moves(c)
  <2>1. step[c] # "callback" /\ UNCHANGED <<status, callbacks>>
    BY <1>6 DEF Moves, Open
  <2>2. faults' >= faults
    BY <1>2, <1>6 DEF Moves, Queue!Fault
  <2> QED
    BY <1>1, <1>4, <2>1, <2>2, NoReporterLosesNone DEF Charged
<1>7. CASE Records(c)
  <2>1. /\ step[c] = "write" /\ ~cancelled'[c] /\ UNCHANGED <<faults, callbacks, current>>
        /\ verdict[c] \in Failed => step'[c] = "callback"
        /\ status' = Write(c)
    BY <1>3, <1>7, GotoElsewhere DEF Records, QueueStays, ghosts, Typed
  <2>2. CASE verdict[c] \in Failed
    <3>1. step'[c] = "callback" /\ Subject(c)' = n
      BY <2>1, <2>2 DEF Subject, n
    <3>2. n \notin Endangered'
      BY <2>1, <3>1 DEF Endangered
    <3> QED
      BY <1>1, <1>2, <1>4, <2>1, <3>2, OthersAreSafe DEF Charged
  <2>3. CASE verdict[c] \notin Failed
    <3>1. status'[n] \in Failed => status'[n] = status[n]
      BY <1>1, <2>1, <2>3 DEF Write, Typed, TypeOK, n
    <3> QED
      BY <1>1, <1>2, <1>4, <2>1, <3>1, NoReporterLosesNone DEF Charged
  <2> QED
    BY <2>2, <2>3
<1>8. CASE Breaks(c)
  <2>1. IF cancelled[c] THEN faults' = faults ELSE faults' = faults + 1
    BY <1>8 DEF Breaks, Fail, Queue!Abort, Queue!CallFails, Queue!Fault
  <2>2. CASE ~cancelled[c]
    BY <1>1, <1>4, <2>1, <2>2, OthersAreSafe DEF Charged
  <2>3. CASE cancelled[c]
    <3>1. status' = status
      BY <1>8, <2>3 DEF Breaks
    <3>2. callbacks'[n] = 0 => callbacks[n] = 0
      BY <1>1, <1>2 DEF Effects
    <3> QED
      BY <1>1, <1>2, <1>4, <2>1, <2>3, <3>1, <3>2, NoReporterLosesNone DEF Charged
  <2> QED
    BY <2>2, <2>3
<1>9. CASE Tells(c)
  <2>1. callbacks'[n] = callbacks[n] + 1 /\ UNCHANGED faults
    BY <1>1, <1>9 DEF Tells, Increment, Typed, TypeOK, n
  <2>2. n \notin Endangered'
    BY <1>2, <2>1 DEF Endangered
  <2> QED
    BY <1>1, <1>2, <1>4, <2>1, <2>2, OthersAreSafe DEF Charged
<1> QED
  BY <1>5, <1>6, <1>7, <1>8, <1>9 DEF Shape

LEMMA AroundIsCharged ==
    ASSUME Typed, NEW c \in Consumer, Around(c)
    PROVE  Charged
<1>0. faults \in Nat
  BY DEF Typed, TypeOK, Queue!TypeOK
<1>1. CASE (\E S \in SUBSET Notification : Receive(c, S)) \/ Exit(c)
  <2>1. UNCHANGED <<current, status, step, callbacks, cancelled, faults>>
    BY <1>1 DEF Receive, Queue!Receive, Exit, Queue!Exit, deliveryVars, ghosts
  <2>2. Endangered' = Endangered
    BY <2>1 DEF Endangered, Subject
  <2> QED
    BY <1>0, <2>1, <2>2 DEF Charged
<1>2. CASE Restart(c)
  <2>1. /\ UNCHANGED <<current, status, step, callbacks, faults>>
        /\ \A d \in Consumer : cancelled'[d] => cancelled[d]
    BY <1>2 DEF Restart, Queue!Restart, deliveryVars, ghosts, Typed, TypeOK, Queue!TypeOK
  <2>2. Endangered' \subseteq Endangered
    BY <2>1 DEF Endangered, Subject
  <2> QED
    BY <1>0, <2>1, <2>2 DEF Charged
<1>3. ASSUME NEW e \in batch[c], Start(c, e)
      PROVE  Charged
  <2>1. /\ UNCHANGED <<status, callbacks, cancelled, faults>> /\ step[c] = "idle"
        /\ \A d \in Consumer : d # c => step'[d] = step[d] /\ current'[d] = current[d]
    BY <1>3 DEF Start, Queue!Take, Goto, ghosts, Typed, TypeOK, Queue!TypeOK
  <2>2. Endangered' \subseteq Endangered
    BY <2>1 DEF Endangered, Subject
  <2> QED
    BY <1>0, <2>1, <2>2 DEF Charged
<1>4. CASE Cancel(c) \/ Crash(c)
  <2>1. /\ faults' = faults + 1 /\ UNCHANGED <<status, callbacks>>
        /\ \A d \in Consumer : d # c =>
              step'[d] = step[d] /\ current'[d] = current[d] /\ cancelled'[d] = cancelled[d]
    BY <1>4 DEF Cancel, Queue!Cancel, Crash, Queue!Crash, Queue!Fault, Goto, deliveryVars, ghosts,
       Typed, TypeOK, Queue!TypeOK
  <2>2. CASE step[c] = "callback"
    <3>1. Subject(c) \in Notification /\ StepOn(c, Subject(c))
      BY <2>1, <2>2, HandlingAnEntry DEF StepOn, Typed
    <3> QED
      BY <2>1, <3>1, OthersAreSafe DEF Charged
  <2>3. CASE step[c] # "callback"
    <3>1. Endangered' \subseteq Endangered
      BY <2>1, <2>3 DEF Endangered, Subject
    <3> QED
      BY <1>0, <2>1, <3>1 DEF Charged
  <2> QED
    BY <2>2, <2>3
<1> QED
  BY <1>1, <1>2, <1>3, <1>4 DEF Around

LEMMA NextIsCharged == Typed /\ [Next]_queueVars => Charged
<1> SUFFICES ASSUME Typed, [Next]_queueVars PROVE Charged
  OBVIOUS
<1>1. CASE UNCHANGED <<current, status, step, callbacks, cancelled, faults>>
  <2>1. Endangered' = Endangered
    BY <1>1 DEF Endangered, Subject
  <2> QED
    BY <1>1, <2>1 DEF Charged, Typed, TypeOK, Queue!TypeOK
<1>2. ASSUME NEW n \in Notification, Send(n) \/ VisibilityTimeout(n)
      PROVE  Charged
  BY <1>1, <1>2 DEF Send, Queue!Send, VisibilityTimeout, Queue!VisibilityTimeout, deliveryVars,
     ghosts
<1>3. ASSUME NEW c \in Consumer, Deliver(c)
      PROVE  Charged
  BY <1>3, NextTyped, DeliverShape, ShapeIsBusy, DeliverIsCharged
<1>4. CASE UNCHANGED queueVars
  BY <1>1, <1>4 DEF queueVars, vars, Queue!queueVars, deliveryVars, ghosts
<1> QED
  BY <1>2, <1>3, <1>4, AroundIsCharged DEF Next

\* However workers are overtaken, interleaved and interrupted, each failed call,
\* crash or shutdown keeps one failure at most from its service.
THEOREM FaultsBoundSilence == Spec => []SilentBoundedByFaults
<1>1. QueueInit => RiskInv
  <2> SUFFICES ASSUME QueueInit PROVE RiskInv
    OBVIOUS
  <2>1. Endangered = {}
    BY DEF QueueInit, Init, Endangered, Failed
  <2> QED
    BY <2>1, FS_EmptySet DEF RiskInv, QueueInit, Init, Queue!Init
<1>2. Typed /\ Typed' /\ RiskInv /\ [Next]_queueVars => RiskInv'
  BY NextIsCharged, ChargedKeepsCount DEF Typed
<1>3. Typed /\ RiskInv => SilentBoundedByFaults
  <2> SUFFICES ASSUME Typed, RiskInv PROVE Cardinality(Silent) <= faults
    BY DEF SilentBoundedByFaults
  <2>1. Silent \subseteq Endangered /\ IsFiniteSet(Endangered)
    BY DEF Silent, Endangered, RiskInv
  <2>2. IsFiniteSet(Silent) /\ Cardinality(Silent) <= Cardinality(Endangered)
    BY <2>1, FS_Subset
  <2>3. Cardinality(Silent) \in Nat /\ Cardinality(Endangered) \in Nat /\ faults \in Nat
    BY <2>1, <2>2, FS_CardinalityType DEF Typed, TypeOK, Queue!TypeOK
  <2> QED
    BY <2>2, <2>3 DEF RiskInv
<1> QED
  BY <1>1, <1>2, <1>3, InitTyped, NextTyped, PTL DEF Spec

-----------------------------------------------------------------------------
(* The last retry of a text decides it.                                    *)

\* A text is given back to the queue only while it has retries left.
RetriesLeft ==
    \A c \in Consumer : kind = "sms" /\ step[c] = "retry" => Retries(c) < MaxRetries

\* Only Toggle leads to the retry, and it looks at the count.
LEMMA RetryIsCounted ==
    ASSUME Typed, kind = "sms", NEW c \in Consumer, DeliverSMS(c), step'[c] = "retry"
    PROVE  Retries(c) < MaxRetries /\ current' = current
<1> USE DEF Typed
<1>1. \A s, v : Goto(c, s, v) => s = "retry"
  BY GotoElsewhere
<1>2. Toggle(c)
  <2>1. ~(\/ NotFound(c) \/ Skip(c) \/ ProceedSMS(c) \/ RefuseSMS(c) \/ CallFails(c)
         \/ ErrorLasts(c))
    BY <1>1 DEF NotFound, Skip, ProceedSMS, RefuseSMS, GoOn, CallFails, ErrorLasts, Return, Fail
  <2>2. ~(SentSMS(c) \/ RejectedSMS(c) \/ SendFailsSMS(c))
    BY <1>1 DEF SentSMS, Simulate, Accept, RejectedSMS, Reject, SendFailsSMS, ProviderFails
  <2>3. ~(WrittenSMS(c) \/ RecordFails(c) \/ ToggleFails(c) \/ Retry(c))
    BY <1>1 DEF WrittenSMS, Then, Record, RecordFails, ToggleFails, Retry, Return, Fail
  <2>4. ~(EnqueueDeliveryStatusCallback(c) \/ CallbackFails(c) \/ FinishedSMS(c))
    BY <1>1 DEF EnqueueDeliveryStatusCallback, CallbackFails, FinishedSMS, Finish, Return, Fail
  <2> QED
    BY <2>1, <2>2, <2>3, <2>4 DEF DeliverSMS
<1> QED
  BY <1>1, <1>2 DEF Toggle, Inside

LEMMA NextCountsRetries == Typed /\ RetriesLeft /\ [Next]_queueVars => RetriesLeft'
<1> SUFFICES ASSUME Typed, RetriesLeft, [Next]_queueVars, NEW c \in Consumer,
                    kind' = "sms", step'[c] = "retry"
             PROVE  Retries(c)' < MaxRetries
  BY DEF RetriesLeft
<1>1. CASE step'[c] = step[c] /\ current'[c] = current[c] /\ kind' = kind
  BY <1>1 DEF RetriesLeft, Retries
<1>2. ASSUME NEW n \in Notification, Send(n) \/ VisibilityTimeout(n), kind' = kind
      PROVE  Retries(c)' < MaxRetries
  BY <1>1, <1>2 DEF Send, Queue!Send, VisibilityTimeout, Queue!VisibilityTimeout, deliveryVars
<1>3. ASSUME NEW d \in Consumer, Around(d), kind' = kind
      PROVE  Retries(c)' < MaxRetries
  <2>1. CASE UNCHANGED <<step, current>>
    BY <1>1, <1>3, <2>1
  <2>2. CASE (\E e \in batch[d] : Start(d, e)) \/ Crash(d)
    <3>1. /\ step'[d] # "retry"
          /\ d # c => step'[c] = step[c] /\ current'[c] = current[c]
      BY <2>2 DEF Start, Crash, Goto, Queue!Take, Queue!Crash, Typed, TypeOK, Queue!TypeOK
    <3> QED
      BY <1>1, <1>3, <3>1
  <2> QED
    BY <1>3, <2>1, <2>2 DEF Around, Receive, Queue!Receive, Cancel, Queue!Cancel, Exit,
       Queue!Exit, Restart, Queue!Restart, deliveryVars
<1>4. ASSUME NEW d \in Consumer, Deliver(d), kind' = kind
      PROVE  Retries(c)' < MaxRetries
  <2>1. CASE d = c
    BY <1>4, <2>1, RetryIsCounted DEF Deliver, Retries
  <2>2. CASE d # c
    <3>1. Effects(d)
      BY <1>4, DeliverShape, ShapeIsBusy, ShapeEffects
    <3> QED
      BY <1>1, <1>4, <2>2, <3>1 DEF Effects
  <2> QED
    BY <2>1, <2>2
<1>5. CASE UNCHANGED queueVars
  BY <1>1, <1>5 DEF queueVars, vars, Queue!queueVars, deliveryVars
<1> QED
  BY <1>2, <1>3, <1>4, <1>5 DEF Next

\* A handler that returns from a text with its retries used up, without a
\* fault, leaves a row that tells the outcome.
LEMMA LastDeliveryDecides ==
    ASSUME IInv, RetriesLeft, kind = "sms", NEW c \in Consumer, DeliverSMS(c),
           phase[c] = "handling", phase'[c] # "handling", faults' = faults,
           ~cancelled[c], Subject(c) \notin Unfound \cup Broken, Retries(c) >= MaxRetries
    PROVE  status'[Subject(c)] # "created"
<1> USE DEF IInv, Typed
<1>1. ~Fail(c) /\ ~Inside(c) /\ phase' # phase
  BY DEF Fail, Inside, Queue!Abort, Queue!CallFails, Queue!Fault, TypeOK, Queue!TypeOK
<1>2. ~(ProceedSMS(c) \/ RefuseSMS(c) \/ CallFails(c) \/ SentSMS(c) \/ RejectedSMS(c))
  BY <1>1 DEF ProceedSMS, RefuseSMS, GoOn, CallFails, SentSMS, Simulate, Accept, RejectedSMS, Reject
<1>3. ~(\/ SendFailsSMS(c) \/ WrittenSMS(c) \/ RecordFails(c) \/ Toggle(c) \/ ToggleFails(c)
        \/ EnqueueDeliveryStatusCallback(c) \/ CallbackFails(c) \/ NotFound(c)
        \/ ErrorLasts(c))
  BY <1>1 DEF SendFailsSMS, ProviderFails, WrittenSMS, Record, RecordFails, Toggle, ToggleFails,
     EnqueueDeliveryStatusCallback, CallbackFails, NotFound, ErrorLasts
<1>4. ~Retry(c)
  <2>1. current[c].count \in Nat
    BY HandlingAnEntry DEF Queue!Entry, TypeOK
  <2> QED
    BY <2>1, DeliveryAssumption DEF Retry, RetriesLeft, Retries
<1>5. Skip(c) \/ FinishedSMS(c)
  BY <1>2, <1>3, <1>4 DEF DeliverSMS
<1>6. status' = status /\ status[Subject(c)] # "created"
  BY <1>5 DEF Skip, FinishedSMS, Finish, Recorded
<1> QED
  BY <1>6

\* Whatever the providers answer, the last retry of a text whose row is found
\* and that meets no error that lasts ends with an outcome in the row, unless a call fails or the worker is stopped.
THEOREM TextsAreDecided == Spec => LastRetryDecides
<1>1. IInv /\ RetriesLeft /\ [Next]_queueVars =>
         [\A c \in Consumer :
             (/\ kind = "sms" /\ phase[c] = "handling" /\ phase'[c] # "handling"
              /\ faults' = faults /\ ~cancelled[c]
              /\ Subject(c) \notin Unfound \cup Broken /\ Retries(c) >= MaxRetries)
             => status'[Subject(c)] # "created"]_queueVars
  <2> SUFFICES ASSUME IInv, RetriesLeft, [Next]_queueVars, NEW c \in Consumer,
                      kind = "sms", phase[c] = "handling", phase'[c] # "handling",
                      faults' = faults, ~cancelled[c],
                      Subject(c) \notin Unfound \cup Broken, Retries(c) >= MaxRetries
               PROVE  status'[Subject(c)] # "created"
    OBVIOUS
  <2> USE DEF IInv, Typed
  <2>1. CASE Deliver(c)
    BY <2>1, LastDeliveryDecides DEF Deliver
  <2>2. ASSUME NEW d \in Consumer, d # c, Deliver(d)
        PROVE  phase'[c] = phase[c]
    <3>1. \/ Queue!NextMessage(d)
          \/ UNCHANGED phase
      BY <2>2, DeliverShape DEF Shape, Leaves, Return, Queue!Complete, Moves, Records, Breaks,
         Fail, Queue!Abort, Tells, QueueStays
    <3> QED
      BY <2>2, <3>1 DEF Queue!NextMessage, TypeOK, Queue!TypeOK
  <2>3. ASSUME NEW d \in Consumer, Around(d)
        PROVE  phase'[c] = "handling"
    <3>1. ~Crash(d)
      BY DEF Crash, Queue!Crash, Queue!Fault, TypeOK, Queue!TypeOK
    <3> QED
      BY <2>3, <3>1 DEF Around, Receive, Queue!Receive, Start, Queue!Take, Cancel, Queue!Cancel,
         Exit, Queue!Exit, Restart, Queue!Restart, TypeOK, Queue!TypeOK
  <2>4. ASSUME NEW n \in Notification, Send(n) \/ VisibilityTimeout(n)
        PROVE  phase' = phase
    BY <2>4 DEF Send, Queue!Send, VisibilityTimeout, Queue!VisibilityTimeout
  <2>5. CASE UNCHANGED queueVars
    BY <2>5 DEF queueVars, vars, Queue!queueVars
  <2> QED
    BY <2>1, <2>2, <2>3, <2>4, <2>5 DEF Next
<1>2. QueueInit => RetriesLeft
  BY DEF QueueInit, Init, RetriesLeft
<1>3. IInv => Typed
  BY DEF IInv
<1> QED
  BY <1>1, <1>2, <1>3, NextCountsRetries, Inductive, PTL DEF Spec, LastRetryDecides

-----------------------------------------------------------------------------
(* The path.  The two halves share the count of faults, and a shutdown or  *)
(* a death of the process, which falls on all consumers of both at once.   *)

\* The invariants of the save workers: what is proved of SavePipeline, whose
\* steps are steps of the path.
SaveInv ==
    /\ Save!TypeOK /\ Save!OwnerInv /\ Save!DropInv /\ Save!AckInv /\ Save!LoopInv

\* The delivery message of n is sent exactly when it is on its queue, or was.
Linked == \A n \in Notification : sent[n] > 0 <=> place[n] # "unsent"

\* Before it is sent, n means nothing to the delivery workers.
Untouched ==
    \A n \in Notification : place[n] = "unsent" =>
        overtaken[n] = 0 /\ accepted[n] = 0 /\ status[n] = "created"

\* A fault of the whole process endangers what each of its workers has in hand.
StrandingInv ==
    /\ IsFiniteSet(Save!Endangered)
    /\ Cardinality(Save!Endangered) <= faults * Cardinality(SaveConsumer)

SilenceInv ==
    /\ IsFiniteSet(Endangered)
    /\ Cardinality(Endangered) <= faults * Cardinality(Consumer)

PathInv ==
    /\ SaveInv /\ IInv /\ CountInv /\ ReportInv
    /\ Linked /\ Untouched
    /\ StrandingInv /\ SilenceInv

\* The lemmas of SavePipeline_proofs, of the save workers of the path.
LEMMA SaveNextKeeps ==
    ASSUME SaveInv, [Save!Next]_(Save!vars)
    PROVE  /\ SaveInv' /\ Save!Charged
           /\ \A n \in Notification : sent'[n] >= sent[n]
<1> USE PathAssumption, DeliveryAssumption DEF SaveInv
<1>1. Save!TypeOK'
  BY Save!NextTyped
<1>2. Save!OwnerInv'
  BY Save!NextKeepsOwners
<1>3. Save!DropInv'
  BY Save!NextKeepsDrops
<1>4. Save!AckInv'
  BY Save!NextKeepsAcks
<1>5. Save!LoopInv'
  BY Save!NextKeepsLoops
<1>6. Save!Charged
  BY Save!NextIsCharged
<1>7. \A n \in Notification : sent'[n] >= sent[n]
  <2>1. \/ UNCHANGED sent
        \/ \E n \in rows : sent' = [sent EXCEPT ![n] = @ + 1]
    BY Save!RowsThenMessages
  <2> QED
    BY <2>1 DEF Save!TypeOK
<1> QED
  BY <1>1, <1>2, <1>3, <1>4, <1>5, <1>6, <1>7

LEMMA SaveInitSafe == Save!Init => SaveInv /\ Save!Endangered = {}
<1> USE DeliveryAssumption
<1> SUFFICES ASSUME Save!Init PROVE SaveInv /\ Save!Endangered = {}
  OBVIOUS
<1>1. Save!TypeOK
  BY DEF Save!Init, Save!Queue!Init, Save!TypeOK, Save!Queue!TypeOK
<1>2. Save!OwnerInv /\ Save!LoopInv
  BY DEF Save!Init, Save!OwnerInv, Save!Owner, Save!LoopInv
<1>3. Save!DropInv /\ Save!AckInv
  BY PathAssumption DEF Save!Init, Save!Queue!Init, Save!DropInv, Save!CountInv, Save!DroppedOnlyAfterRetries,
     Save!AckInv, Save!SettledIsAcknowledged
<1>4. Save!Endangered = {}
  BY DEF Save!Init, Save!Queue!Init, Save!Endangered, Save!Stranded, Save!AtRisk, Save!Owner
<1> QED
  BY <1>1, <1>2, <1>3, <1>4 DEF SaveInv

\* Where a save worker does nothing, or is cancelled, its invariants stay.
LEMMA SaveInvKept ==
    ASSUME SaveInv, faults' \in 0 .. MaxFaults, saveCancelled' \in [SaveConsumer -> BOOLEAN],
           UNCHANGED <<savePlace, saveReceived, saveTimer, saveBatch, saveCurrent, savePhase,
                       signed, rows, acked, unheard, saveStep, todo, sent, limited>>,
           \A c \in SaveConsumer : saveCancelled[c] => saveCancelled'[c]
    PROVE  SaveInv'
<1> USE DEF SaveInv
<1>1. Save!TypeOK'
  BY DEF Save!TypeOK, Save!Queue!TypeOK
<1>2. Save!OwnerInv' /\ Save!LoopInv'
  BY DEF Save!OwnerInv, Save!LoopInv, Save!Owner, Save!Work
<1>3. Save!DropInv' /\ Save!AckInv'
  BY DEF Save!DropInv, Save!CountInv, Save!DroppedOnlyAfterRetries, Save!AckInv,
     Save!SettledIsAcknowledged
<1> QED
  BY <1>1, <1>2, <1>3

\* Nor does the end of the process disturb them: what a save worker had in
\* hand it is not responsible for any more.
LEMMA SaveInvAtDeath ==
    ASSUME SaveInv, Die
    PROVE  SaveInv'
<1> USE DEF SaveInv
<1>1. /\ \A c \in SaveConsumer : /\ saveStep'[c] = "idle" /\ todo'[c] = {} /\ saveBatch'[c] = {}
                                 /\ saveCurrent'[c] = NoEntry /\ savePhase'[c] = "polling"
      /\ UNCHANGED <<savePlace, saveReceived, saveTimer, signed, rows, acked, unheard, sent,
                     limited>>
  BY DEF Die
<1>2. Save!TypeOK'
  BY DeliveryAssumption DEF Die, Queue!Fault, Save!TypeOK, Save!Queue!TypeOK
<1>3. Save!OwnerInv' /\ Save!LoopInv'
  BY <1>1 DEF Save!OwnerInv, Save!LoopInv, Save!Owner
<1>4. Save!DropInv' /\ Save!AckInv'
  BY <1>1 DEF Save!DropInv, Save!CountInv, Save!DroppedOnlyAfterRetries, Save!AckInv,
     Save!SettledIsAcknowledged
<1> QED
  BY <1>2, <1>3, <1>4

\* A message that is put on the delivery queue disturbs no delivery worker.
LEMMA ArrivalKeeps ==
    ASSUME IInv, CountInv, ReportInv, Untouched, UNCHANGED deliverySide, faults' \in 0 .. MaxFaults,
           NEW T \in SUBSET Notification, \A n \in T : place[n] = "unsent",
           place' = [n \in Notification |-> IF n \in T THEN "visible" ELSE place[n]]
    PROVE  IInv' /\ CountInv' /\ ReportInv' /\ Untouched'
<1>1. UNCHANGED <<received, timer, batch, current, phase, cancelled, status, step, verdict,
                  accepted, callbacks, unrecorded, overtaken, kind>>
  BY DEF deliverySide, deliveryVars, ghosts
<1>2. Typed'
  BY <1>1 DEF IInv, Typed, TypeOK, Queue!TypeOK, MailsHaveVerdicts
<1>3. \A n \in Notification, c \in Consumer : Holds(c, n)' <=> Holds(c, n)
  BY <1>1 DEF Holds, Subject
<1>4. \A n \in Notification : /\ place'[n] \in {"unsent", "visible"} =>
                                     place[n] \in {"unsent", "visible"}
                              /\ place'[n] = "unsent" => place[n] = "unsent"
                              /\ place'[n] = "deleted" => place[n] = "deleted"
  OBVIOUS
<1>5. OwnerInv'
  BY <1>1, <1>3, <1>4 DEF IInv, OwnerInv, Subject
<1>6. Recorded' /\ Fate'
  BY <1>1 DEF IInv, Recorded, Fate, Subject
<1>7. DeletedIsFinal' /\ CalmCallbacks'
  BY <1>1, <1>4 DEF IInv, DeletedIsFinal, CalmCallbacks
<1>8. \A n \in Notification : /\ Holders(n)' = Holders(n) /\ Answered(n)' = Answered(n)
                              /\ Trying(n)' = Trying(n) /\ Free(n)' = Free(n)
  BY <1>1, <1>3 DEF Holders, Answered, Trying, Subject, Free
<1>9. CountInv'
  BY <1>1, <1>2, <1>8 DEF CountInv, HeldInv, Accounted
<1>10. Untouched'
  BY <1>1, <1>4 DEF Untouched
<1>11. ReportInv'
  BY <1>1, <1>2, ReportTypes, NobodyIsTold DEF IInv
<1> QED
  BY <1>2, <1>5, <1>6, <1>7, <1>9, <1>10, <1>11 DEF IInv

\* A shutdown takes the context from all consumers and nothing else.
LEMMA ShutdownKeeps ==
    ASSUME IInv, CountInv, ReportInv, Untouched, Stop
    PROVE  IInv' /\ CountInv' /\ ReportInv' /\ Untouched'
<1>1. /\ UNCHANGED <<place, received, timer, batch, current, phase, status, step, verdict,
                     accepted, callbacks, unrecorded, overtaken, kind>>
      /\ cancelled' \in [Consumer -> BOOLEAN] /\ faults < MaxFaults /\ faults' = faults + 1
  BY DEF Stop, Queue!Fault, deliveryVars, ghosts
<1>2. Typed'
  BY <1>1, DeliveryAssumption DEF IInv, Typed, TypeOK, Queue!TypeOK, MailsHaveVerdicts
<1>3. IInv'
  BY <1>1, <1>2, StopKeeps
<1>4. \A n \in Notification : /\ Holders(n)' = Holders(n) /\ Answered(n)' = Answered(n)
                              /\ Trying(n)' = Trying(n) /\ Free(n)' = Free(n)
  BY <1>1 DEF Holders, Holds, Answered, Trying, Subject, Free
<1>5. CountInv'
  BY <1>1, <1>2, <1>4 DEF CountInv, HeldInv, Accounted
<1>6. ReportInv'
  BY <1>1, <1>2, ReportTypes, NobodyIsTold DEF IInv
<1> QED
  BY <1>1, <1>3, <1>5, <1>6 DEF Untouched

\* When the process dies, the acceptances that no row tells of are counted as
\* unrecorded, and nobody holds a message any more.
LEMMA DeathKeeps ==
    ASSUME IInv, CountInv, ReportInv, Untouched, Die
    PROVE  IInv' /\ CountInv' /\ ReportInv' /\ Untouched'
<1>1. /\ UNCHANGED <<place, received, timer, status, accepted, callbacks, overtaken, kind>>
      /\ faults < MaxFaults /\ faults' = faults + 1
      /\ batch' = [c \in Consumer |-> {}] /\ current' = [c \in Consumer |-> NoEntry]
      /\ phase' = [c \in Consumer |-> "polling"] /\ cancelled' = [c \in Consumer |-> FALSE]
      /\ step' = [c \in Consumer |-> "idle"] /\ verdict' = [c \in Consumer |-> "created"]
      /\ unrecorded' = [n \in Notification |-> unrecorded[n] + Cardinality(Answered(n))]
  BY DEF Die, Queue!Fault
<1>2. \A n \in Notification : /\ unrecorded[n] \in Nat /\ Cardinality(Answered(n)) \in Nat
                              /\ unrecorded'[n] = unrecorded[n] + Cardinality(Answered(n))
  BY <1>1, CountTypes DEF CountInv
<1>3. Queue!TypeOK'
  BY <1>1, DeliveryAssumption DEF IInv, Typed, TypeOK, Queue!TypeOK
<1>4. unrecorded' \in [Notification -> Nat]
  <2>1. \A n \in Notification : unrecorded[n] + Cardinality(Answered(n)) \in Nat
    BY <1>2
  <2> QED
    BY <1>1, <2>1
<1>5. Typed'
  BY <1>1, <1>3, <1>4 DEF IInv, Typed, TypeOK, MailsHaveVerdicts, Step, Status
<1>6. IInv'
  BY <1>1, <1>5, StopKeeps
<1>7. HeldInv'
  BY <1>1, HeldKept DEF CountInv
<1>8. ASSUME NEW n \in Notification
      PROVE  Accounted(n)'
  <2>1. Answered(n)' = {} /\ Trying(n)' = {}
    BY <1>1 DEF Answered, Trying, Open
  <2>2. Cardinality({}) = 0
    BY FS_EmptySet
  <2>3. /\ status[n] = "created" => accepted[n] <= unrecorded[n] + Cardinality(Answered(n))
        /\ accepted[n] + Cardinality(Trying(n)) <= 1 + unrecorded[n] + overtaken[n]
    BY DEF CountInv, Accounted
  <2>4. /\ accepted[n] \in Nat /\ overtaken[n] \in Nat /\ Cardinality(Trying(n)) \in Nat
    BY CountTypes DEF CountInv
  <2>5. /\ status'[n] = "created" => accepted'[n] <= unrecorded'[n]
        /\ accepted'[n] <= 1 + unrecorded'[n] + overtaken'[n]
    BY <1>1, <1>2, <2>3, <2>4
  <2>6. unrecorded'[n] \in Nat
    BY <1>4
  <2> QED
    BY <1>1, <2>1, <2>2, <2>4, <2>5, <2>6 DEF Accounted
<1>9. CountInv'
  BY <1>5, <1>7, <1>8 DEF CountInv
<1>10. ReportInv'
  BY <1>1, <1>5, ReportTypes, NobodyIsTold DEF IInv, Open
<1> QED
  BY <1>1, <1>6, <1>9, <1>10 DEF Untouched

\* A provider takes only the message a handler has in hand.
LEMMA AcceptedElsewhere ==
    ASSUME Typed, NEW c \in Consumer, step[c] # "idle", Shape(c),
           NEW n \in Notification, n # Subject(c)
    PROVE  accepted'[n] = accepted[n]
<1>1. CASE UNCHANGED accepted
  BY <1>1
<1>2. CASE accepted' = Increment(accepted, Subject(c))
  BY <1>2, HandlingAnEntry DEF Increment, Typed, TypeOK
<1> QED
  BY <1>1, <1>2 DEF Shape, Leaves, Moves, Counts, Records, Breaks, Tells, ghosts

\* The delivery workers do nothing to a notification whose message has not
\* been sent, and unsend none.
LEMMA UnsentIsLeftAlone ==
    ASSUME IInv, Untouched, DeliveryNext, NEW n \in Notification
    PROVE  /\ place'[n] = "unsent" <=> place[n] = "unsent"
           /\ place[n] = "unsent" => /\ overtaken'[n] = overtaken[n] /\ status'[n] = status[n]
                                     /\ accepted'[n] = accepted[n]
<1> USE DEF IInv
<1>0. place \in [Notification -> {"unsent", "visible", "inflight", "deleted"}]
  BY DEF Typed, TypeOK, Queue!TypeOK
<1>1. ASSUME NEW m \in Notification, VisibilityTimeout(m)
      PROVE  /\ place'[n] = "unsent" <=> place[n] = "unsent"
             /\ place[n] = "unsent" => overtaken'[n] = overtaken[n]
             /\ UNCHANGED <<status, accepted>>
  BY <1>0, <1>1 DEF VisibilityTimeout, Queue!VisibilityTimeout, Increment, Typed, TypeOK
<1>2. ASSUME NEW c \in Consumer, Around(c)
      PROVE  /\ place'[n] = "unsent" <=> place[n] = "unsent"
             /\ UNCHANGED <<overtaken, status, accepted>>
  <2>1. ASSUME NEW S \in SUBSET Notification, Receive(c, S)
        PROVE  /\ place'[n] = "unsent" <=> place[n] = "unsent"
               /\ UNCHANGED <<overtaken, status, accepted>>
    BY <2>1 DEF Receive, Queue!Receive, deliveryVars, ghosts
  <2>2. CASE ~\E S \in SUBSET Notification : Receive(c, S)
    BY <1>2, <2>2 DEF Around, Start, Cancel, Exit, Restart, Crash, Queue!Take, Queue!Cancel,
       Queue!Exit, Queue!Restart, Queue!Crash, deliveryVars, ghosts
  <2> QED
    BY <2>1, <2>2
<1>3. ASSUME NEW c \in Consumer, Deliver(c)
      PROVE  /\ place'[n] = "unsent" <=> place[n] = "unsent"
             /\ place[n] = "unsent" => /\ overtaken'[n] = overtaken[n] /\ status'[n] = status[n]
                                       /\ accepted'[n] = accepted[n]
  <2>1. Shape(c) /\ step[c] # "idle" /\ Effects(c)
    BY <1>3, DeliverShape, ShapeIsBusy, ShapeEffects
  <2>2. CASE place[n] = "unsent"
    <3>1. \A d \in Consumer : ~Holds(d, n)
      BY <2>2 DEF Untouched, OwnerInv
    <3>2. n # Subject(c)
      BY <2>1, <3>1, HandlingAnEntry DEF Holds, Typed
    <3> QED
      BY <2>1, <2>2, <3>2, AcceptedElsewhere DEF Effects
  <2>3. CASE place[n] # "unsent"
    BY <2>1, <2>3 DEF Effects
  <2> QED
    BY <2>2, <2>3
<1> QED
  BY <1>1, <1>2, <1>3 DEF DeliveryNext

\* A step of the delivery side.
LEMMA DeliveryKeeps ==
    ASSUME SaveInv, IInv, CountInv, ReportInv, Linked, Untouched, DeliverySide(DeliveryNext)
    PROVE  SaveInv' /\ IInv' /\ CountInv' /\ ReportInv' /\ Linked' /\ Untouched'
<1>1. Next /\ UNCHANGED saveSide /\ DeliveryNext
  BY DEF DeliverySide, DeliveryNext, Next
<1>2. IInv' /\ CountInv' /\ ReportInv'
  BY <1>1, NextSafe, NextCounts, NextReports
<1>3. SaveInv'
  <2>1. faults' \in 0 .. MaxFaults
    BY <1>2 DEF IInv, Typed, TypeOK, Queue!TypeOK
  <2>2. saveCancelled \in [SaveConsumer -> BOOLEAN]
    BY DEF SaveInv, Save!TypeOK, Save!Queue!TypeOK
  <2> QED
    BY <1>1, <2>1, <2>2, SaveInvKept DEF saveSide
<1>4. Linked' /\ Untouched'
  BY <1>1, UnsentIsLeftAlone DEF Linked, Untouched, saveSide
<1> QED
  BY <1>2, <1>3, <1>4

\* A step of the save side: what it sends was not on the delivery queue, as
\* nothing is sent twice.
LEMMA SaveKeeps ==
    ASSUME SaveInv, IInv, CountInv, ReportInv, Linked, Untouched, SaveSide(Save!Next)
    PROVE  SaveInv' /\ IInv' /\ CountInv' /\ ReportInv' /\ Linked' /\ Untouched'
<1>1. SaveInv' /\ \A n \in Notification : sent'[n] >= sent[n]
  BY SaveNextKeeps DEF SaveSide
<1> DEFINE T == {n \in Notification : sent'[n] > sent[n]}
<1>2. \A n \in Notification : sent[n] \in Nat /\ sent'[n] \in Nat /\ sent'[n] <= 1
  BY <1>1 DEF SaveInv, Save!TypeOK, Save!OwnerInv
<1>3. /\ place' = [n \in Notification |-> IF n \in T THEN "visible" ELSE place[n]]
      /\ UNCHANGED deliverySide
  BY DEF SaveSide
<1>4. \A n \in T : place[n] = "unsent"
  BY <1>2 DEF Linked
<1>5. faults' \in 0 .. MaxFaults
  BY <1>1 DEF SaveInv, Save!TypeOK, Save!Queue!TypeOK
<1>6. IInv' /\ CountInv' /\ ReportInv' /\ Untouched'
  <2> HIDE DEF T
  <2>1. T \in SUBSET Notification
    BY DEF T
  <2> QED
    BY <1>3, <1>4, <1>5, <2>1, ArrivalKeeps
<1>7. Linked'
  BY <1>1, <1>2, <1>3 DEF Linked
<1> QED
  BY <1>1, <1>6, <1>7

\* The elements that a function has on a finite set.
LEMMA ImageCount ==
    ASSUME NEW S, IsFiniteSet(S), NEW f, f = [x \in S |-> f[x]]
    PROVE  /\ IsFiniteSet({f[x] : x \in S})
           /\ Cardinality({f[x] : x \in S}) <= Cardinality(S)
<1> DEFINE T == {f[x] : x \in S}
<1>1. f \in [S -> T]
  OBVIOUS
<1>2. f \in Surjection(S, T)
  BY <1>1 DEF Surjection
<1> QED
  BY <1>2, FS_Surjection

\* What may be endangered where each of f faults endangers k at most, a fault
\* more and k more ...
LEMMA FaultAddsShare ==
    ASSUME NEW f \in Nat, NEW k \in Nat,
           NEW D, IsFiniteSet(D), Cardinality(D) <= f * k,
           NEW E, IsFiniteSet(E), Cardinality(E) <= k, NEW R \in SUBSET (D \cup E)
    PROVE  IsFiniteSet(R) /\ Cardinality(R) <= (f + 1) * k
<1>1. /\ IsFiniteSet(D \cup E)
      /\ Cardinality(D \cup E) = Cardinality(D) + Cardinality(E) - Cardinality(D \cap E)
  BY FS_Union
<1>2. IsFiniteSet(D \cap E)
  BY FS_Subset
<1>3. /\ Cardinality(D) \in Nat /\ Cardinality(E) \in Nat /\ Cardinality(D \cap E) \in Nat
      /\ Cardinality(D \cup E) \in Nat
  BY <1>1, <1>2, FS_CardinalityType
<1>4. IsFiniteSet(R) /\ Cardinality(R) <= Cardinality(D \cup E) /\ Cardinality(R) \in Nat
  BY <1>1, FS_Subset, FS_CardinalityType
<1>5. (f + 1) * k = f * k + k /\ f * k \in Nat
  OBVIOUS
<1> QED
  BY <1>1, <1>3, <1>4, <1>5

\* ... and where nothing is added.
LEMMA ShareGrows ==
    ASSUME NEW f \in Nat, NEW g \in Nat, f <= g, NEW k \in Nat,
           NEW D, IsFiniteSet(D), Cardinality(D) <= f * k, NEW R \in SUBSET D
    PROVE  IsFiniteSet(R) /\ Cardinality(R) <= g * k
<1>1. IsFiniteSet(R) /\ Cardinality(R) <= Cardinality(D) /\ Cardinality(R) \in Nat
  BY FS_Subset, FS_CardinalityType
<1>2. Cardinality(D) \in Nat
  BY FS_CardinalityType
<1>3. g * k = f * k + (g - f) * k /\ (g - f) * k \in Nat /\ f * k \in Nat
  <2>1. (g - f) \in Nat
    OBVIOUS
  <2>2. (g - f) * k \in Nat /\ f * k \in Nat
    BY <2>1
  <2>3. g * k = f * k + (g - f) * k
    OBVIOUS
  <2> QED
    BY <2>2, <2>3
<1> QED
  BY <1>1, <1>2, <1>3

\* What the consumers are counted by.
LEMMA WorkersAreCounted ==
    /\ IsFiniteSet(SaveConsumer) /\ Cardinality(SaveConsumer) \in Nat \ {0}
    /\ IsFiniteSet(Consumer) /\ Cardinality(Consumer) \in Nat \ {0}
<1>1. /\ IsFiniteSet(SaveConsumer) /\ SaveConsumer # {}
      /\ IsFiniteSet(Consumer) /\ Consumer # {}
  BY PathAssumption, ConsumersAreFinite
<1>2. Cardinality(SaveConsumer) # 0 /\ Cardinality(Consumer) # 0
  BY <1>1, FS_EmptySet
<1> QED
  BY <1>1, <1>2, FS_CardinalityType

\* One more element is no more than one for each consumer.
LEMMA OneIsAShare ==
    ASSUME NEW b
    PROVE  /\ IsFiniteSet({b}) /\ Cardinality({b}) <= Cardinality(SaveConsumer)
           /\ Cardinality({b}) <= Cardinality(Consumer)
<1>1. IsFiniteSet({b}) /\ Cardinality({b}) = 1
  BY FS_Singleton
<1> QED
  BY <1>1, WorkersAreCounted

\* Stranding and silence are charged with faults, step by step.
LEMMA SaveSideIsCharged ==
    ASSUME SaveInv, IInv, StrandingInv, SilenceInv, SaveSide(Save!Next)
    PROVE  StrandingInv' /\ SilenceInv'
<1>1. SaveInv' /\ Save!Charged
  BY SaveNextKeeps DEF SaveSide
<1>2. faults \in Nat /\ faults' \in Nat /\ faults <= faults'
  BY <1>1, DeliveryAssumption DEF SaveInv, Save!TypeOK, Save!Queue!TypeOK, Save!Charged
<1>3. StrandingInv'
  <2>1. CASE Save!Endangered' \subseteq Save!Endangered
    BY <1>2, <2>1, WorkersAreCounted, ShareGrows DEF StrandingInv
  <2>2. ASSUME NEW b, Save!Endangered' \subseteq Save!Endangered \cup {b}, faults' = faults + 1
        PROVE  StrandingInv'
    BY <1>2, <2>2, WorkersAreCounted, OneIsAShare, FaultAddsShare DEF StrandingInv
  <2> QED
    BY <1>1, <2>1, <2>2 DEF Save!Charged
<1>4. Endangered' = Endangered
  BY DEF SaveSide, deliverySide, deliveryVars, ghosts, Endangered, Subject
<1> QED
  BY <1>2, <1>3, <1>4, WorkersAreCounted, ShareGrows DEF SilenceInv

LEMMA DeliverySideIsCharged ==
    ASSUME SaveInv, IInv, StrandingInv, SilenceInv, DeliverySide(DeliveryNext)
    PROVE  StrandingInv' /\ SilenceInv'
<1>1. Next /\ UNCHANGED saveSide
  BY DEF DeliverySide, DeliveryNext, Next
<1>2. Charged /\ Typed'
  BY <1>1, NextIsCharged, NextTyped DEF IInv
<1>3. faults \in Nat /\ faults' \in Nat /\ faults <= faults'
  BY <1>2, DeliveryAssumption DEF IInv, Typed, TypeOK, Queue!TypeOK, Charged
<1>4. SilenceInv'
  <2>1. CASE Endangered' \subseteq Endangered
    BY <1>3, <2>1, WorkersAreCounted, ShareGrows DEF SilenceInv
  <2>2. ASSUME NEW n, Endangered' \subseteq Endangered \cup {n}, faults' = faults + 1
        PROVE  SilenceInv'
    BY <1>3, <2>2, WorkersAreCounted, OneIsAShare, FaultAddsShare DEF SilenceInv
  <2> QED
    BY <1>2, <2>1, <2>2 DEF Charged
<1>5. Save!Endangered' = Save!Endangered
  BY <1>1 DEF saveSide, Save!Endangered, Save!Stranded, Save!AtRisk, Save!Dispatched,
     Save!InProgress, Save!Work, Save!Owner
<1> QED
  BY <1>3, <1>4, <1>5, WorkersAreCounted, ShareGrows DEF StrandingInv

\* What the save workers have in hand is a batch for each of them, and what the
\* delivery workers have is a notification each.
InHand == {saveCurrent[c].msg : c \in SaveConsumer}

Subjects == {Subject(c) : c \in Consumer}

LEMMA InHandIsAShare ==
    /\ IsFiniteSet(InHand) /\ Cardinality(InHand) <= Cardinality(SaveConsumer)
    /\ IsFiniteSet(Subjects) /\ Cardinality(Subjects) <= Cardinality(Consumer)
<1> DEFINE f == [c \in SaveConsumer |-> saveCurrent[c].msg]
           g == [c \in Consumer |-> Subject(c)]
<1>1. f = [c \in SaveConsumer |-> f[c]] /\ InHand = {f[c] : c \in SaveConsumer}
  BY DEF InHand
<1>2. g = [c \in Consumer |-> g[c]] /\ Subjects = {g[c] : c \in Consumer}
  BY DEF Subjects
<1> HIDE DEF f, g
<1> QED
  BY <1>1, <1>2, WorkersAreCounted, ImageCount

\* A shutdown or a death endangers what is in hand at that moment.
LEMMA StrandedInHand ==
    ASSUME SaveInv, Stop \/ Die
    PROVE  Save!Endangered' \subseteq Save!Endangered \cup InHand
<1> USE DEF SaveInv
<1> SUFFICES ASSUME NEW b \in Batch, b \in Save!Endangered', b \notin InHand
             PROVE  b \in Save!Endangered
  BY DEF Save!Endangered, Save!Stranded, Save!AtRisk
<1>1. UNCHANGED <<rows, sent, limited>>
  BY DEF Stop, Die
<1>2. \A c \in SaveConsumer : saveStep'[c] # "idle" => saveCurrent'[c] = saveCurrent[c]
  BY DEF Stop, Die
<1>3. b \notin Save!AtRisk'
  BY <1>2 DEF Save!AtRisk, Save!Owner, InHand
<1>4. PICK n \in items[b] : n \in rows /\ ~Save!Dispatched(n)'
  BY <1>1, <1>3 DEF Save!Endangered, Save!Stranded
<1>5. ASSUME NEW c \in SaveConsumer, n \in todo[c] \/ (saveStep[c] = "inserted" /\ n \in Save!Work(c))
      PROVE  FALSE
  <2>1. saveStep[c] # "idle" /\ n \in Save!Work(c)
    BY <1>5 DEF Save!OwnerInv, Save!TypeOK
  <2>2. saveCurrent[c].msg \in Batch
    BY <2>1, Save!HandlingAnEntry, PathAssumption, DeliveryAssumption
  <2>3. saveCurrent[c].msg = b
    BY <1>4, <2>1, <2>2, PathAssumption DEF Save!Work
  <2> QED
    BY <2>3 DEF InHand
<1> QED
  BY <1>1, <1>4, <1>5 DEF Save!Endangered, Save!Stranded, Save!Dispatched, Save!InProgress

LEMMA SilencedInHand ==
    ASSUME Stop \/ Die
    PROVE  Endangered' \subseteq Endangered \cup Subjects
  BY DEF Stop, Die, deliveryVars, ghosts, Endangered, Subject, Subjects

LEMMA ProcessIsCharged ==
    ASSUME SaveInv, IInv, StrandingInv, SilenceInv, Stop \/ Die
    PROVE  StrandingInv' /\ SilenceInv'
<1>1. faults \in Nat /\ faults' = faults + 1
  BY DeliveryAssumption DEF IInv, Typed, TypeOK, Queue!TypeOK, Stop, Die, Queue!Fault
<1>2. /\ Save!Endangered' \in SUBSET (Save!Endangered \cup InHand)
      /\ Endangered' \in SUBSET (Endangered \cup Subjects)
  BY StrandedInHand, SilencedInHand
<1>3. StrandingInv'
  BY <1>1, <1>2, WorkersAreCounted, InHandIsAShare, FaultAddsShare DEF StrandingInv
<1>4. SilenceInv'
  BY <1>1, <1>2, WorkersAreCounted, InHandIsAShare, FaultAddsShare DEF SilenceInv
<1> QED
  BY <1>3, <1>4

LEMMA PathInitSafe == PathInit => PathInv
<1> SUFFICES ASSUME PathInit PROVE PathInv
  OBVIOUS
<1>1. SaveInv /\ Save!Endangered = {}
  BY SaveInitSafe DEF PathInit
<1>2. IInv /\ CountInv /\ ReportInv
  BY InitSafe, InitCounts, InitReports DEF PathInit
<1>3. /\ place = [n \in Notification |-> "unsent"] /\ overtaken = [n \in Notification |-> 0]
      /\ accepted = [n \in Notification |-> 0] /\ status = [n \in Notification |-> "created"]
      /\ sent = [n \in Notification |-> 0] /\ faults = 0
  BY DEF PathInit, QueueInit, Init, Queue!Init, Save!Init
<1>4. Linked /\ Untouched
  BY <1>3 DEF Linked, Untouched
<1>5. Endangered = {}
  BY <1>3 DEF Endangered, Failed
<1>6. IsFiniteSet({}) /\ Cardinality({}) = 0
  BY FS_EmptySet
<1>7. 0 * Cardinality(SaveConsumer) = 0 /\ 0 * Cardinality(Consumer) = 0
  BY WorkersAreCounted
<1> QED
  BY <1>1, <1>2, <1>3, <1>4, <1>5, <1>6, <1>7 DEF PathInv, StrandingInv, SilenceInv

LEMMA PathNextSafe == PathInv /\ [PathNext]_pathVars => PathInv'
<1> SUFFICES ASSUME PathInv, [PathNext]_pathVars PROVE PathInv'
  OBVIOUS
<1> USE DEF PathInv
<1>1. CASE SaveSide(Save!Next)
  BY <1>1, SaveKeeps, SaveSideIsCharged
<1>2. CASE DeliverySide(DeliveryNext)
  BY <1>2, DeliveryKeeps, DeliverySideIsCharged
<1>3. CASE Stop
  <2>1. SaveInv'
    <3>1. /\ faults' \in 0 .. MaxFaults /\ saveCancelled' \in [SaveConsumer -> BOOLEAN]
          /\ \A c \in SaveConsumer : saveCancelled'[c]
      BY <1>3, DeliveryAssumption DEF Stop, Queue!Fault, IInv, Typed, TypeOK, Queue!TypeOK
    <3> QED
      BY <1>3, <3>1, SaveInvKept DEF Stop
  <2>2. Linked'
    BY <1>3 DEF Stop, Linked
  <2> QED
    BY <1>3, <2>1, <2>2, ShutdownKeeps, ProcessIsCharged
<1>4. CASE Die
  <2>1. Linked'
    BY <1>4 DEF Die, Linked
  <2> QED
    BY <1>4, <2>1, SaveInvAtDeath, DeathKeeps, ProcessIsCharged
<1>5. CASE UNCHANGED pathVars
  <2>1. UNCHANGED <<faults, place, received, timer, batch, current, phase, cancelled, status, step,
                    verdict, accepted, callbacks, unrecorded, overtaken, kind, saveSide>>
    BY <1>5 DEF pathVars, deliverySide, deliveryVars, ghosts
  <2>2. SaveInv'
    <3>1. faults \in 0 .. MaxFaults /\ saveCancelled \in [SaveConsumer -> BOOLEAN]
      BY DEF SaveInv, Save!TypeOK, Save!Queue!TypeOK
    <3> QED
      BY <2>1, <3>1, SaveInvKept DEF saveSide
  <2>3. IInv' /\ CountInv' /\ ReportInv'
    BY <2>1, NextSafe, NextCounts, NextReports
       DEF queueVars, vars, Queue!queueVars, deliveryVars, ghosts
  <2>4. Linked' /\ Untouched'
    BY <2>1 DEF Linked, Untouched, saveSide
  <2>5. Save!Endangered' = Save!Endangered
    BY <2>1 DEF saveSide, Save!Endangered, Save!Stranded, Save!AtRisk, Save!Dispatched,
       Save!InProgress, Save!Work, Save!Owner
  <2>6. Endangered' = Endangered
    BY <2>1 DEF Endangered, Subject
  <2> QED
    BY <2>1, <2>2, <2>3, <2>4, <2>5, <2>6 DEF StrandingInv, SilenceInv
<1> QED
  BY <1>1, <1>2, <1>3, <1>4, <1>5 DEF PathNext

\* What is proved of either half holds along the path, and links them: the
\* invariant from which all the rest follows.
THEOREM PathInductive == PathSpec => []PathInv
  BY PathInitSafe, PathNextSafe, PTL DEF PathSpec

\* A notification that has a row and nothing to see to it belongs to a batch
\* stranded on the save side: its message cannot have been lost on the delivery
\* queue, which only messages with an outcome leave.
LEMMA OrphansWereStranded ==
    ASSUME PathInv, NEW b \in Batch, NEW n \in items[b], Orphan(n)
    PROVE  b \in Save!Endangered
<1>1. n \in Notification
  BY PathAssumption
<1>2. n \in rows /\ n \notin limited /\ ~Save!InProgress(n) /\ place[n] = "unsent"
  BY <1>1 DEF Orphan, PathInv, IInv, DeletedIsFinal
<1>3. ~(sent[n] > 0)
  BY <1>1, <1>2 DEF PathInv, Linked
<1> QED
  BY <1>2, <1>3 DEF Save!Endangered, Save!Stranded, Save!Dispatched

\* From the row to the provider nothing gets lost but by a fault on the save
\* side, and that loses no more than every save worker has in hand: for any
\* number of workers, batches, retries and faults.
THEOREM OrphansAreBounded == PathSpec => []OrphansBoundedByFaults
<1>1. PathInv => OrphansBoundedByFaults
  <2> DEFINE R == {b \in Batch : \E n \in items[b] : Orphan(n)}
  <2> SUFFICES ASSUME PathInv PROVE Cardinality(R) <= faults * Cardinality(SaveConsumer)
    BY DEF OrphansBoundedByFaults
  <2>1. R \in SUBSET Save!Endangered
    BY OrphansWereStranded
  <2>2. /\ IsFiniteSet(Save!Endangered)
        /\ Cardinality(Save!Endangered) <= faults * Cardinality(SaveConsumer)
    BY DEF PathInv, StrandingInv
  <2>3. faults \in Nat
    BY DEF PathInv, SaveInv, Save!TypeOK, Save!Queue!TypeOK
  <2> HIDE DEF R
  <2> QED
    BY <2>1, <2>2, <2>3, WorkersAreCounted, ShareGrows
<1> QED
  BY <1>1, PathInductive, PTL

\* Along the path a service misses no more failures than each fault of its
\* process finds delivery workers at work.
SilentFailuresBounded == Cardinality(Silent) <= faults * Cardinality(Consumer)

\* A shutdown or a death of the process falls on all workers of a queue at
\* once; it keeps no more failures from their services than there are workers.
THEOREM SilenceIsBounded == PathSpec => []SilentFailuresBounded
<1>1. PathInv => SilentFailuresBounded
  <2> SUFFICES ASSUME PathInv PROVE SilentFailuresBounded
    OBVIOUS
  <2>1. Silent \in SUBSET Endangered
    BY DEF Silent, Endangered
  <2>2. IsFiniteSet(Endangered) /\ Cardinality(Endangered) <= faults * Cardinality(Consumer)
    BY DEF PathInv, SilenceInv
  <2>3. faults \in Nat
    BY DEF PathInv, SaveInv, Save!TypeOK, Save!Queue!TypeOK
  <2> QED
    BY <2>1, <2>2, <2>3, WorkersAreCounted, ShareGrows DEF SilentFailuresBounded
<1> QED
  BY <1>1, PathInductive, PTL

\* No provider takes a notification, no outcome is written and no worker is
\* overtaken before the notification's row has been committed.
DeliveredIsPersisted ==
    \A n \in Notification :
        accepted[n] > 0 \/ status[n] # "created" \/ place[n] # "unsent" => n \in rows

\* The order of the whole: the row is committed, then its message sent, then the
\* provider asked, whatever is retried, delivered twice or stopped in between.
THEOREM DeliveryFollowsTheRow == PathSpec => []DeliveredIsPersisted
<1>1. PathInv => DeliveredIsPersisted
  <2> SUFFICES ASSUME PathInv, NEW n \in Notification,
                      accepted[n] > 0 \/ status[n] # "created" \/ place[n] # "unsent"
               PROVE  n \in rows
    BY DEF DeliveredIsPersisted
  <2>1. place[n] # "unsent"
    BY DEF PathInv, Untouched
  <2>2. sent[n] > 0
    BY <2>1 DEF PathInv, Linked
  <2> QED
    BY <2>2 DEF PathInv, SaveInv, Save!OwnerInv
<1> QED
  BY <1>1, PathInductive, PTL

\* What the save workers promise of a queue of their own they promise in a
\* process they share with the delivery workers, shutdowns and deaths included.
SavePromises ==
    /\ Save!EnqueuedAtMostOnce /\ Save!EnqueuedIsPersisted
    /\ Save!DroppedOnlyAfterRetries /\ Save!SettledIsAcknowledged

THEOREM SavePromisesAlongThePath == PathSpec => []SavePromises
<1>1. PathInv => SavePromises
  BY DEF PathInv, SaveInv, SavePromises, Save!OwnerInv, Save!DropInv, Save!AckInv,
     Save!EnqueuedAtMostOnce, Save!EnqueuedIsPersisted
<1> QED
  BY <1>1, PathInductive, PTL

\* And so do the delivery workers, of messages that come from the save workers.
DeliveryPromises == SentOnceButForLapses /\ DeletedIsFinal /\ CallbackTellsTheTruth

THEOREM DeliveryPromisesAlongThePath == PathSpec => []DeliveryPromises
<1>1. PathInv => DeliveryPromises
  <2> SUFFICES ASSUME PathInv PROVE DeliveryPromises
    OBVIOUS
  <2>1. ASSUME NEW n \in Notification
        PROVE  accepted[n] <= 1 + unrecorded[n] + overtaken[n]
    BY CountTypes DEF PathInv, CountInv, Accounted
  <2>2. CallbackTellsTheTruth
    BY ReportsAreTrue DEF PathInv
  <2> QED
    BY <2>1, <2>2 DEF PathInv, IInv, DeliveryPromises, SentOnceButForLapses
<1> QED
  BY <1>1, PathInductive, PTL

\* No retry, shutdown or death of the process rewrites the outcome in a row, and
\* nothing the save side does to its batch a second time either, unless a worker
\* was overtaken with the message.
THEOREM OutcomesStandAlongThePath == PathSpec => FinalStatusStands
<1>1. ASSUME PathInv, [PathNext]_pathVars
      PROVE  [\A n \in Notification :
                 status[n] # "created" /\ overtaken[n] = 0 => status'[n] = status[n]]_vars
  <2>1. CASE DeliverySide(DeliveryNext)
    <3>1. IInv /\ [Next]_queueVars
      BY <1>1, <2>1 DEF PathInv, DeliverySide, DeliveryNext, Next
    <3> QED
      BY <3>1, StatusStands
  <2>2. CASE SaveSide(Save!Next) \/ Stop \/ Die
    BY <2>2 DEF SaveSide, deliverySide, deliveryVars, Stop, Die
  <2>3. CASE UNCHANGED pathVars
    BY <2>3 DEF pathVars, deliverySide, deliveryVars
  <2> QED
    BY <1>1, <2>1, <2>2, <2>3 DEF PathNext
<1> QED
  BY <1>1, PathInductive, PTL DEF PathSpec, FinalStatusStands

-----------------------------------------------------------------------------
(* The path implements the life of notifications.                          *)

\* Behind every success a row tells of or is about to tell of is a provider
\* that took the notification.
Vouched ==
    /\ \A c \in Consumer :
          step[c] = "write" /\ verdict[c] \in Taken => accepted[Subject(c)] > 0
    /\ \A n \in Notification : status[n] \in Taken => accepted[n] > 0

\* What a handler's step does to the row and the provider: the provider takes
\* the notification, or the verdict is written, or neither.
HandsOver(c) ==
    \/ UNCHANGED <<status, accepted>>
    \/ UNCHANGED status /\ step[c] \in Open /\ accepted' = Increment(accepted, Subject(c))
    \/ /\ UNCHANGED accepted /\ step[c] = "write" /\ verdict[c] # "created"
       /\ status' = [status EXCEPT ![Subject(c)] = verdict[c]]

LEMMA ShapeHandsOver ==
    ASSUME NEW c \in Consumer, Shape(c)
    PROVE  HandsOver(c)
<1>1. CASE Leaves(c) \/ Tells(c)
  BY <1>1 DEF Leaves, Tells, ghosts, HandsOver
<1>2. CASE Moves(c)
  BY <1>2 DEF Moves, Counts, Open, HandsOver
<1>3. CASE Records(c) \/ Breaks(c)
  BY <1>3 DEF Records, Breaks, Write, ghosts, HandsOver
<1> QED
  BY <1>1, <1>2, <1>3 DEF Shape

\* A handler comes to write a success only by a provider's taking the message.
LEMMA ShapeVouches ==
    ASSUME Typed, NEW c \in Consumer, step[c] # "idle", Shape(c),
           step'[c] = "write", verdict'[c] \in Taken
    PROVE  accepted' = Increment(accepted, Subject(c)) /\ current' = current
<1> USE DEF Typed
<1>1. ~Leaves(c) /\ ~Breaks(c) /\ ~Records(c) /\ ~Tells(c)
  BY GotoElsewhere DEF Leaves, Return, Breaks, Fail, Records, Tells
<1>2. Moves(c)
  BY <1>1 DEF Shape
<1>3. PICK s, v : Goto(c, s, v) /\ Counts(c, s, v)
  BY <1>2 DEF Moves
<1>4. s = "write" /\ v \in Taken
  BY <1>3, GotoElsewhere
<1> QED
  BY <1>2, <1>3, <1>4 DEF Moves, QueueStays, Counts

LEMMA DeliverVouches ==
    ASSUME Typed, Vouched, NEW c \in Consumer, Deliver(c)
    PROVE  Vouched'
<1>1. step[c] # "idle" /\ Shape(c) /\ Effects(c) /\ HandsOver(c) /\ Subject(c) \in Notification
  BY DeliverShape, ShapeIsBusy, ShapeEffects, ShapeHandsOver, HandlingAnEntry DEF Typed
<1>2. \A n \in Notification : /\ accepted[n] > 0 => accepted'[n] > 0
                              /\ accepted[n] \in Nat
  BY <1>1 DEF HandsOver, Increment, Typed, TypeOK
<1>3. ASSUME NEW d \in Consumer, step'[d] = "write", verdict'[d] \in Taken
      PROVE  accepted'[Subject(d)'] > 0
  <2>1. CASE d = c
    <3>1. accepted' = Increment(accepted, Subject(c)) /\ current' = current
      BY <1>1, <1>3, <2>1, ShapeVouches
    <3>2. accepted'[Subject(c)] = accepted[Subject(c)] + 1
      BY <1>1, <3>1 DEF Increment, Typed, TypeOK
    <3> QED
      BY <1>1, <1>2, <2>1, <3>1, <3>2 DEF Subject
  <2>2. CASE d # c
    <3>1. step[d] = "write" /\ verdict[d] \in Taken /\ current'[d] = current[d]
      BY <1>1, <1>3, <2>2 DEF Effects
    <3>2. Subject(d) \in Notification
      BY <3>1, HandlingAnEntry DEF Typed
    <3> QED
      BY <1>2, <3>1, <3>2 DEF Vouched, Subject
  <2> QED
    BY <2>1, <2>2
<1>4. ASSUME NEW n \in Notification, status'[n] \in Taken
      PROVE  accepted'[n] > 0
  <2>1. CASE status'[n] = status[n]
    BY <1>2, <1>4, <2>1 DEF Vouched
  <2>2. CASE status'[n] # status[n]
    BY <1>1, <1>2, <1>4, <2>2 DEF Effects, Vouched
  <2> QED
    BY <2>1, <2>2
<1> QED
  BY <1>3, <1>4 DEF Vouched

LEMMA NextVouches == Typed /\ Vouched /\ [Next]_queueVars => Vouched'
<1> SUFFICES ASSUME Typed, Vouched, [Next]_queueVars PROVE Vouched'
  OBVIOUS
<1>1. CASE UNCHANGED <<step, verdict, current, status, accepted>>
  BY <1>1 DEF Vouched, Subject
<1>2. ASSUME NEW n \in Notification, Send(n) \/ VisibilityTimeout(n)
      PROVE  Vouched'
  BY <1>1, <1>2 DEF Send, Queue!Send, VisibilityTimeout, Queue!VisibilityTimeout, deliveryVars,
     ghosts
<1>3. ASSUME NEW c \in Consumer, Around(c)
      PROVE  Vouched'
  <2>1. UNCHANGED <<status, accepted>>
    BY <1>3 DEF Around, Receive, Start, Cancel, Exit, Restart, Crash, deliveryVars, ghosts
  <2>2. CASE UNCHANGED <<step, verdict, current>>
    BY <1>1, <2>1, <2>2
  <2>3. CASE \/ \E e \in batch[c] : Start(c, e)
             \/ Crash(c)
    <3>1. /\ step'[c] # "write"
          /\ \A d \in Consumer : d # c => /\ step'[d] = step[d] /\ verdict'[d] = verdict[d]
                                          /\ current'[d] = current[d]
      BY <2>3 DEF Start, Crash, Goto, Queue!Take, Queue!Crash, Typed, TypeOK, Queue!TypeOK
    <3> QED
      BY <2>1, <3>1 DEF Vouched, Subject
  <2> QED
    BY <1>3, <2>2, <2>3 DEF Around, Receive, Queue!Receive, Cancel, Queue!Cancel, Exit, Queue!Exit,
       Restart, Queue!Restart, deliveryVars
<1>4. ASSUME NEW c \in Consumer, Deliver(c)
      PROVE  Vouched'
  BY <1>4, DeliverVouches
<1>5. CASE UNCHANGED queueVars
  BY <1>1, <1>5 DEF queueVars, vars, Queue!queueVars, deliveryVars, ghosts
<1> QED
  BY <1>2, <1>3, <1>4, <1>5 DEF Next

\* A row tells of a success only where a provider took the notification: a
\* worker that retries, gives up or is overtaken invents none.
SuccessIsReal == \A n \in Notification : status[n] \in Taken => accepted[n] > 0

THEOREM NoSuccessIsInvented == Spec => []SuccessIsReal
<1>1. QueueInit => Vouched
  BY DEF QueueInit, Init, Vouched, Taken
<1>2. Vouched => SuccessIsReal
  BY DEF Vouched, SuccessIsReal
<1>3. IInv => Typed
  BY DEF IInv
<1> QED
  BY <1>1, <1>2, <1>3, NextVouches, Inductive, PTL DEF Spec

\* The save side writes rows and sends messages, each as it is its turn.
LEMMA SaveSideLives ==
    ASSUME PathInv, SaveSide(Save!Next)
    PROVE  [Life!Next]_(Life!vars)
<1>1. UNCHANGED <<accepted, overtaken, status>>
  BY DEF SaveSide, deliverySide, deliveryVars, ghosts
<1>2. \/ UNCHANGED <<rows, sent>>
      \/ UNCHANGED sent /\ \E b \in Batch : items[b] \cap rows = {} /\ rows' = rows \cup items[b]
      \/ /\ UNCHANGED rows
         /\ \E n \in rows : sent[n] = 0 /\ sent' = [sent EXCEPT ![n] = @ + 1]
  BY Save!RowsThenMessages, PathAssumption, DeliveryAssumption DEF SaveSide, PathInv, SaveInv
<1>3. CASE UNCHANGED <<rows, sent>>
  BY <1>1, <1>3 DEF Life!vars
<1>4. ASSUME NEW b \in Batch, items[b] \cap rows = {}, rows' = rows \cup items[b], UNCHANGED sent
      PROVE  Life!Next
  BY <1>1, <1>4 DEF Life!Next, Life!Save
<1>5. ASSUME NEW n \in rows, sent[n] = 0, sent' = [sent EXCEPT ![n] = @ + 1], UNCHANGED rows
      PROVE  Life!Next
  <2>1. n \in Notification /\ sent \in [Notification -> Nat]
    BY DEF PathInv, SaveInv, Save!TypeOK
  <2>2. {m \in Notification : sent'[m] > 0} = {m \in Notification : sent[m] > 0} \cup {n}
    BY <1>5, <2>1
  <2> QED
    BY <1>1, <1>5, <2>1, <2>2 DEF Life!Next, Life!Enqueue
<1> QED
  BY <1>2, <1>3, <1>4, <1>5

\* A delivery worker works on what has a message, and, unless it was overtaken,
\* on what has no outcome yet.
LEMMA HandlersAreAtWork ==
    ASSUME PathInv, NEW c \in Consumer, step[c] \in Open
    PROVE  Subject(c) \in Notification /\ Life!AtWork(Subject(c))
<1> USE DEF PathInv, IInv
<1>1. /\ step[c] # "idle" /\ Subject(c) \in Notification /\ current[c] # NoEntry
  BY HandlingAnEntry DEF Typed, Open
<1>2. place[Subject(c)] # "unsent"
  BY <1>1 DEF Untouched, OwnerInv, Holds
<1>3. sent[Subject(c)] > 0
  BY <1>1, <1>2 DEF Linked
<1>4. overtaken[Subject(c)] = 0 => status[Subject(c)] = "created"
  BY <1>1 DEF Fate
<1>5. overtaken[Subject(c)] \in Nat
  BY <1>1 DEF Typed, TypeOK
<1> QED
  BY <1>1, <1>3, <1>4, <1>5 DEF Life!AtWork

LEMMA DeliverLives ==
    ASSUME PathInv, Vouched, NEW c \in Consumer, Deliver(c), UNCHANGED saveSide
    PROVE  [Life!Next]_(Life!vars)
<1> USE DEF PathInv, IInv
<1>1. HandsOver(c) /\ Effects(c)
  BY DeliverShape, ShapeIsBusy, ShapeEffects, ShapeHandsOver
<1>2. UNCHANGED <<rows, sent, overtaken>>
  BY <1>1 DEF saveSide, Effects
<1>3. CASE UNCHANGED <<status, accepted>>
  BY <1>2, <1>3 DEF Life!vars
<1>4. ASSUME NEW n \in Notification, Life!AtWork(n), UNCHANGED status,
             accepted' = Increment(accepted, n)
      PROVE  Life!Next
  <2>1. {m \in Notification : accepted'[m] > 0} = {m \in Notification : accepted[m] > 0} \cup {n}
    BY <1>4 DEF Increment, Typed, TypeOK
  <2>2. Life!Take(n)
    BY <1>2, <1>4, <2>1 DEF Life!Take
  <2> QED
    BY <2>2 DEF Life!Next
<1>5. ASSUME NEW n \in Notification, Life!AtWork(n), UNCHANGED accepted, n = Subject(c),
             step[c] = "write", verdict[c] # "created",
             status' = [status EXCEPT ![n] = verdict[c]]
      PROVE  Life!Next
  <2>1. verdict[c] \in Life!Success \cup Life!Failure
    BY <1>5 DEF Typed, TypeOK, Status, Taken, Failed, Life!Success, Life!Failure
  <2>2. verdict[c] \in Life!Success => accepted[n] > 0
    BY <1>5 DEF Vouched, Life!Success, Taken
  <2>3. Life!Settle(n, verdict[c])
    BY <1>2, <1>5, <2>2 DEF Life!Settle
  <2> QED
    BY <2>1, <2>3 DEF Life!Next
<1>6. step[c] \in Open => Subject(c) \in Notification /\ Life!AtWork(Subject(c))
  BY HandlersAreAtWork
<1>7. "write" \in Open
  BY DEF Open
<1> QED
  BY <1>1, <1>3, <1>4, <1>5, <1>6, <1>7 DEF HandsOver

\* The rest of the delivery side contests a notification or is not seen.
LEMMA DeliverySideLives ==
    ASSUME PathInv, Vouched, DeliverySide(DeliveryNext)
    PROVE  [Life!Next]_(Life!vars)
<1>1. UNCHANGED saveSide
  BY DEF DeliverySide
<1>2. ASSUME NEW n \in Notification, VisibilityTimeout(n)
      PROVE  [Life!Next]_(Life!vars)
  <2>1. UNCHANGED <<rows, sent, accepted, status>>
    BY <1>1, <1>2 DEF saveSide, VisibilityTimeout
  <2>2. sent[n] > 0
    BY <1>2 DEF VisibilityTimeout, Queue!VisibilityTimeout, PathInv, Linked
  <2>3. CASE UNCHANGED overtaken
    BY <2>1, <2>3 DEF Life!vars
  <2>4. CASE overtaken' = Increment(overtaken, n)
    <3>1. {m \in Notification : overtaken'[m] > 0} = {m \in Notification : overtaken[m] > 0} \cup {n}
      BY <2>4 DEF Increment, PathInv, IInv, Typed, TypeOK
    <3>2. Life!Contest(n)
      BY <2>1, <2>2, <3>1 DEF Life!Contest
    <3> QED
      BY <3>2 DEF Life!Next
  <2> QED
    BY <1>2, <2>3, <2>4 DEF VisibilityTimeout
<1>3. ASSUME NEW c \in Consumer, Around(c)
      PROVE  [Life!Next]_(Life!vars)
  <2>1. UNCHANGED <<rows, sent, accepted, overtaken, status>>
    BY <1>1, <1>3 DEF saveSide, Around, Receive, Start, Cancel, Exit, Restart, Crash,
       deliveryVars, ghosts
  <2> QED
    BY <2>1 DEF Life!vars
<1>4. ASSUME NEW c \in Consumer, Deliver(c)
      PROVE  [Life!Next]_(Life!vars)
  BY <1>1, <1>4, DeliverLives
<1> QED
  BY <1>2, <1>3, <1>4 DEF DeliverySide, DeliveryNext

LEMMA PathVouches == PathInv /\ Vouched /\ [PathNext]_pathVars => Vouched'
<1> SUFFICES ASSUME PathInv, Vouched, [PathNext]_pathVars PROVE Vouched'
  OBVIOUS
<1>1. CASE DeliverySide(DeliveryNext)
  <2>1. Typed /\ [Next]_queueVars
    BY <1>1 DEF PathInv, IInv, DeliverySide, DeliveryNext, Next
  <2> QED
    BY <2>1, NextVouches
<1>2. CASE Die
  BY <1>2 DEF Die, Vouched
<1>3. CASE SaveSide(Save!Next) \/ Stop \/ UNCHANGED pathVars
  BY <1>3 DEF SaveSide, Stop, pathVars, deliverySide, deliveryVars, ghosts, Vouched, Subject
<1> QED
  BY <1>1, <1>2, <1>3 DEF PathNext

\* Through every retry, second delivery, shutdown and crash a notification goes
\* through its life in order: the path implements NotificationLife.
THEOREM PathFollowsLife == PathSpec => FollowsLife
<1>1. PathInit => Vouched /\ Life!Init
  BY DEF PathInit, QueueInit, Init, Save!Init, Vouched, Taken, Life!Init
<1>2. PathInv /\ Vouched /\ [PathNext]_pathVars => [Life!Next]_(Life!vars)
  <2> SUFFICES ASSUME PathInv, Vouched, [PathNext]_pathVars PROVE [Life!Next]_(Life!vars)
    OBVIOUS
  <2>1. CASE Stop \/ Die \/ UNCHANGED pathVars
    <3>1. UNCHANGED <<rows, sent, accepted, overtaken, status>>
      BY <2>1 DEF Stop, Die, pathVars, deliverySide, saveSide, deliveryVars, ghosts
    <3> QED
      BY <3>1 DEF Life!vars
  <2> QED
    BY <2>1, SaveSideLives, DeliverySideLives DEF PathNext
<1> QED
  BY <1>1, <1>2, PathVouches, PathInductive, PTL DEF PathSpec, FollowsLife, Life!Spec

=============================================================================
