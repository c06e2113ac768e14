--------------------------- MODULE QueueConsumer ---------------------------
(***************************************************************************)
(* An SQS queue and the long-poll consumers of queue/consumer.go that work *)
(* it off.  What the handler does with a message is left open: a module    *)
(* that instantiates this one decides when Complete happens and with what  *)
(* outcome.  SQS itself is external; it is modelled from the three calls   *)
(* the consumer makes (ReceiveMessage, DeleteMessage,                      *)
(* ChangeMessageVisibility) and the receive count it reads.                *)
(*                                                                         *)
(* Time is abstract: an in-flight message may reappear at any moment, and  *)
(* timer only remembers the delay that was last asked for.                 *)
(***************************************************************************)
EXTENDS Naturals, FiniteSets, TLAPS

CONSTANTS
    Message,            \* the messages that are ever put on this queue
    Consumer,           \* the goroutines running SQSConsumer.Start
    MaxMessages,        \* messages per ReceiveMessage call (10)
    VisibilitySeconds,  \* visibility timeout asked for on receive (310)
    ReceiveCap,         \* the receive count saturates here
    MaxFaults,          \* bound on failed calls, crashes and shutdowns
    NoEntry             \* what a consumer that handles nothing handles

VARIABLES
    place,      \* place[m]: where SQS keeps the message
    received,   \* received[m]: ApproximateReceiveCount, saturated
    timer,      \* timer[m]: seconds of invisibility last asked for
    batch,      \* batch[c]: entries received and not yet handed to the handler
    current,    \* current[c]: the entry the handler was called with
    phase,      \* phase[c]: where c is in its loop
    cancelled,  \* cancelled[c]: the context of c's Start has been cancelled
    faults      \* failures injected so far

queueVars == <<place, received, timer, batch, current, phase, cancelled, faults>>

\* A message as one ReceiveMessage call returned it, with the receive count
\* SQS attached to it at that time.
Entry == [msg : Message, count : 1 .. ReceiveCap]

Outcome == {"ok", "transient", "error"}

TypeOK ==
    /\ place \in [Message -> {"unsent", "visible", "inflight", "deleted"}]
    /\ received \in [Message -> 0 .. ReceiveCap]
    /\ timer \in [Message -> Nat]
    /\ batch \in [Consumer -> SUBSET Entry]
    /\ current \in [Consumer -> Entry \cup {NoEntry}]
    /\ phase \in [Consumer -> {"polling", "batch", "handling", "stopped"}]
    /\ cancelled \in [Consumer -> BOOLEAN]
    /\ faults \in 0 .. MaxFaults

Init ==
    /\ place = [m \in Message |-> "unsent"]
    /\ received = [m \in Message |-> 0]
    /\ timer = [m \in Message |-> 0]
    /\ batch = [c \in Consumer |-> {}]
    /\ current = [c \in Consumer |-> NoEntry]
    /\ phase = [c \in Consumer |-> "polling"]
    /\ cancelled = [c \in Consumer |-> FALSE]
    /\ faults = 0

-----------------------------------------------------------------------------
(* Delays, in seconds.                                                     *)

Least(a, b) == IF a < b THEN a ELSE b

PowersOfTwo == <<1, 2, 4, 8, 16, 32>>

\* The delay after a transient error doubles from one minute with every
\* receive, stops doubling after the sixth and is cut off at 15 minutes.
backoffSeconds(count) == Least(900, 60 * PowersOfTwo[Least(count, 6)])

-----------------------------------------------------------------------------
(* A failure of the environment, drawn from a finite budget.               *)

Fault == faults < MaxFaults /\ faults' = faults + 1

\* A call that took c's context: it fails for certain once the context is
\* cancelled, and before that only by a fault.
CallFails(c) == IF cancelled[c] THEN UNCHANGED faults ELSE Fault

CallSucceeds(c) == ~cancelled[c] /\ UNCHANGED faults

-----------------------------------------------------------------------------
(* SQS.                                                                    *)

\* A producer puts a message on the queue.
Send(m) ==
    /\ place[m] = "unsent"
    /\ place' = [place EXCEPT ![m] = "visible"]
    /\ UNCHANGED <<received, timer, batch, current, phase, cancelled, faults>>

\* The visibility timeout of an in-flight message runs out, whether or not a
\* consumer still holds the message.
VisibilityTimeout(m) ==
    /\ place[m] = "inflight"
    /\ place' = [place EXCEPT ![m] = "visible"]
    /\ timer' = [timer EXCEPT ![m] = 0]
    /\ UNCHANGED <<received, batch, current, phase, cancelled, faults>>

-----------------------------------------------------------------------------
(* The loop of SQSConsumer.Start.                                          *)

\* The context is checked at the top of the loop, then up to MaxMessages
\* visible messages are received; all of them share one visibility timeout.
\* A receive error or an empty answer goes round the loop and changes nothing.
Receive(c, S) ==
    /\ phase[c] = "polling" /\ ~cancelled[c]
    /\ S # {} /\ Cardinality(S) <= MaxMessages
    /\ \A m \in S : place[m] = "visible"
    /\ place' = [m \in Message |-> IF m \in S THEN "inflight" ELSE place[m]]
    /\ received' = [m \in Message |->
                       IF m \in S THEN Least(received[m] + 1, ReceiveCap) ELSE received[m]]
    /\ timer' = [m \in Message |-> IF m \in S THEN VisibilitySeconds ELSE timer[m]]
    /\ batch' = [batch EXCEPT ![c] = {[msg |-> m, count |-> received'[m]] : m \in S}]
    /\ phase' = [phase EXCEPT ![c] = "batch"]
    /\ UNCHANGED <<current, cancelled, faults>>

\* The next message of the batch goes to the handler.  The context is not
\* checked here: a cancelled consumer still works through its batch.
Take(c, e) ==
    /\ phase[c] = "batch"
    /\ e \in batch[c]
    /\ batch' = [batch EXCEPT ![c] = @ \ {e}]
    /\ current' = [current EXCEPT ![c] = e]
    /\ phase' = [phase EXCEPT ![c] = "handling"]
    /\ UNCHANGED <<place, received, timer, cancelled, faults>>

\* DeleteMessage; a failure is only logged and the message comes back.
DeleteMessage(c, m) ==
    \/ /\ CallSucceeds(c)
       /\ place' = [place EXCEPT ![m] = "deleted"]
       /\ timer' = [timer EXCEPT ![m] = 0]
    \/ CallFails(c) /\ UNCHANGED <<place, timer>>

\* ChangeMessageVisibility; it fails for a message that is no longer in
\* flight, and every failure is only logged.
ChangeMessageVisibility(c, e) ==
    \/ /\ CallSucceeds(c)
       /\ place[e.msg] = "inflight"
       /\ timer' = [timer EXCEPT ![e.msg] = backoffSeconds(e.count)]
       /\ UNCHANGED place
    \/ place[e.msg] # "inflight" /\ UNCHANGED <<place, timer, faults>>
    \/ CallFails(c) /\ UNCHANGED <<place, timer>>

\* What the loop does with the handler's result: nil deletes the message, a
\* transient error postpones it, any other error is logged and the message
\* reappears when its visibility timeout runs out.
Settle(c, outcome) ==
    \/ outcome = "ok" /\ DeleteMessage(c, current[c].msg)
    \/ outcome = "transient" /\ ChangeMessageVisibility(c, current[c])
    \/ outcome = "error" /\ UNCHANGED <<place, timer, faults>>


NextMessage(c) ==
    /\ phase[c] = "handling"
    /\ phase' = [phase EXCEPT ![c] = IF batch[c] = {} THEN "polling" ELSE "batch"]
    /\ current' = [current EXCEPT ![c] = NoEntry]
    /\ UNCHANGED <<received, batch, cancelled>>

Complete(c, outcome) == NextMessage(c) /\ Settle(c, outcome)

\* The handler returns a plain error because a call it made failed.
Abort(c) == NextMessage(c) /\ CallFails(c) /\ UNCHANGED <<place, timer>>

\* A call the handler makes fails and the handler goes on.
HandlerFault(c) ==
    /\ phase[c] = "handling"
    /\ Fault
    /\ UNCHANGED <<place, received, timer, batch, current, phase, cancelled>>

-----------------------------------------------------------------------------
(* Shutdown, crash, restart.                                               *)

\* SQSConsumer.Stop, WorkerManager.Stop or the caller cancels the context.
Cancel(c) ==
    /\ phase[c] # "stopped" /\ ~cancelled[c]
    /\ Fault
    /\ cancelled' = [cancelled EXCEPT ![c] = TRUE]
    /\ UNCHANGED <<place, received, timer, batch, current, phase>>

\* At the top of the loop a cancelled consumer returns.
Exit(c) ==
    /\ phase[c] = "polling" /\ cancelled[c]
    /\ phase' = [phase EXCEPT ![c] = "stopped"]
    /\ UNCHANGED <<place, received, timer, batch, current, cancelled, faults>>

\* A new process takes the place of a consumer that has returned.
Restart(c) ==
    /\ phase[c] = "stopped"
    /\ phase' = [phase EXCEPT ![c] = "polling"]
    /\ cancelled' = [cancelled EXCEPT ![c] = FALSE]
    /\ UNCHANGED <<place, received, timer, batch, current, faults>>

\* The process dies (or the shutdown timeout ends it) and is started again;
\* what it held in memory is gone.
Crash(c) ==
    /\ phase[c] \in {"batch", "handling"}
    /\ Fault
    /\ batch' = [batch EXCEPT ![c] = {}]
    /\ phase' = [phase EXCEPT ![c] = "polling"]
    /\ cancelled' = [cancelled EXCEPT ![c] = FALSE]
    /\ current' = [current EXCEPT ![c] = NoEntry]
    /\ UNCHANGED <<place, received, timer>>

-----------------------------------------------------------------------------
Next ==
    \/ \E m \in Message : Send(m) \/ VisibilityTimeout(m)
    \/ \E c \in Consumer :
          \/ \E S \in SUBSET Message : Receive(c, S)
          \/ \E e \in batch[c] : Take(c, e)
          \/ \E o \in Outcome : Complete(c, o)
          \/ Abort(c) \/ HandlerFault(c)
          \/ Cancel(c) \/ Exit(c) \/ Restart(c) \/ Crash(c)

Spec == Init /\ [][Next]_queueVars

-----------------------------------------------------------------------------
(* Every step keeps the types; the modules that instantiate this one use   *)
(* these lemmas for their own type invariants.                             *)

LEMMA BackoffIsNat ==
    ASSUME NEW k \in Nat \ {0}
    PROVE  backoffSeconds(k) \in Nat
BY DEF backoffSeconds, Least, PowersOfTwo

LEMMA ReceiveTyped ==
    ASSUME ReceiveCap \in Nat \ {0}, VisibilitySeconds \in Nat,
           TypeOK, NEW c \in Consumer, NEW S \in SUBSET Message, Receive(c, S)
    PROVE  TypeOK'
<1>1. received' \in [Message -> 0 .. ReceiveCap]
  BY DEF TypeOK, Receive, Least
<1>2. \A m \in S : received'[m] \in 1 .. ReceiveCap
  BY DEF TypeOK, Receive, Least
<1>3. {[msg |-> m, count |-> received'[m]] : m \in S} \in SUBSET Entry
  BY <1>2 DEF Entry
<1>4. batch' \in [Consumer -> SUBSET Entry]
  BY <1>3 DEF TypeOK, Receive
<1>5. place' \in [Message -> {"unsent", "visible", "inflight", "deleted"}]
  BY DEF TypeOK, Receive
<1>6. timer' \in [Message -> Nat]
  BY DEF TypeOK, Receive
<1>7. phase' \in [Consumer -> {"polling", "batch", "handling", "stopped"}]
  BY DEF TypeOK, Receive
<1> QED
  BY <1>1, <1>4, <1>5, <1>6, <1>7 DEF TypeOK, Receive

LEMMA TakeTyped ==
    ASSUME TypeOK, NEW c \in Consumer, NEW e \in batch[c], Take(c, e)
    PROVE  TypeOK'
<1>1. e \in Entry
  BY DEF TypeOK
<1> QED
  BY <1>1 DEF TypeOK, Take

LEMMA CompleteTyped ==
    ASSUME TypeOK, NEW c \in Consumer, NEW o, Complete(c, o),
           MaxFaults \in Nat,
           current[c] \in Entry
    PROVE  TypeOK'
<1> DEFINE e == current[c]
<1>1. e.msg \in Message /\ e.count \in Nat \ {0}
  BY DEF Entry
<1>2. backoffSeconds(e.count) \in Nat
  BY <1>1, BackoffIsNat
<1>3. NextMessage(c) /\ Settle(c, o)
  BY DEF Complete
<1>4. /\ current' \in [Consumer -> Entry \cup {NoEntry}]
      /\ phase' \in [Consumer -> {"polling", "batch", "handling", "stopped"}]
      /\ UNCHANGED <<received, batch, cancelled>>
  BY <1>3 DEF NextMessage, TypeOK
<1>5. /\ place' \in [Message -> {"unsent", "visible", "inflight", "deleted"}]
      /\ timer' \in [Message -> Nat]
      /\ faults' \in 0 .. MaxFaults
  <2>1. CASE DeleteMessage(c, e.msg)
    BY <2>1, <1>1 DEF DeleteMessage, TypeOK, CallSucceeds, CallFails,
        Fault
  <2>2. CASE ChangeMessageVisibility(c, e)
    BY <2>2, <1>1, <1>2 DEF ChangeMessageVisibility, TypeOK, CallSucceeds,
        CallFails, Fault
  <2>3. CASE UNCHANGED <<place, timer, faults>>
    BY <2>3 DEF TypeOK
  <2> QED
    BY <1>3, <2>1, <2>2, <2>3 DEF Settle
<1> QED
  BY <1>4, <1>5 DEF TypeOK

LEMMA QueueStepTyped ==
    ASSUME MaxFaults \in Nat, TypeOK, NEW c \in Consumer,
           \/ \E m \in Message : Send(m) \/ VisibilityTimeout(m)
           \/ Abort(c)
           \/ HandlerFault(c)
           \/ Cancel(c) \/ Exit(c) \/ Restart(c) \/ Crash(c)
    PROVE  TypeOK'
<1>1. CASE \E m \in Message : Send(m) \/ VisibilityTimeout(m)
  BY <1>1 DEF TypeOK, Send, VisibilityTimeout
<1>2. CASE Abort(c)
  BY <1>2 DEF TypeOK, Abort, NextMessage, CallFails, Fault
<1>3. CASE HandlerFault(c)
  BY <1>3 DEF TypeOK, HandlerFault, Fault
<1>4. CASE Cancel(c)
  BY <1>4 DEF TypeOK, Cancel, Fault
<1>5. CASE Exit(c)
  BY <1>5 DEF TypeOK, Exit
<1>6. CASE Restart(c)
  BY <1>6 DEF TypeOK, Restart
<1>7. CASE Crash(c)
  BY <1>7 DEF TypeOK, Crash, Fault
<1> QED
  BY <1>1, <1>2, <1>3, <1>4, <1>5, <1>6, <1>7

=============================================================================
