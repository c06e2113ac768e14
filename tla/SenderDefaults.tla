-------------------------- MODULE SenderDefaults ---------------------------
(***************************************************************************)
(* The text senders, or the reply-to addresses, of one service: rows of    *)
(* which one is the default (repository/services/dao.go, called by         *)
(* handler/service_contacts).  A request reads the list in a READ          *)
(* COMMITTED transaction, decides on what it read, takes the default from  *)
(* the rows that had it and writes its own row.  Every UPDATE writes all   *)
(* columns, by id, from what was read at the start.                        *)
(*                                                                         *)
(* A row that a transaction has written is locked until it ends; what it   *)
(* wrote is seen by others only then.  Of requests that wait for each      *)
(* other in a circle PostgreSQL undoes one.  The text of a sender is left  *)
(* out: whether an update changes it is part of the update.                *)
(***************************************************************************)
EXTENDS Naturals, Sequences, FiniteSets, SequencesExt

CONSTANTS
    MaxRequests,    \* bound on the requests made; they are numbered as they come
    Contact,        \* the rows that can exist: senders or reply-to addresses
    First,          \* the sender that comes with the service, or the first address
    Number,         \* the inbound numbers
    NoNumber,
    MaxFaults       \* bound on statements that fail

ASSUME SenderAssumption ==
    /\ IsFiniteSet(Contact) /\ First \in Contact
    /\ NoNumber \notin Number
    /\ MaxRequests \in Nat /\ MaxFaults \in Nat

Request == 1 .. MaxRequests

VARIABLES
    table,          \* which of the two tables this is
    rows,           \* the committed rows, by id
    assigned,       \* the inbound numbers that belong to the service
    op,             \* op[r]: what r asks for
    step,           \* step[r]: the statement r issues next
    seen,           \* seen[r]: the rows r read, those not archived
    todo,           \* todo[r]: the rows r has still to write, its own the last
    written,        \* written[r]: what r has written and not yet committed
    faults          \* statements that failed so far

tables == <<table, rows, assigned>>
vars == <<tables, op, step, seen, todo, written, faults>>

Row == [live : BOOLEAN, default : BOOLEAN, number : Number \cup {NoNumber}]
Rows == UNION {[ids -> Row] : ids \in SUBSET Contact}
NoRows == [i \in {} |-> i]

Ops == [name : {"none", "add", "update", "attach", "archive"}, id : Contact,
        default : BOOLEAN, number : Number \cup {NoNumber}]
NoOp == [name |-> "none", id |-> First, default |-> FALSE, number |-> NoNumber]

TypeOK ==
    /\ table \in {"sms", "replyTo"}
    /\ rows \in Rows /\ assigned \subseteq Number
    /\ op \in [Request -> Ops]
    /\ step \in [Request -> {"idle", "write", "assign", "commit", "done", "failed"}]
    /\ seen \in [Request -> Rows]
    /\ todo \in [Request -> Seq(Contact)]
    /\ written \in [Request -> Rows]
    /\ faults \in 0 .. MaxFaults
    /\ \A r \in Request :
          /\ step[r] = "write" <=> todo[r] # << >>
          /\ written[r] # NoRows => step[r] \in {"write", "assign", "commit"}

\* A service is created with one sender, its default, and no reply-to address;
\* others may have been added since.
Init ==
    /\ \/ /\ table \in {"sms", "replyTo"}
          /\ \E ids \in SUBSET Contact :
                /\ First \in ids
                /\ rows = [i \in ids |->
                      [live |-> TRUE, default |-> i = First, number |-> NoNumber]]
       \/ table = "replyTo" /\ rows = NoRows
    /\ assigned = {}
    /\ op = [r \in Request |-> NoOp]
    /\ step = [r \in Request |-> "idle"]
    /\ seen = [r \in Request |-> NoRows]
    /\ todo = [r \in Request |-> << >>]
    /\ written = [r \in Request |-> NoRows]
    /\ faults = 0

-----------------------------------------------------------------------------
(* What a request reads, and what it decides on it.                        *)

\* GetSMSSenders, GetEmailReplyTo: the rows that are not archived.
Live == {i \in DOMAIN rows : rows[i].live}
Listed == [i \in Live |-> rows[i]]

Defaults == {i \in Live : rows[i].default}

IsSoleDefault(i) == Defaults = {i}

\* Slip: it is taken for granted that one row at most is the default.
ToClearFirst(i) ==
    IF Defaults = {} THEN {} ELSE {CHOOSE j \in Defaults : TRUE} \ {i}

\* clearDefault...: the rows that lose the default to i.
ToClear(i) == Defaults \ {i}

\* Requests are numbered in the order in which they read the list.
Begin(r) == step[r] = "idle" /\ \A q \in 1 .. r - 1 : step[q] # "idle"

\* The request ends with an error, or without having found its row.
Refuse(r) ==
    /\ step' = [step EXCEPT ![r] = "failed"]
    /\ UNCHANGED <<tables, op, seen, todo, written, faults>>

\* The rows that lose the default are written in the order of the list, in
\* which rows created in the same second come in any order.
Accept(r, o, cleared) ==
    /\ op' = [op EXCEPT ![r] = o]
    /\ step' = [step EXCEPT ![r] = "write"]
    /\ seen' = [seen EXCEPT ![r] = Listed]
    /\ \E order \in SetToSeqs(cleared) : todo' = [todo EXCEPT ![r] = Append(order, o.id)]
    /\ UNCHANGED <<tables, written, faults>>

\* The ids that no row has, nor a row that is being inserted.
Fresh == Contact \ (DOMAIN rows \cup {op[r].id : r \in {q \in Request : op[q].name = "add"}})

\* The first row has to be the default.
Add(r, i, d, n) ==
    /\ Begin(r) /\ i \in Fresh
    /\ IF ~d /\ Defaults = {}
       THEN Refuse(r)
       ELSE Accept(r, [name |-> "add", id |-> i, default |-> d, number |-> n],
                   IF d THEN ToClear(i) ELSE {})

AddSmsSenderForService(r, i, d, n) == table = "sms" /\ Add(r, i, d, n)

AddReplyToEmailAddress(r, i, d) == table = "replyTo" /\ Add(r, i, d, NoNumber)

\* Slip: the default may be taken from a row if there are others.
UpdateUnlessOnly(r, i, d) ==
    /\ Begin(r)
    /\ IF i \notin Live \/ (~d /\ Live = {i})
       THEN Refuse(r)
       ELSE Accept(r, [name |-> "update", id |-> i, default |-> d, number |-> NoNumber],
                   IF d THEN ToClear(i) ELSE {})

\* The one default cannot be made an ordinary row, but by choosing another.
Update(r, i, d) ==
    /\ Begin(r)
    /\ IF i \notin Live \/ (~d /\ IsSoleDefault(i))
       THEN Refuse(r)
       ELSE Accept(r, [name |-> "update", id |-> i, default |-> d, number |-> NoNumber],
                   IF d THEN ToClear(i) ELSE {})

\* A sender with a number keeps its text.  The update itself carries no
\* number, and so the row has none afterwards.
UpdateServiceSmsSender(r, i, d, renamed) ==
    /\ table = "sms"
    /\ IF i \in Live /\ rows[i].number # NoNumber /\ renamed
       THEN Begin(r) /\ Refuse(r)
       ELSE Update(r, i, d)

UpdateReplyToEmailAddress(r, i, d) == table = "replyTo" /\ Update(r, i, d)

UpdateSmsSenderWithInboundNumber(r, i, n) ==
    /\ table = "sms" /\ Begin(r)
    /\ IF i \notin Live
       THEN Refuse(r)
       ELSE Accept(r, [name |-> "attach", id |-> i, default |-> rows[i].default, number |-> n], {})

Archive(r, i) ==
    Accept(r, [name |-> "archive", id |-> i, default |-> FALSE, number |-> NoNumber], {})

\* Neither a sender with a number nor the default goes.
ArchiveSmsSender(r, i) ==
    /\ table = "sms" /\ Begin(r)
    /\ IF i \notin Live \/ rows[i].number # NoNumber \/ rows[i].default
       THEN Refuse(r)
       ELSE Archive(r, i)

\* The default address goes only as the last one.
ArchiveReplyToEmailAddress(r, i) ==
    /\ table = "replyTo" /\ Begin(r)
    /\ IF i \notin Live \/ (rows[i].default /\ Live # {i})
       THEN Refuse(r)
       ELSE Archive(r, i)

-----------------------------------------------------------------------------
(* What it writes.                                                         *)

OwnRow(r) == [live |-> op[r].name # "archive", default |-> op[r].default, number |-> op[r].number]

\* Slip: only the columns of the update are carried over.
ClearedWithoutNumber(r, i) == [live |-> TRUE, default |-> FALSE, number |-> NoNumber]

\* The row of another contact, as it was read, without the default.
Cleared(r, i) == [seen[r][i] EXCEPT !.default = FALSE]

HoldsRow(r, i) == i \in DOMAIN written[r]
HoldsNumber(r, n) == step[r] = "commit" /\ op[r].number = n

With(t, i, row) == [j \in DOMAIN t \cup {i} |-> IF j = i THEN row ELSE t[j]]

AfterWriting(r) ==
    IF Len(todo[r]) > 1 THEN "write"
    ELSE IF op[r].number # NoNumber THEN "assign" ELSE "commit"

\* An UPDATE by id, or the INSERT of a new row; it waits for the lock.
WriteRow(r) ==
    /\ step[r] = "write"
    /\ LET i == Head(todo[r]) IN
          /\ \A q \in Request : ~HoldsRow(q, i)
          /\ written' = [written EXCEPT ![r] =
                With(@, i, IF i = op[r].id THEN OwnRow(r) ELSE Cleared(r, i))]
    /\ todo' = [todo EXCEPT ![r] = Tail(@)]
    /\ step' = [step EXCEPT ![r] = AfterWriting(r)]
    /\ UNCHANGED <<tables, op, seen, faults>>

\* Slip: it waits until the number is free.
AddFreeInboundNumber(r) ==
    /\ step[r] = "assign" /\ op[r].number \notin assigned
    /\ \A q \in Request : ~HoldsNumber(q, op[r].number)
    /\ step' = [step EXCEPT ![r] = "commit"]
    /\ UNCHANGED <<tables, op, seen, todo, written, faults>>

\* AddInboundNumber takes the number, whether or not it is free.
AddInboundNumber(r) ==
    /\ step[r] = "assign"
    /\ \A q \in Request : ~HoldsNumber(q, op[r].number)
    /\ step' = [step EXCEPT ![r] = "commit"]
    /\ UNCHANGED <<tables, op, seen, todo, written, faults>>

\* Nothing of the request is left but that it ended.
End(r, s) ==
    /\ step' = [step EXCEPT ![r] = s]
    /\ op' = [op EXCEPT ![r] = NoOp]
    /\ seen' = [seen EXCEPT ![r] = NoRows]
    /\ todo' = [todo EXCEPT ![r] = << >>]
    /\ written' = [written EXCEPT ![r] = NoRows]

\* Slip: the number is recorded for new senders only.
CommitNumberOfNew(r) ==
    /\ step[r] = "commit"
    /\ rows' = [i \in DOMAIN rows \cup DOMAIN written[r] |->
                   IF HoldsRow(r, i) THEN written[r][i] ELSE rows[i]]
    /\ assigned' = assigned \cup (IF op[r].name = "add" THEN {op[r].number} \cap Number ELSE {})
    /\ End(r, "done")
    /\ UNCHANGED <<table, faults>>

Commit(r) ==
    /\ step[r] = "commit"
    /\ rows' = [i \in DOMAIN rows \cup DOMAIN written[r] |->
                   IF HoldsRow(r, i) THEN written[r][i] ELSE rows[i]]
    /\ assigned' = assigned \cup ({op[r].number} \cap Number)
    /\ End(r, "done")
    /\ UNCHANGED <<table, faults>>

WaitsOn(r, q) ==
    \/ step[r] = "write" /\ HoldsRow(q, Head(todo[r]))
    \/ step[r] = "assign" /\ HoldsNumber(q, op[r].number)

Deadlocked(r) ==
    \E circle \in SUBSET Request :
        /\ r \in circle
        /\ \A p \in circle : \E q \in circle : WaitsOn(p, q)
        /\ \A p \in circle : \E q \in circle : WaitsOn(q, p)

DeadlockAbort(r) == Deadlocked(r) /\ End(r, "failed") /\ UNCHANGED <<tables, faults>>

\* Slip: the transaction is left open.
FailOpen(r) ==
    /\ step[r] \in {"write", "assign", "commit"}
    /\ faults < MaxFaults /\ faults' = faults + 1
    /\ step' = [step EXCEPT ![r] = "failed"]
    /\ UNCHANGED <<tables, op, seen, todo, written>>

\* The next statement fails, or the process dies.
Fail(r) ==
    /\ step[r] \in {"write", "assign", "commit"}
    /\ faults < MaxFaults /\ faults' = faults + 1
    /\ End(r, "failed")
    /\ UNCHANGED tables

Proceed(r) ==
    WriteRow(r) \/ AddInboundNumber(r) \/ Commit(r) \/ DeadlockAbort(r)

Next ==
    \E r \in Request :
        \/ \E i \in Contact, d \in BOOLEAN :
              \/ \E n \in Number \cup {NoNumber} : AddSmsSenderForService(r, i, d, n)
              \/ \E renamed \in BOOLEAN : UpdateServiceSmsSender(r, i, d, renamed)
              \/ AddReplyToEmailAddress(r, i, d)
              \/ UpdateReplyToEmailAddress(r, i, d)
        \/ \E i \in Contact :
              \/ \E n \in Number : UpdateSmsSenderWithInboundNumber(r, i, n)
              \/ ArchiveSmsSender(r, i)
              \/ ArchiveReplyToEmailAddress(r, i)
        \/ Proceed(r)
        \/ Fail(r)

Spec == Init /\ [][Next]_vars

\* A request that has begun issues its next statement; a circle is broken.
FairSpec == Spec /\ \A r \in Request : WF_vars(Proceed(r))

-----------------------------------------------------------------------------
(* What the code promises.                                                 *)

\* The one default that a service has: for its senders always, for its
\* reply-to addresses as soon as there is one.
OneDefault ==
    \/ Cardinality(Defaults) = 1
    \/ table = "replyTo" /\ Live = {}

\* r commits, and the list is still the one it read.
CommitsUnovertaken(r) == step[r] = "commit" /\ step'[r] = "done" /\ seen[r] = Listed

\* The hasDefault, isSole and archive checks together with the clears: a request
\* that nobody overtook leaves one default where there was one.
OneDefaultKept ==
    [][\A r \in Request : CommitsUnovertaken(r) /\ OneDefault => OneDefault']_vars

\* A request that chooses a default and that nobody overtook leaves it as the
\* only one, however many there were: overlapping requests can leave two, and
\* this is how they are put right.
ChoosingADefaultRepairs ==
    [][\A r \in Request :
          CommitsUnovertaken(r) /\ op[r].name \in {"add", "update"} /\ op[r].default
             => Defaults' = {op[r].id}]_vars

\* A sender with a number keeps it, and stays, unless it is itself updated:
\* neither losing the default nor an archiving takes it away.
NumberedSendersStay ==
    [][\A r \in Request, i \in Live :
          /\ CommitsUnovertaken(r) /\ rows[i].number # NoNumber
          /\ op[r].id = i => op[r].name = "archive"
          => rows'[i].live /\ rows'[i].number = rows[i].number]_vars

\* The number of a sender belongs to the service: the two tables are written
\* in one transaction, and an overtaken request writes no number that is not.
CarriedNumbersAreAssigned ==
    \A i \in DOMAIN rows : rows[i].number \in assigned \cup {NoNumber}

\* No request waits for ever, the circles of waiting included.
EveryRequestEnds ==
    \A r \in Request : step[r] = "write" ~> step[r] \in {"done", "failed"}

=============================================================================
