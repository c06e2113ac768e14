----------------------- MODULE SenderDefaults_proofs ------------------------
(***************************************************************************)
(* Proofs about SenderDefaults, for any number of requests, contacts and   *)
(* inbound numbers.  The argument: what a request writes is settled when   *)
(* it reads the list, by what it reads and asks for.  So at its commit the *)
(* rows it has written are known, and if the list is still the one it read *)
(* the checks it made then are true of the rows it now replaces.           *)
(***************************************************************************)
EXTENDS SenderDefaults, FiniteSetTheorems, TLAPS

Open(r) == step[r] \in {"write", "assign", "commit"}

SeenDefaults(r) == {i \in DOMAIN seen[r] : seen[r][i].default}

ChoosesDefault(r) == op[r].name \in {"add", "update"} /\ op[r].default

\* The rows that r writes from beginning to end.
Planned(r) == {op[r].id} \cup (IF ChoosesDefault(r) THEN SeenDefaults(r) ELSE {})

\* Each of them is written or still to be written, and written as planned.
FollowsPlan(r) ==
    /\ \A i \in Planned(r) :
          i \in DOMAIN written[r] \/ \E k \in 1 .. Len(todo[r]) : todo[r][k] = i
    /\ DOMAIN written[r] \subseteq Planned(r)
    /\ \A k \in 1 .. Len(todo[r]) : todo[r][k] \in Planned(r)
    /\ \A i \in DOMAIN written[r] :
          written[r][i] = IF i = op[r].id THEN OwnRow(r) ELSE Cleared(r, i)

\* What r found out when it read the list.
HasChecked(r) ==
    /\ \A i \in DOMAIN seen[r] : seen[r][i].live
    /\ op[r].name # "none"
    /\ IF op[r].name = "add" THEN op[r].id \notin DOMAIN seen[r] ELSE op[r].id \in DOMAIN seen[r]
    /\ op[r].name = "add" => op[r].default \/ SeenDefaults(r) # {}
    /\ op[r].name = "update" => op[r].default \/ SeenDefaults(r) # {op[r].id}
    /\ op[r].name = "attach" => op[r].default = seen[r][op[r].id].default
    /\ op[r].name = "archive" =>
          /\ op[r].default = FALSE /\ op[r].number = NoNumber
          /\ table = "sms" => ~seen[r][op[r].id].default /\ seen[r][op[r].id].number = NoNumber
          /\ table = "replyTo" /\ seen[r][op[r].id].default => DOMAIN seen[r] = {op[r].id}

Plan(r) == Open(r) => FollowsPlan(r) /\ HasChecked(r)

\* Numbers that were read belong to the service; reply-to addresses have none.
NumbersKnown ==
    /\ CarriedNumbersAreAssigned
    /\ \A r \in Request : \A i \in DOMAIN seen[r] : seen[r][i].number \in assigned \cup {NoNumber}
    /\ table = "replyTo" => assigned = {} /\ \A r \in Request : op[r].number = NoNumber

IInv == TypeOK /\ (\A r \in Request : Plan(r)) /\ NumbersKnown

-----------------------------------------------------------------------------
(* Rows, lists and orders.                                                 *)

LEMMA RowsIntro ==
    ASSUME NEW ids \in SUBSET Contact, NEW t \in [ids -> Row]
    PROVE  t \in Rows
BY DEF Rows

LEMMA RowsElim ==
    ASSUME NEW t \in Rows
    PROVE  DOMAIN t \subseteq Contact /\ t \in [DOMAIN t -> Row]
BY DEF Rows

LEMMA NoRowsTyped == NoRows \in Rows /\ DOMAIN NoRows = {}
<1>1. DOMAIN NoRows = {} /\ NoRows \in [{} -> Row]
  BY DEF NoRows
<1> QED
  BY <1>1, RowsIntro

LEMMA ListedTyped ==
    ASSUME rows \in Rows
    PROVE  /\ Listed \in Rows /\ DOMAIN Listed = Live
           /\ \A i \in Live : Listed[i] = rows[i] /\ rows[i] \in Row
           /\ Live \subseteq Contact
<1>1. DOMAIN rows \subseteq Contact /\ rows \in [DOMAIN rows -> Row]
  BY RowsElim
<1>2. Live \subseteq Contact /\ \A i \in Live : rows[i] \in Row
  BY <1>1 DEF Live
<1>3. Listed \in [Live -> Row] /\ \A i \in Live : Listed[i] = rows[i]
  BY <1>2 DEF Listed
<1> QED
  BY <1>2, <1>3, RowsIntro

\* A row put into a table of rows.
LEMMA WithTyped ==
    ASSUME NEW t \in Rows, NEW i \in Contact, NEW row \in Row
    PROVE  /\ With(t, i, row) \in Rows
           /\ DOMAIN With(t, i, row) = DOMAIN t \cup {i}
           /\ With(t, i, row)[i] = row
           /\ \A j \in DOMAIN t : j # i => With(t, i, row)[j] = t[j]
<1>1. DOMAIN t \subseteq Contact /\ t \in [DOMAIN t -> Row]
  BY RowsElim
<1>2. With(t, i, row) \in [DOMAIN t \cup {i} -> Row]
  BY <1>1 DEF With
<1>3. DOMAIN t \cup {i} \in SUBSET Contact
  BY <1>1
<1>4. With(t, i, row) \in Rows
  BY <1>2, <1>3, RowsIntro
<1> QED
  BY <1>2, <1>4 DEF With

\* An order of a finite set goes through all its elements.
LEMMA OrderOfSet ==
    ASSUME NEW S, IsFiniteSet(S), NEW order \in SetToSeqs(S)
    PROVE  order \in Seq(S) /\ \A i \in S : \E k \in 1 .. Len(order) : order[k] = i
<1>1. Cardinality(S) \in Nat
  BY FS_CardinalityType
<1>2. DEFINE n == Cardinality(S)
<1>3. order \in [1 .. n -> S] /\ (\A i, j \in 1 .. n : i # j => order[i] # order[j])
  BY DEF SetToSeqs
<1>4. order \in Injection(1 .. n, S)
  BY <1>3 DEF Injection, IsInjective
<1>5. IsFiniteSet(1 .. n) /\ Cardinality(1 .. n) = n
  BY <1>1, FS_Interval
<1>6. order \in Surjection(1 .. n, S)
  BY <1>4, <1>5, FS_Injection
<1>7. order \in Seq(S) /\ Len(order) = n
  BY <1>1, <1>3
<1> QED
  BY <1>6, <1>7 DEF Surjection

\* With one more at its end it goes through that one, too.
LEMMA OrderAndOwn ==
    ASSUME NEW S, IsFiniteSet(S), NEW order \in SetToSeqs(S), NEW x,
           NEW s, s = Append(order, x)
    PROVE  /\ s \in Seq(S \cup {x}) /\ s # << >>
           /\ \A i \in S \cup {x} : \E k \in 1 .. Len(s) : s[k] = i
           /\ \A k \in 1 .. Len(s) : s[k] \in S \cup {x}
<1>1. order \in Seq(S) /\ \A i \in S : \E k \in 1 .. Len(order) : order[k] = i
  BY OrderOfSet
<1>2. order \in Seq(S \cup {x}) /\ Len(order) \in Nat
  BY <1>1
<1>3. s \in Seq(S \cup {x}) /\ Len(s) = Len(order) + 1
  BY <1>2
<1>4. (\A k \in 1 .. Len(order) : s[k] = order[k]) /\ s[Len(order) + 1] = x
  BY <1>2
<1>5. s # << >>
  BY <1>2, <1>3
<1>6. ASSUME NEW i \in S PROVE \E k \in 1 .. Len(s) : s[k] = i
  <2>1. PICK k \in 1 .. Len(order) : order[k] = i
    BY <1>1
  <2>2. k \in 1 .. Len(s) /\ s[k] = i
    BY <1>2, <1>3, <1>4, <2>1
  <2> QED
    BY <2>2
<1>7. Len(s) \in 1 .. Len(s) /\ s[Len(s)] = x
  BY <1>2, <1>3, <1>4
<1>8. \A k \in 1 .. Len(s) : s[k] \in S \cup {x}
  BY <1>3
<1> QED
  BY <1>3, <1>5, <1>6, <1>7, <1>8

-----------------------------------------------------------------------------
(* The requests, as they begin.                                            *)

\* What an accepted request may ask for, given the list.
Justified(o, cleared) ==
    /\ o \in Ops
    /\ cleared = IF o.name \in {"add", "update"} /\ o.default THEN Defaults \ {o.id} ELSE {}
    /\ o.name # "none"
    /\ IF o.name = "add" THEN o.id \notin Live ELSE o.id \in Live
    /\ o.name = "add" => o.default \/ Defaults # {}
    /\ o.name = "update" => o.default \/ Defaults # {o.id}
    /\ o.name = "attach" => o.default = rows[o.id].default
    /\ o.name = "archive" =>
          /\ o.default = FALSE /\ o.number = NoNumber
          /\ table = "sms" => ~rows[o.id].default /\ rows[o.id].number = NoNumber
          /\ table = "replyTo" /\ rows[o.id].default => Live = {o.id}
    /\ table = "replyTo" => o.number = NoNumber

Accepted(r) == \E o \in Ops, cleared \in SUBSET Contact : Accept(r, o, cleared) /\ Justified(o, cleared)

Answered(r) == Begin(r) /\ (Refuse(r) \/ Accepted(r))

LEMMA OpTyped ==
    ASSUME NEW name \in {"add", "update", "attach", "archive"}, NEW i \in Contact,
           NEW d \in BOOLEAN, NEW n \in Number \cup {NoNumber}
    PROVE  [name |-> name, id |-> i, default |-> d, number |-> n] \in Ops
BY DEF Ops

LEMMA ClearTyped ==
    ASSUME rows \in Rows, NEW i \in Contact, NEW d \in BOOLEAN
    PROVE  (IF d THEN ToClear(i) ELSE {}) \in SUBSET Contact
BY ListedTyped DEF ToClear, Defaults

LEMMA AddAnswered ==
    ASSUME TypeOK, NEW r \in Request, NEW i \in Contact, NEW d \in BOOLEAN,
           NEW n \in Number \cup {NoNumber}, table = "replyTo" => n = NoNumber, Add(r, i, d, n)
    PROVE  Answered(r)
<1>1. CASE ~d /\ Defaults = {}
  BY <1>1 DEF Add, Answered
<1>2. CASE ~(~d /\ Defaults = {})
  <2> DEFINE o == [name |-> "add", id |-> i, default |-> d, number |-> n]
             cleared == IF d THEN ToClear(i) ELSE {}
  <2>1. Begin(r) /\ Accept(r, o, cleared) /\ i \notin Live
    BY <1>2 DEF Add, Fresh, Live
  <2>2. o \in Ops /\ cleared \in SUBSET Contact
    BY OpTyped, ClearTyped DEF TypeOK
  <2>3. /\ o.name = "add" /\ o.id = i /\ o.number = n /\ o.default = d
    OBVIOUS
  <2>4. cleared = IF o.name \in {"add", "update"} /\ o.default THEN Defaults \ {o.id} ELSE {}
    BY DEF ToClear
  <2>5. Justified(o, cleared)
    <3> HIDE DEF o, cleared
    <3> QED
      BY <1>2, <2>1, <2>2, <2>3, <2>4 DEF Justified
  <2> HIDE DEF o, cleared
  <2> QED
    BY <2>1, <2>2, <2>5 DEF Answered, Accepted
<1> QED
  BY <1>1, <1>2

LEMMA UpdateAnswered ==
    ASSUME TypeOK, NEW r \in Request, NEW i \in Contact, NEW d \in BOOLEAN, Update(r, i, d)
    PROVE  Answered(r)
<1>1. CASE i \notin Live \/ (~d /\ IsSoleDefault(i))
  BY <1>1 DEF Update, Answered
<1>2. CASE ~(i \notin Live \/ (~d /\ IsSoleDefault(i)))
  <2> DEFINE o == [name |-> "update", id |-> i, default |-> d, number |-> NoNumber]
             cleared == IF d THEN ToClear(i) ELSE {}
  <2>1. Begin(r) /\ Accept(r, o, cleared) /\ i \in Live /\ (d \/ Defaults # {i})
    BY <1>2 DEF Update, IsSoleDefault
  <2>2. o \in Ops /\ cleared \in SUBSET Contact
    BY OpTyped, ClearTyped DEF TypeOK
  <2>3. /\ o.name = "update" /\ o.id = i /\ o.number = NoNumber /\ o.default = d
    OBVIOUS
  <2>4. cleared = IF o.name \in {"add", "update"} /\ o.default THEN Defaults \ {o.id} ELSE {}
    BY DEF ToClear
  <2>5. Justified(o, cleared)
    <3> HIDE DEF o, cleared
    <3> QED
      BY <2>1, <2>2, <2>3, <2>4 DEF Justified
  <2> HIDE DEF o, cleared
  <2> QED
    BY <2>1, <2>2, <2>5 DEF Answered, Accepted
<1> QED
  BY <1>1, <1>2

LEMMA AttachAnswered ==
    ASSUME TypeOK, NEW r \in Request, NEW i \in Contact, NEW n \in Number,
           UpdateSmsSenderWithInboundNumber(r, i, n)
    PROVE  Answered(r)
<1>1. CASE i \notin Live
  BY <1>1 DEF UpdateSmsSenderWithInboundNumber, Answered
<1>2. CASE i \in Live
  <2> DEFINE o == [name |-> "attach", id |-> i, default |-> rows[i].default, number |-> n]
  <2>1. Begin(r) /\ Accept(r, o, {}) /\ table = "sms"
    BY <1>2 DEF UpdateSmsSenderWithInboundNumber
  <2>2. rows[i].default \in BOOLEAN
    BY <1>2, ListedTyped DEF TypeOK, Row
  <2>3. o \in Ops
    BY <2>2, OpTyped
  <2>4. o.name = "attach" /\ o.id = i /\ o.number = n /\ o.default = rows[i].default
    OBVIOUS
  <2>5. Justified(o, {})
    <3> HIDE DEF o
    <3> QED
      BY <1>2, <2>1, <2>3, <2>4 DEF Justified
  <2> HIDE DEF o
  <2> QED
    BY <2>1, <2>3, <2>5 DEF Answered, Accepted
<1> QED
  BY <1>1, <1>2

LEMMA ArchiveAnswered ==
    ASSUME TypeOK, NEW r \in Request, NEW i \in Contact,
           ArchiveSmsSender(r, i) \/ ArchiveReplyToEmailAddress(r, i)
    PROVE  Answered(r)
<1>1. CASE Refuse(r)
  BY <1>1 DEF ArchiveSmsSender, ArchiveReplyToEmailAddress, Answered
<1>2. CASE ~Refuse(r)
  <2> DEFINE o == [name |-> "archive", id |-> i, default |-> FALSE, number |-> NoNumber]
  <2>1. /\ Begin(r) /\ Accept(r, o, {}) /\ i \in Live
        /\ table = "sms" => ~rows[i].default /\ rows[i].number = NoNumber
        /\ table = "replyTo" /\ rows[i].default => Live = {i}
    BY <1>2 DEF ArchiveSmsSender, ArchiveReplyToEmailAddress, Archive
  <2>2. o \in Ops
    BY OpTyped
  <2>3. o.name = "archive" /\ o.id = i /\ o.number = NoNumber /\ o.default = FALSE
    OBVIOUS
  <2>4. Justified(o, {})
    <3> HIDE DEF o
    <3> QED
      BY <2>1, <2>2, <2>3 DEF Justified
  <2> HIDE DEF o
  <2> QED
    BY <2>1, <2>2, <2>4 DEF Answered, Accepted
<1> QED
  BY <1>1, <1>2

\* Every step is the answer to a request, a statement of one, or its end.
LEMMA StepsOfNext ==
    ASSUME TypeOK, Next
    PROVE  \E r \in Request :
              \/ Answered(r) \/ WriteRow(r) \/ AddInboundNumber(r) \/ Commit(r)
              \/ DeadlockAbort(r) \/ Fail(r)
<1>1. PICK r \in Request :
        \/ \E i \in Contact, d \in BOOLEAN :
              \/ \E n \in Number \cup {NoNumber} : AddSmsSenderForService(r, i, d, n)
              \/ \E renamed \in BOOLEAN : UpdateServiceSmsSender(r, i, d, renamed)
              \/ AddReplyToEmailAddress(r, i, d)
              \/ UpdateReplyToEmailAddress(r, i, d)
        \/ \E i \in Contact :
              \/ \E n \in Number : UpdateSmsSenderWithInboundNumber(r, i, n)
              \/ ArchiveSmsSender(r, i)
              \/ ArchiveReplyToEmailAddress(r, i)
        \/ Proceed(r)
        \/ Fail(r)
  BY Zenon DEF Next
<1>2. CASE \E i \in Contact, d \in BOOLEAN, n \in Number \cup {NoNumber} :
              AddSmsSenderForService(r, i, d, n)
  BY <1>2, AddAnswered DEF AddSmsSenderForService
<1>3. CASE \E i \in Contact, d \in BOOLEAN, renamed \in BOOLEAN :
              UpdateServiceSmsSender(r, i, d, renamed)
  BY <1>3, UpdateAnswered DEF UpdateServiceSmsSender, Answered
<1>4. CASE \E i \in Contact, d \in BOOLEAN : AddReplyToEmailAddress(r, i, d)
  BY <1>4, AddAnswered DEF AddReplyToEmailAddress
<1>5. CASE \E i \in Contact, d \in BOOLEAN : UpdateReplyToEmailAddress(r, i, d)
  BY <1>5, UpdateAnswered DEF UpdateReplyToEmailAddress
<1>6. CASE \E i \in Contact, n \in Number : UpdateSmsSenderWithInboundNumber(r, i, n)
  BY <1>6, AttachAnswered
<1>7. CASE \E i \in Contact : ArchiveSmsSender(r, i) \/ ArchiveReplyToEmailAddress(r, i)
  BY <1>7, ArchiveAnswered
<1>8. CASE Proceed(r)
  BY <1>8 DEF Proceed
<1> QED
  BY <1>1, <1>2, <1>3, <1>4, <1>5, <1>6, <1>7, <1>8, Zenon

-----------------------------------------------------------------------------
(* Every step keeps the invariant.                                         *)

\* What r does leaves the plans of the others alone.
LEMMA PlanUnchanged ==
    ASSUME NEW q \in Request, Plan(q), table' = table, op'[q] = op[q], step'[q] = step[q],
           seen'[q] = seen[q], todo'[q] = todo[q], written'[q] = written[q]
    PROVE  Plan(q)'
BY DEF Plan, Open, FollowsPlan, HasChecked, Planned, ChoosesDefault, SeenDefaults,
       OwnRow, Cleared

LEMMA InitKeeps == ASSUME SenderAssumption, Init PROVE IInv
<1>1. NoRows \in Rows /\ DOMAIN NoRows = {}
  BY NoRowsTyped
<1>2. NoOp \in Ops
  BY DEF NoOp, Ops, SenderAssumption
<1>3. /\ table \in {"sms", "replyTo"} /\ rows \in Rows
      /\ \A i \in DOMAIN rows : rows[i].number = NoNumber
  <2>1. CASE table = "replyTo" /\ rows = NoRows
    BY <1>1, <2>1
  <2>2. CASE /\ table \in {"sms", "replyTo"}
             /\ \E ids \in SUBSET Contact :
                   rows = [i \in ids |-> [live |-> TRUE, default |-> i = First, number |-> NoNumber]]
    <3>1. PICK ids \in SUBSET Contact :
            rows = [i \in ids |-> [live |-> TRUE, default |-> i = First, number |-> NoNumber]]
      BY <2>2
    <3>2. \A i \in ids : (i = First) \in BOOLEAN
      BY Zenon
    <3>3. rows \in [ids -> Row] /\ \A i \in DOMAIN rows : rows[i].number = NoNumber
      BY <3>1, <3>2 DEF Row
    <3> QED
      BY <2>2, <3>3, RowsIntro
  <2> QED
    BY <2>1, <2>2, Zenon DEF Init
<1>4. TypeOK
  BY <1>1, <1>2, <1>3 DEF Init, TypeOK, SenderAssumption
<1>5. \A r \in Request : Plan(r)
  BY DEF Init, Plan, Open
<1>6. NumbersKnown
  BY <1>1, <1>3 DEF Init, NumbersKnown, CarriedNumbersAreAssigned, NoOp
<1> QED
  BY <1>4, <1>5, <1>6 DEF IInv

LEMMA RefuseKeeps == ASSUME IInv, NEW r \in Request, Begin(r), Refuse(r) PROVE IInv'
<1>1. TypeOK'
  BY DEF IInv, TypeOK, Begin, Refuse, tables
<1>2. ASSUME NEW q \in Request PROVE Plan(q)'
  <2>1. CASE q = r
    BY <2>1 DEF Refuse, Plan, Open, IInv, TypeOK
  <2>2. CASE q # r
    BY <2>2, PlanUnchanged DEF Refuse, tables, IInv, TypeOK
  <2> QED
    BY <2>1, <2>2
<1>3. NumbersKnown'
  BY DEF IInv, NumbersKnown, CarriedNumbersAreAssigned, Refuse, tables
<1> QED
  BY <1>1, <1>2, <1>3 DEF IInv

LEMMA AcceptKeeps ==
    ASSUME SenderAssumption, IInv, NEW r \in Request, Begin(r),
           NEW o \in Ops, NEW cleared \in SUBSET Contact, Accept(r, o, cleared), Justified(o, cleared)
    PROVE  IInv'
<1>1. TypeOK /\ step[r] = "idle" /\ written[r] = NoRows
  BY DEF IInv, TypeOK, Begin
<1>2. PICK order \in SetToSeqs(cleared) : todo' = [todo EXCEPT ![r] = Append(order, o.id)]
  BY DEF Accept
<1>3. IsFiniteSet(cleared)
  BY FS_Subset DEF SenderAssumption
<1>4. o.id \in Contact
  BY DEF Ops
<1>5. DEFINE s == Append(order, o.id)
<1>6. /\ s \in Seq(cleared \cup {o.id}) /\ s # << >>
      /\ \A i \in cleared \cup {o.id} : \E k \in 1 .. Len(s) : s[k] = i
      /\ \A k \in 1 .. Len(s) : s[k] \in cleared \cup {o.id}
  BY <1>3, OrderAndOwn
<1>7. s \in Seq(Contact)
  <2>1. cleared \cup {o.id} \subseteq Contact
    BY <1>4
  <2> QED
    BY <1>6, <2>1
<1> HIDE DEF s
<1>8. /\ Listed \in Rows /\ DOMAIN Listed = Live
      /\ \A i \in Live : Listed[i] = rows[i] /\ rows[i] \in Row
  BY <1>1, ListedTyped DEF TypeOK
<1>9. /\ op' = [op EXCEPT ![r] = o] /\ step' = [step EXCEPT ![r] = "write"]
      /\ seen' = [seen EXCEPT ![r] = Listed] /\ todo' = [todo EXCEPT ![r] = s]
      /\ UNCHANGED <<table, rows, assigned, written, faults>>
  BY <1>2 DEF Accept, tables, s
<1>10. /\ op'[r] = o /\ step'[r] = "write" /\ seen'[r] = Listed /\ todo'[r] = s
       /\ written'[r] = NoRows
  BY <1>1, <1>9 DEF TypeOK
<1>11. TypeOK'
  BY <1>1, <1>6, <1>7, <1>8, <1>9 DEF TypeOK
<1>12. SeenDefaults(r)' = Defaults
  BY <1>8, <1>10 DEF SeenDefaults, Defaults
<1>13. Planned(r)' = cleared \cup {o.id}
  BY <1>10, <1>12 DEF Planned, ChoosesDefault, Justified
<1>14. FollowsPlan(r)'
  BY <1>6, <1>10, <1>13, NoRowsTyped DEF FollowsPlan
<1>15. HasChecked(r)'
  <2>1. \A i \in Live : rows[i].live
    BY DEF Live
  <2>2. seen'[r] = Listed /\ op'[r] = o /\ table' = table
    BY <1>9, <1>10
  <2>3. o.name # "add" => o.id \in Live
    BY DEF Justified
  <2> QED
    BY <1>8, <1>12, <2>1, <2>2, <2>3 DEF HasChecked, Justified
<1>16. ASSUME NEW q \in Request PROVE Plan(q)'
  <2>1. CASE q = r
    BY <1>14, <1>15, <2>1 DEF Plan
  <2>2. CASE q # r
    BY <1>1, <1>9, <2>2, PlanUnchanged DEF IInv, TypeOK
  <2> QED
    BY <2>1, <2>2
<1>17. NumbersKnown'
  <2>1. NumbersKnown /\ UNCHANGED <<table, rows, assigned>>
    BY <1>9 DEF IInv
  <2>2. CarriedNumbersAreAssigned'
    BY <2>1 DEF NumbersKnown, CarriedNumbersAreAssigned
  <2>3. ASSUME NEW q \in Request, NEW i \in DOMAIN seen'[q]
        PROVE  seen'[q][i].number \in assigned' \cup {NoNumber}
    <3>1. CASE q = r
      <4>1. i \in Live /\ seen'[q][i] = rows[i]
        BY <1>8, <1>10, <3>1
      <4> QED
        BY <2>1, <4>1 DEF NumbersKnown, CarriedNumbersAreAssigned, Live
    <3>2. CASE q # r
      BY <1>1, <1>9, <2>1, <3>2 DEF NumbersKnown, TypeOK
    <3> QED
      BY <3>1, <3>2
  <2>4. table' = "replyTo" => assigned' = {} /\ \A q \in Request : op'[q].number = NoNumber
    BY <1>1, <1>9, <2>1 DEF NumbersKnown, Justified, TypeOK
  <2> QED
    BY <2>2, <2>3, <2>4 DEF NumbersKnown
<1> QED
  BY <1>11, <1>16, <1>17 DEF IInv

\* A request that ends has no plan and no view of the list.
LEMMA EndKeeps ==
    ASSUME SenderAssumption, IInv, NEW r \in Request, NEW s \in {"done", "failed"}, End(r, s),
           UNCHANGED table
    PROVE  /\ \A q \in Request : Plan(q)'
           /\ (rows \in Rows /\ assigned \subseteq Number /\ faults \in 0 .. MaxFaults)' => TypeOK'
           /\ (assigned \subseteq assigned' /\ (table = "replyTo" => assigned' = {})
                 /\ CarriedNumbersAreAssigned') => NumbersKnown'
<1>1. NoOp \in Ops /\ NoOp.number = NoNumber
  BY DEF NoOp, Ops, SenderAssumption
<1>2. ASSUME NEW q \in Request PROVE Plan(q)'
  <2>1. CASE q = r
    BY <2>1 DEF End, Plan, Open, IInv, TypeOK
  <2>2. CASE q # r
    BY <2>2, PlanUnchanged DEF End, IInv, TypeOK
  <2> QED
    BY <2>1, <2>2
<1>3. ASSUME rows' \in Rows, assigned' \subseteq Number, faults' \in 0 .. MaxFaults
      PROVE  TypeOK'
  BY <1>1, <1>3, NoRowsTyped DEF End, IInv, TypeOK
<1>4. ASSUME assigned \subseteq assigned', table = "replyTo" => assigned' = {},
             CarriedNumbersAreAssigned'
      PROVE  NumbersKnown'
  <2>1. ASSUME NEW q \in Request, NEW i \in DOMAIN seen'[q]
        PROVE  seen'[q][i].number \in assigned' \cup {NoNumber}
    BY <1>4, NoRowsTyped DEF End, IInv, TypeOK, NumbersKnown
  <2>2. table' = "replyTo" => \A q \in Request : op'[q].number = NoNumber
    BY <1>1 DEF End, IInv, TypeOK, NumbersKnown
  <2> QED
    BY <1>4, <2>1, <2>2 DEF NumbersKnown
<1> QED
  BY <1>2, <1>3, <1>4

LEMMA AbortKeeps ==
    ASSUME SenderAssumption, IInv, NEW r \in Request, DeadlockAbort(r) \/ Fail(r)
    PROVE  IInv'
<1>1. End(r, "failed") /\ UNCHANGED <<table, rows, assigned>> /\ faults' \in 0 .. MaxFaults
  BY DEF DeadlockAbort, Fail, tables, IInv, TypeOK, SenderAssumption
<1>2. CarriedNumbersAreAssigned'
  BY <1>1 DEF IInv, NumbersKnown, CarriedNumbersAreAssigned
<1> QED
  BY <1>1, <1>2, EndKeeps DEF IInv, TypeOK, NumbersKnown

LEMMA WriteRowKeeps ==
    ASSUME SenderAssumption, IInv, NEW r \in Request, WriteRow(r)
    PROVE  IInv'
<1>1. TypeOK /\ step[r] = "write" /\ todo[r] \in Seq(Contact) /\ todo[r] # << >>
  BY DEF WriteRow, IInv, TypeOK
<1>2. FollowsPlan(r) /\ HasChecked(r)
  BY <1>1 DEF IInv, Plan, Open
<1>3. DEFINE i == Head(todo[r])
             row == IF i = op[r].id THEN OwnRow(r) ELSE Cleared(r, i)
<1>4. /\ i \in Contact /\ i = todo[r][1] /\ 1 \in 1 .. Len(todo[r])
      /\ Tail(todo[r]) \in Seq(Contact) /\ Len(Tail(todo[r])) = Len(todo[r]) - 1
      /\ \A k \in 1 .. Len(Tail(todo[r])) : Tail(todo[r])[k] = todo[r][k + 1]
  BY <1>1
<1>5. i \in Planned(r)
  BY <1>2, <1>4 DEF FollowsPlan
<1>6. op[r] \in Ops /\ written[r] \in Rows /\ seen[r] \in Rows
  BY <1>1 DEF TypeOK
<1>7. row \in Row
  <2>1. CASE i = op[r].id
    <3>1. (op[r].name # "archive") \in BOOLEAN
      BY Zenon
    <3>2. op[r].default \in BOOLEAN /\ op[r].number \in Number \cup {NoNumber}
      BY <1>6 DEF Ops
    <3>3. OwnRow(r) \in Row
      BY <3>1, <3>2 DEF OwnRow, Row
    <3> QED
      BY <2>1, <3>3
  <2>2. CASE i # op[r].id
    <3>1. i \in DOMAIN seen[r]
      BY <1>5, <2>2 DEF Planned, SeenDefaults
    <3>2. seen[r][i] \in Row
      BY <1>6, <3>1, RowsElim
    <3>3. Cleared(r, i) \in Row
      BY <3>2 DEF Cleared, Row
    <3> QED
      BY <2>2, <3>3
  <2> QED
    BY <2>1, <2>2
<1>8. AfterWriting(r) \in {"write", "assign", "commit"}
  BY DEF AfterWriting
<1>9. AfterWriting(r) = "write" <=> Tail(todo[r]) # << >>
  <2>1. Len(todo[r]) \in Nat /\ (AfterWriting(r) = "write" <=> Len(todo[r]) > 1)
    BY <1>1 DEF AfterWriting
  <2>2. \A s \in Seq(Contact) : s # << >> <=> Len(s) > 0
    OBVIOUS
  <2>3. Tail(todo[r]) \in Seq(Contact) /\ Len(Tail(todo[r])) = Len(todo[r]) - 1
    BY <1>4
  <2>4. Tail(todo[r]) # << >> <=> Len(todo[r]) > 1
    <3>1. Tail(todo[r]) # << >> <=> Len(Tail(todo[r])) > 0
      BY <2>2, <2>3
    <3> QED
      BY <2>1, <2>3, <3>1
  <2> QED
    BY <2>1, <2>4, Zenon
<1> DEFINE new == With(written[r], i, row)
<1>10. /\ new \in Rows /\ DOMAIN new = DOMAIN written[r] \cup {i}
       /\ new[i] = row /\ \A j \in DOMAIN written[r] : j # i => new[j] = written[r][j]
  <2>1. i \in Contact /\ written[r] \in Rows /\ row \in Row
    BY <1>4, <1>6, <1>7
  <2> HIDE DEF i, row
  <2> QED
    BY <2>1, WithTyped
<1>11. /\ written' = [written EXCEPT ![r] = new]
       /\ todo' = [todo EXCEPT ![r] = Tail(todo[r])]
       /\ step' = [step EXCEPT ![r] = AfterWriting(r)]
       /\ UNCHANGED <<table, rows, assigned, op, seen, faults>>
  BY <1>1 DEF WriteRow, tables, TypeOK
<1>12. written'[r] = new /\ todo'[r] = Tail(todo[r]) /\ op'[r] = op[r] /\ seen'[r] = seen[r]
  BY <1>1, <1>11 DEF TypeOK
<1>13. TypeOK'
  <2> HIDE DEF new
  <2> QED
    BY <1>1, <1>4, <1>8, <1>9, <1>10, <1>11 DEF TypeOK
<1>14. FollowsPlan(r)'
  <2>1. Planned(r)' = Planned(r)
    BY <1>12 DEF Planned, ChoosesDefault, SeenDefaults
  <2>2. ASSUME NEW j \in Planned(r), j # i, j \notin DOMAIN written[r]
        PROVE  \E k \in 1 .. Len(Tail(todo[r])) : Tail(todo[r])[k] = j
    <3>1. PICK k \in 1 .. Len(todo[r]) : todo[r][k] = j
      BY <1>2, <2>2 DEF FollowsPlan
    <3>2. k # 1 /\ k - 1 \in 1 .. Len(Tail(todo[r])) /\ Tail(todo[r])[k - 1] = todo[r][k]
      BY <1>1, <1>4, <2>2, <3>1
    <3> QED
      BY <3>1, <3>2
  <2>3. \A k \in 1 .. Len(Tail(todo[r])) : Tail(todo[r])[k] \in Planned(r)
    BY <1>1, <1>2, <1>4 DEF FollowsPlan
  <2>4. \A j \in DOMAIN new : new[j] = IF j = op[r].id THEN OwnRow(r) ELSE Cleared(r, j)
    BY <1>2, <1>10 DEF FollowsPlan
  <2>5. \A j : OwnRow(r)' = OwnRow(r) /\ Cleared(r, j)' = Cleared(r, j)
    BY <1>12 DEF OwnRow, Cleared
  <2>6. \A j \in DOMAIN new : new[j] = IF j = op'[r].id THEN OwnRow(r)' ELSE Cleared(r, j)'
    BY <1>12, <2>4, <2>5
  <2>7. DOMAIN new \subseteq Planned(r)
    BY <1>2, <1>5, <1>10 DEF FollowsPlan
  <2>8. \A j \in Planned(r) : j \in DOMAIN new
                               \/ \E k \in 1 .. Len(Tail(todo[r])) : Tail(todo[r])[k] = j
    BY <1>10, <2>2
  <2> HIDE DEF new
  <2> QED
    BY <1>12, <2>1, <2>3, <2>6, <2>7, <2>8 DEF FollowsPlan
<1>15. HasChecked(r)'
  BY <1>2, <1>11, <1>12 DEF HasChecked, SeenDefaults
<1>16. ASSUME NEW q \in Request PROVE Plan(q)'
  <2>1. CASE q = r
    BY <1>14, <1>15, <2>1 DEF Plan
  <2>2. CASE q # r
    BY <1>1, <1>11, <2>2, PlanUnchanged DEF IInv, TypeOK
  <2> QED
    BY <2>1, <2>2
<1>17. NumbersKnown'
  BY <1>11 DEF IInv, NumbersKnown, CarriedNumbersAreAssigned
<1> QED
  BY <1>13, <1>16, <1>17 DEF IInv

LEMMA AddInboundNumberKeeps ==
    ASSUME SenderAssumption, IInv, NEW r \in Request, AddInboundNumber(r)
    PROVE  IInv'
<1>1. TypeOK'
  BY DEF AddInboundNumber, tables, IInv, TypeOK
<1>2. ASSUME NEW q \in Request PROVE Plan(q)'
  <2>1. CASE q = r
    <3>1. UNCHANGED <<table, op, seen, todo, written>> /\ step[r] = "assign"
      BY DEF AddInboundNumber, tables
    <3>2. FollowsPlan(r) /\ HasChecked(r)
      BY <3>1 DEF IInv, Plan, Open
    <3>3. FollowsPlan(r)'
      BY <3>1, <3>2 DEF FollowsPlan, Planned, ChoosesDefault, SeenDefaults, OwnRow, Cleared
    <3>4. HasChecked(r)'
      BY <3>1, <3>2 DEF HasChecked, SeenDefaults
    <3> QED
      BY <2>1, <3>3, <3>4 DEF Plan
  <2>2. CASE q # r
    BY <2>2, PlanUnchanged DEF AddInboundNumber, tables, IInv, TypeOK
  <2> QED
    BY <2>1, <2>2
<1>3. NumbersKnown'
  BY DEF AddInboundNumber, tables, IInv, NumbersKnown, CarriedNumbersAreAssigned
<1> QED
  BY <1>1, <1>2, <1>3 DEF IInv

\* At its commit a request has written all it planned, and the table is as
\* it was but for that.
LEMMA RowsAfterCommit ==
    ASSUME IInv, NEW r \in Request, Commit(r)
    PROVE  /\ FollowsPlan(r) /\ HasChecked(r)
           /\ DOMAIN written[r] = Planned(r)
           /\ DOMAIN rows' = DOMAIN rows \cup Planned(r)
           /\ \A i \in DOMAIN rows' :
                 rows'[i] = IF i = op[r].id THEN OwnRow(r)
                            ELSE IF i \in Planned(r) THEN Cleared(r, i) ELSE rows[i]
           /\ rows' \in Rows
<1>1. TypeOK /\ step[r] = "commit" /\ todo[r] = << >>
  BY DEF Commit, IInv, TypeOK
<1>2. FollowsPlan(r) /\ HasChecked(r)
  BY <1>1 DEF IInv, Plan, Open
<1>3. \A k \in 1 .. Len(todo[r]) : FALSE
  BY <1>1
<1>4. DOMAIN written[r] = Planned(r)
  BY <1>2, <1>3 DEF FollowsPlan
<1>5. rows' = [i \in DOMAIN rows \cup DOMAIN written[r] |->
                  IF i \in DOMAIN written[r] THEN written[r][i] ELSE rows[i]]
  BY DEF Commit, HoldsRow
<1>6. op[r].id \in Planned(r)
  BY DEF Planned
<1>7. \A i \in DOMAIN rows' :
         rows'[i] = IF i = op[r].id THEN OwnRow(r)
                    ELSE IF i \in Planned(r) THEN Cleared(r, i) ELSE rows[i]
  BY <1>2, <1>4, <1>5, <1>6 DEF FollowsPlan
<1>8. rows' \in Rows
  <2>1. /\ DOMAIN rows \subseteq Contact /\ rows \in [DOMAIN rows -> Row]
        /\ DOMAIN written[r] \subseteq Contact /\ written[r] \in [DOMAIN written[r] -> Row]
    BY <1>1, RowsElim DEF TypeOK
  <2>2. rows' \in [DOMAIN rows \cup DOMAIN written[r] -> Row]
    BY <1>5, <2>1
  <2>3. DOMAIN rows \cup DOMAIN written[r] \in SUBSET Contact
    BY <2>1
  <2> QED
    BY <2>2, <2>3, RowsIntro
<1>9. DOMAIN rows' = DOMAIN rows \cup Planned(r)
  BY <1>4, <1>5
<1> QED
  BY <1>2, <1>4, <1>7, <1>8, <1>9

LEMMA CommitKeeps ==
    ASSUME SenderAssumption, IInv, NEW r \in Request, Commit(r)
    PROVE  IInv'
<1>1. TypeOK /\ NumbersKnown
  BY DEF IInv
<1>2. /\ End(r, "done") /\ UNCHANGED <<table, faults>>
      /\ assigned' = assigned \cup ({op[r].number} \cap Number)
  BY DEF Commit
<1>3. op[r].number \in Number \cup {NoNumber}
  BY <1>1 DEF TypeOK, Ops
<1>4. assigned' \subseteq Number /\ assigned \subseteq assigned'
  BY <1>1, <1>2 DEF TypeOK
<1>5. table = "replyTo" => assigned' = {}
  BY <1>1, <1>2 DEF NumbersKnown, SenderAssumption
<1>6. CarriedNumbersAreAssigned'
  <2>1. SUFFICES ASSUME NEW i \in DOMAIN rows'
                 PROVE  rows'[i].number \in assigned' \cup {NoNumber}
    BY DEF CarriedNumbersAreAssigned
  <2>2. CASE i = op[r].id
    <3>1. rows'[i] = OwnRow(r)
      BY <2>2, RowsAfterCommit
    <3> QED
      BY <1>2, <1>3, <3>1 DEF OwnRow
  <2>3. CASE i # op[r].id /\ i \in Planned(r)
    <3>1. rows'[i] = Cleared(r, i)
      BY <2>3, RowsAfterCommit
    <3>2. i \in DOMAIN seen[r]
      BY <2>3 DEF Planned, SeenDefaults
    <3>3. seen[r][i] \in Row
      BY <1>1, <3>2, RowsElim DEF TypeOK
    <3>4. rows'[i].number = seen[r][i].number
      BY <3>1, <3>3 DEF Cleared, Row
    <3> QED
      BY <1>1, <1>4, <3>2, <3>4 DEF NumbersKnown
  <2>4. CASE i # op[r].id /\ i \notin Planned(r)
    <3>1. rows'[i] = rows[i] /\ i \in DOMAIN rows
      BY <2>4, RowsAfterCommit
    <3> QED
      BY <1>1, <1>4, <3>1 DEF NumbersKnown, CarriedNumbersAreAssigned
  <2> QED
    BY <2>2, <2>3, <2>4
<1>7. rows' \in Rows /\ faults' \in 0 .. MaxFaults
  BY <1>1, <1>2, RowsAfterCommit DEF TypeOK
<1> QED
  BY <1>2, <1>4, <1>5, <1>6, <1>7, EndKeeps DEF IInv

LEMMA StepKeeps == ASSUME SenderAssumption, IInv, [Next]_vars PROVE IInv'
<1>1. CASE UNCHANGED vars
  <2>1. TypeOK'
    BY <1>1 DEF vars, tables, IInv, TypeOK
  <2>2. \A q \in Request : Plan(q)'
    BY <1>1, PlanUnchanged DEF vars, tables, IInv
  <2>3. NumbersKnown'
    BY <1>1 DEF vars, tables, IInv, NumbersKnown, CarriedNumbersAreAssigned
  <2> QED
    BY <2>1, <2>2, <2>3 DEF IInv
<1>2. CASE Next
  <2>1. PICK r \in Request :
          \/ Answered(r) \/ WriteRow(r) \/ AddInboundNumber(r) \/ Commit(r)
          \/ DeadlockAbort(r) \/ Fail(r)
    BY <1>2, StepsOfNext DEF IInv
  <2>2. CASE Answered(r)
    BY <2>2, RefuseKeeps, AcceptKeeps DEF Answered, Accepted
  <2> QED
    BY <2>1, <2>2, WriteRowKeeps, AddInboundNumberKeeps, CommitKeeps, AbortKeeps
<1> QED
  BY <1>1, <1>2

\* The three facts of induction.
THEOREM Invariant == SenderAssumption => (Spec => []IInv)
<1> SUFFICES ASSUME SenderAssumption PROVE Spec => []IInv
  OBVIOUS
<1>1. Init => IInv
  BY InitKeeps
<1>2. IInv /\ [Next]_vars => IInv'
  BY StepKeeps
<1> QED
  BY <1>1, <1>2, PTL DEF Spec

-----------------------------------------------------------------------------
(* What follows.                                                           *)

\* The columns of a sender keep their types, and a transaction that is not open
\* has nothing written and nothing to write.
THEOREM TypeCorrect == SenderAssumption => (Spec => []TypeOK)
<1>1. IInv => TypeOK
  BY DEF IInv
<1> QED
  BY <1>1, Invariant, PTL

\* A number that a sender carries belongs to the service, although a request
\* may write back a number that it read long before.
THEOREM NumbersAreAssigned == SenderAssumption => (Spec => []CarriedNumbersAreAssigned)
<1>1. IInv => CarriedNumbersAreAssigned
  BY DEF IInv, NumbersKnown
<1> QED
  BY <1>1, Invariant, PTL

\* Only a commit takes a request from "commit" to "done".
LEMMA CommitStep ==
    ASSUME IInv, Next, NEW r \in Request, step[r] = "commit", step'[r] = "done"
    PROVE  Commit(r)
<1>1. TypeOK
  BY DEF IInv
<1>2. PICK q \in Request :
        \/ Answered(q) \/ WriteRow(q) \/ AddInboundNumber(q) \/ Commit(q)
        \/ DeadlockAbort(q) \/ Fail(q)
  BY <1>1, StepsOfNext
<1>3. CASE Answered(q)
  BY <1>1, <1>3 DEF Answered, Begin, Accepted, Accept, Refuse, TypeOK
<1>4. CASE WriteRow(q)
  BY <1>1, <1>4 DEF WriteRow, TypeOK
<1>5. CASE AddInboundNumber(q)
  BY <1>1, <1>5 DEF AddInboundNumber, TypeOK
<1>6. CASE Commit(q)
  BY <1>1, <1>6 DEF Commit, End, TypeOK
<1>7. CASE DeadlockAbort(q) \/ Fail(q)
  BY <1>1, <1>7 DEF DeadlockAbort, Fail, End, TypeOK
<1> QED
  BY <1>2, <1>3, <1>4, <1>5, <1>6, <1>7

\* What a request that nobody overtook knew is true of the rows it replaces.
LEMMA CheckedStillTrue ==
    ASSUME IInv, NEW r \in Request, seen[r] = Listed
    PROVE  /\ SeenDefaults(r) = Defaults /\ DOMAIN seen[r] = Live
           /\ \A i \in Live : seen[r][i] = rows[i] /\ rows[i] \in Row
<1>1. /\ DOMAIN Listed = Live
      /\ \A i \in Live : Listed[i] = rows[i] /\ rows[i] \in Row
  BY ListedTyped DEF IInv, TypeOK
<1> QED
  BY <1>1 DEF SeenDefaults, Defaults

\* The defaults that such a request leaves.
LEMMA DefaultsAfterCommit ==
    ASSUME IInv, NEW r \in Request, Commit(r), seen[r] = Listed
    PROVE  Defaults' = IF ChoosesDefault(r) THEN {op[r].id}
                       ELSE IF op[r].name = "attach" THEN Defaults ELSE Defaults \ {op[r].id}
<1> DEFINE own == op[r].id
<1>1. /\ HasChecked(r) /\ op[r] \in Ops
      /\ SeenDefaults(r) = Defaults /\ DOMAIN seen[r] = Live
      /\ \A i \in Live : seen[r][i] = rows[i] /\ rows[i] \in Row
  BY CheckedStillTrue, RowsAfterCommit DEF IInv, TypeOK
<1>2. /\ DOMAIN rows' = DOMAIN rows \cup Planned(r)
      /\ own \in Planned(r) /\ rows'[own] = OwnRow(r)
      /\ \A i \in Planned(r) : i # own => rows'[i] = Cleared(r, i)
      /\ \A i \in DOMAIN rows : i # own /\ i \notin Planned(r) => rows'[i] = rows[i]
  <2>1. own \in Planned(r)
    BY DEF Planned
  <2> QED
    BY <2>1, RowsAfterCommit
<1>3. ASSUME NEW i, i # own
      PROVE  i \in Defaults' <=> i \in Defaults /\ ~ChoosesDefault(r)
  <2>1. CASE i \in Planned(r)
    <3>1. ChoosesDefault(r) /\ i \in Defaults /\ i \in Live
      BY <1>1, <1>3, <2>1 DEF Planned, Defaults
    <3>2. rows'[i].default = FALSE
      BY <1>1, <1>2, <1>3, <2>1, <3>1 DEF Cleared, Row
    <3> QED
      BY <3>1, <3>2 DEF Defaults
  <2>2. CASE i \notin Planned(r)
    <3>1. i \in DOMAIN rows' <=> i \in DOMAIN rows
      BY <1>2, <2>2
    <3>2. i \in DOMAIN rows => rows'[i] = rows[i]
      BY <1>2, <1>3, <2>2
    <3>3. i \in Defaults' <=> i \in Defaults
      BY <3>1, <3>2 DEF Defaults, Live
    <3>4. i \in Defaults => ~ChoosesDefault(r)
      BY <1>1, <2>2 DEF Planned
    <3> QED
      BY <3>3, <3>4
  <2> QED
    BY <2>1, <2>2
<1>4. own \in Defaults' <=> op[r].name # "archive" /\ op[r].default
  <2>1. own \in DOMAIN rows'
    BY <1>2
  <2>2. rows'[own].live = (op[r].name # "archive") /\ rows'[own].default = op[r].default
    BY <1>2 DEF OwnRow
  <2> QED
    BY <2>1, <2>2 DEF Defaults, Live
<1>5. op[r].name \in {"add", "update", "attach", "archive"}
  BY <1>1 DEF HasChecked, Ops
<1>6. op[r].name = "attach" => (own \in Defaults' <=> own \in Defaults)
  <2>1. op[r].name = "attach" => own \in Live /\ op[r].default = rows[own].default
    BY <1>1 DEF HasChecked
  <2> QED
    BY <1>4, <2>1 DEF Defaults
<1>7. CASE ChoosesDefault(r)
  BY <1>3, <1>4, <1>7 DEF ChoosesDefault
<1>8. CASE ~ChoosesDefault(r) /\ op[r].name = "attach"
  BY <1>3, <1>6, <1>8
<1>9. CASE ~ChoosesDefault(r) /\ op[r].name # "attach"
  <2>1. own \notin Defaults'
    BY <1>4, <1>5, <1>9 DEF ChoosesDefault
  <2> QED
    BY <1>3, <1>9, <2>1
<1> QED
  BY <1>7, <1>8, <1>9

\* However many defaults overlapping requests have left, choosing one when
\* nobody interferes leaves that one.
THEOREM ChoosingRepairs == SenderAssumption => (Spec => ChoosingADefaultRepairs)
<1>1. IInv /\ [Next]_vars =>
        [\A r \in Request :
            CommitsUnovertaken(r) /\ op[r].name \in {"add", "update"} /\ op[r].default
               => Defaults' = {op[r].id}]_vars
  <2> SUFFICES ASSUME IInv, Next, NEW r \in Request, CommitsUnovertaken(r),
                      op[r].name \in {"add", "update"}, op[r].default
               PROVE  Defaults' = {op[r].id}
    OBVIOUS
  <2>1. Commit(r) /\ seen[r] = Listed
    BY CommitStep DEF CommitsUnovertaken
  <2> QED
    BY <2>1, DefaultsAfterCommit DEF ChoosesDefault
<1> QED
  BY <1>1, Invariant, PTL DEF Spec, ChoosingADefaultRepairs

LEMMA OneElement ==
    ASSUME SenderAssumption, NEW D \in SUBSET Contact
    PROVE  Cardinality(D) = 1 <=> \E x \in Contact : D = {x}
<1>1. IsFiniteSet(D)
  BY FS_Subset DEF SenderAssumption
<1> QED
  BY <1>1, FS_Singleton

\* The checks of all operations together: from one default, a request that
\* nobody overtook leads to one default.
THEOREM OneDefaultStays == SenderAssumption => (Spec => OneDefaultKept)
<1> SUFFICES ASSUME SenderAssumption PROVE Spec => OneDefaultKept
  OBVIOUS
<1>1. IInv /\ [Next]_vars =>
        [\A r \in Request : CommitsUnovertaken(r) /\ OneDefault => OneDefault']_vars
  <2> SUFFICES ASSUME IInv, Next, NEW r \in Request, CommitsUnovertaken(r), OneDefault
               PROVE  OneDefault'
    OBVIOUS
  <2>1. Commit(r) /\ seen[r] = Listed
    BY CommitStep DEF CommitsUnovertaken
  <2>2. IInv' /\ table' = table
    BY <2>1, CommitKeeps DEF Commit
  <2>3. Defaults \in SUBSET Contact /\ Defaults' \in SUBSET Contact /\ op[r].id \in Contact
    <3>1. Live \subseteq Contact /\ Live' \subseteq Contact
      BY <2>2, RowsElim DEF IInv, TypeOK, Live
    <3> QED
      BY <3>1 DEF Defaults, IInv, TypeOK, Ops
  <2>4. /\ HasChecked(r) /\ SeenDefaults(r) = Defaults /\ DOMAIN seen[r] = Live
        /\ \A i \in Live : seen[r][i] = rows[i]
    BY <2>1, CheckedStillTrue, RowsAfterCommit
  <2>5. SUFFICES (\E x \in Contact : Defaults' = {x}) \/ (table = "replyTo" /\ Live' = {})
    BY <2>2, <2>3, OneElement DEF OneDefault
  <2>6. CASE ChoosesDefault(r)
    BY <2>1, <2>3, <2>6, DefaultsAfterCommit
  <2>7. CASE ~ChoosesDefault(r)
    <3>1. Live # {}
      BY <2>4, <2>7 DEF HasChecked, ChoosesDefault, Defaults
    <3>2. PICK x \in Contact : Defaults = {x}
      BY <2>3, <3>1, OneElement DEF OneDefault
    <3>3. CASE op[r].name = "attach" \/ op[r].id # x
      BY <2>1, <2>7, <3>2, <3>3, DefaultsAfterCommit
    <3>4. CASE op[r].name # "attach" /\ op[r].id = x
      <4>1. x \in Live /\ rows[x].default
        BY <3>2 DEF Defaults
      <4>2. op[r].name = "archive"
        <5>1. op[r].name \in {"add", "update", "attach", "archive"}
          BY <2>4 DEF HasChecked, IInv, TypeOK, Ops
        <5>2. op[r].name # "add"
          BY <2>4, <3>4, <4>1 DEF HasChecked
        <5>3. op[r].name # "update"
          BY <2>4, <2>7, <3>2, <3>4 DEF HasChecked, ChoosesDefault
        <5> QED
          BY <3>4, <5>1, <5>2, <5>3
      <4>3. table = "replyTo" /\ Live = {x}
        BY <2>4, <3>4, <4>1, <4>2 DEF HasChecked, IInv, TypeOK
      <4>4. Planned(r) = {x}
        BY <3>4, <4>2 DEF Planned, ChoosesDefault
      <4>5. /\ DOMAIN rows' = DOMAIN rows \cup {x} /\ ~rows'[x].live
            /\ \A i \in DOMAIN rows : i # x => rows'[i] = rows[i]
        <5>1. /\ DOMAIN rows' = DOMAIN rows \cup {x} /\ rows'[x] = OwnRow(r)
              /\ \A i \in DOMAIN rows : i # x => rows'[i] = rows[i]
          BY <2>1, <3>4, <4>4, RowsAfterCommit
        <5>2. ~OwnRow(r).live
          BY <4>2, Zenon DEF OwnRow
        <5> QED
          BY <5>1, <5>2
      <4>6. Live' = {}
        BY <4>3, <4>5 DEF Live
      <4> QED
        BY <4>3, <4>6
    <3> QED
      BY <3>3, <3>4
  <2> QED
    BY <2>6, <2>7
<1> QED
  BY <1>1, Invariant, PTL DEF Spec, OneDefaultKept

\* No clearing of a default and no archiving parts a sender from its number.
THEOREM NumberedStay == SenderAssumption => (Spec => NumberedSendersStay)
<1>1. IInv /\ [Next]_vars =>
        [\A r \in Request, i \in Live :
            /\ CommitsUnovertaken(r) /\ rows[i].number # NoNumber
            /\ op[r].id = i => op[r].name = "archive"
            => rows'[i].live /\ rows'[i].number = rows[i].number]_vars
  <2> SUFFICES ASSUME IInv, Next, NEW r \in Request, NEW i \in Live,
                      CommitsUnovertaken(r), rows[i].number # NoNumber,
                      op[r].id = i => op[r].name = "archive"
               PROVE  rows'[i].live /\ rows'[i].number = rows[i].number
    OBVIOUS
  <2>1. Commit(r) /\ seen[r] = Listed
    BY CommitStep DEF CommitsUnovertaken
  <2>2. HasChecked(r) /\ DOMAIN seen[r] = Live /\ seen[r][i] = rows[i] /\ rows[i] \in Row
    BY <2>1, CheckedStillTrue, RowsAfterCommit
  <2>3. rows[i].live /\ i \in DOMAIN rows
    BY DEF Live
  <2>4. op[r].id # i
    <3>1. table = "replyTo" => rows[i].number = NoNumber
      BY <2>3 DEF IInv, NumbersKnown, CarriedNumbersAreAssigned
    <3> QED
      BY <2>2, <3>1 DEF HasChecked, IInv, TypeOK
  <2>5. CASE i \in Planned(r)
    <3>1. rows'[i] = Cleared(r, i)
      BY <2>1, <2>3, <2>4, <2>5, RowsAfterCommit
    <3> QED
      BY <2>2, <2>3, <3>1 DEF Cleared, Row
  <2>6. CASE i \notin Planned(r)
    BY <2>1, <2>3, <2>4, <2>6, RowsAfterCommit
  <2> QED
    BY <2>5, <2>6
<1> QED
  BY <1>1, Invariant, PTL DEF Spec, NumberedSendersStay

=============================================================================
