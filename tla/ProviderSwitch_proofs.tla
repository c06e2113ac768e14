----------------------- MODULE ProviderSwitch_proofs -----------------------
(***************************************************************************)
(* Proofs about ProviderSwitch, for any number of requests, any priorities *)
(* and any faults.  Nothing runs in a transaction, so that little can be   *)
(* said of a row; the argument is about versions (each one that was ever   *)
(* handed on is recorded, in hand or lost to a fault) and about the        *)
(* requests nobody disturbed, which still know the rows they read.         *)
(***************************************************************************)
EXTENDS ProviderSwitch, FiniteSetTheorems, SequenceTheorems, TLAPS

\* The provider that r updates next.
About(r) == Head(todo[r]).id

-----------------------------------------------------------------------------
(* Types.                                                                  *)

\* A request with updates left has one to make.
LEMMA HeadTyped ==
    ASSUME TypeOK, NEW r \in Request, step[r] \in {"read", "update", "history"}
    PROVE  /\ todo[r] \in Seq(Update) /\ todo[r] # <<>> /\ Len(todo[r]) \in {1, 2}
           /\ Head(todo[r]) \in Update /\ About(r) \in Provider
<1>1. todo[r] \in Seq(Update) /\ todo[r] # <<>> /\ Len(todo[r]) <= 2
  BY DEF TypeOK
<1>2. Len(todo[r]) \in Nat \ {0}
  BY <1>1, EmptySeq, Zenon
<1>3. Len(todo[r]) \in {1, 2}
  <2> DEFINE n == Len(todo[r])
  <2>1. n \in Nat \ {0} /\ n <= 2
    BY <1>1, <1>2, Zenon
  <2> HIDE DEF n
  <2>2. n \in {1, 2}
    BY <2>1
  <2> QED
    BY <2>2 DEF n
<1>4. Head(todo[r]) \in Update
  BY <1>1, HeadTailProperties, Zenon
<1> QED
  BY <1>1, <1>3, <1>4 DEF About, Update

LEMMA WrittenTyped ==
    ASSUME TypeOK, NEW r \in Request, step[r] \in {"read", "update", "history"}
    PROVE  /\ Written(r) \in Row
           /\ Written(r).version = base[r].version + 1
           /\ base[r] \in Row /\ base[r].version \in Nat \ {0}
<1> DEFINE u == Head(todo[r])
<1>1. u.priority \in Int \cup {Keep} /\ u.active \in BOOLEAN \cup {Keep}
  BY HeadTyped DEF Update
<1>2. base[r] \in Row
  BY DEF TypeOK
<1>3. base[r].priority \in Int /\ base[r].active \in BOOLEAN /\ base[r].version \in Nat \ {0}
  BY <1>2 DEF Row
<1>4. (IF u.priority = Keep THEN base[r].priority ELSE u.priority) \in Int
  BY <1>1, <1>3
<1>5. (IF u.active = Keep THEN base[r].active ELSE u.active) \in BOOLEAN
  BY <1>1, <1>3, Zenon
<1>6. base[r].version + 1 \in Nat \ {0}
  BY <1>3
<1>7. \A a \in Int, b \in BOOLEAN, v \in Nat \ {0} :
         [priority |-> a, active |-> b, version |-> v] \in Row
  BY DEF Row
<1>8. Written(r) \in Row
  BY <1>4, <1>5, <1>6, <1>7, Zenon DEF Written
<1>9. Written(r).version = base[r].version + 1
  BY Zenon DEF Written
<1> QED
  BY <1>2, <1>3, <1>8, <1>9

\* Two rows are never equally placed, so that the first of some is one of them.
LEMMA FirstIsThere ==
    ASSUME ProviderAssumption, TwoProviders, TypeOK,
           NEW S \in SUBSET Provider, S # {}
    PROVE  First(S) \in S /\ \A q \in S \ {First(S)} : Before(First(S), q)
<1>1. \A p \in Provider : rows[p].priority \in Int
  BY DEF TypeOK, Row
<1>2. \E p \in S : \A q \in S \ {p} : Before(p, q)
  <2>1. CASE \E p \in Provider : S = {p}
    BY <2>1
  <2>2. CASE S = {Pinpoint, Sns}
    <3>1. Rank[Pinpoint] \in Nat /\ Rank[Sns] \in Nat /\ Rank[Pinpoint] # Rank[Sns]
      BY ProviderAssumption, TwoProviders
    <3>2. Before(Pinpoint, Sns) \/ Before(Sns, Pinpoint)
      BY <1>1, <3>1, ProviderAssumption DEF Before
    <3> QED
      BY <2>2, <3>2
  <2> QED
    BY <2>1, <2>2, TwoProviders
<1> QED
  BY <1>2, Zenon DEF First

LEMMA CurrentIsProvider ==
    ASSUME ProviderAssumption, TwoProviders, TypeOK
    PROVE  CurrentProvider \in Provider \cup {NoProvider}
<1>1. Active # {} => First(Active) \in Active
  BY FirstIsThere DEF Active
<1> QED
  BY <1>1 DEF CurrentProvider, Active

\* Priorities as the switch exchanges them; the target's gets the lower one.
LEMMA ExchangeOrders ==
    ASSUME NEW t \in Int, NEW c \in Int
    PROVE  /\ Exchange(t, c)[1] \in Int /\ Exchange(t, c)[2] \in Int
           /\ Exchange(t, c)[1] < Exchange(t, c)[2]
BY DEF Exchange

\* What is left to do is a sequence of updates.
LEMMA MoveOnTyped ==
    ASSUME TypeOK, NEW r \in Request, step[r] = "history", MoveOn(r)
    PROVE  /\ todo' \in [Request -> Seq(Update)]
           /\ step' \in [Request -> {"idle", "target", "current", "read", "update", "history",
                                     "done", "failed"}]
           /\ \A q \in Request :
                 /\ Len(todo'[q]) <= 2
                 /\ step'[q] \in {"read", "update", "history"} => todo'[q] # <<>>
                 /\ step'[q] \in {"target", "current"} => step[q] = step'[q]
<1>1. todo[r] \in Seq(Update) /\ todo[r] # <<>> /\ Len(todo[r]) \in {1, 2}
  BY HeadTyped
<1>2. /\ Tail(todo[r]) \in Seq(Update)
      /\ Len(Tail(todo[r])) = Len(todo[r]) - 1
  BY <1>1
<1>3. Len(todo[r]) # 1 => Tail(todo[r]) # <<>>
  <2>1. Len(<<>>) = 0
    BY EmptySeq, Zenon
  <2>2. Len(todo[r]) # 1 => Len(Tail(todo[r])) # 0
    BY <1>1, <1>2
  <2> QED
    BY <2>1, <2>2, Zenon
<1>4. /\ todo' = [todo EXCEPT ![r] = Tail(@)]
      /\ step' = [step EXCEPT ![r] = IF Len(todo[r]) = 1 THEN "done" ELSE "read"]
  BY DEF MoveOn, Goto
<1>5. /\ todo'[r] = Tail(todo[r])
      /\ \A q \in Request \ {r} : todo'[q] = todo[q] /\ step'[q] = step[q]
      /\ step'[r] = IF Len(todo[r]) = 1 THEN "done" ELSE "read"
  BY <1>4 DEF TypeOK
<1>6. todo' \in [Request -> Seq(Update)]
  BY <1>2, <1>4 DEF TypeOK
<1> QED
  BY <1>1, <1>2, <1>3, <1>4, <1>5, <1>6 DEF TypeOK

LEMMA InitTyped ==
    ASSUME ProviderAssumption, Init PROVE TypeOK
<1>1. PICK priority \in [Provider -> Priorities] :
         rows = [p \in Provider |-> [priority |-> priority[p], active |-> TRUE, version |-> 1]]
  BY DEF Init
<1>2. rows \in [Provider -> Row]
  <2>1. \A p \in Provider : priority[p] \in Int
    BY ProviderAssumption
  <2>2. \A p \in Provider : [priority |-> priority[p], active |-> TRUE, version |-> 1] \in Row
    BY <2>1 DEF Row
  <2> QED
    BY <1>1, <2>2
<1>3. rows[Sns] \in Row
  BY <1>2, ProviderAssumption
<1>4. history \in [Provider -> SUBSET Row]
  BY <1>2 DEF Init
<1>5. todo \in [Request -> Seq(Update)] /\ \A r \in Request : Len(todo[r]) <= 2
  BY DEF Init
<1> QED
  BY <1>2, <1>3, <1>4, <1>5, ProviderAssumption DEF Init, TypeOK

LEMMA StepTyped ==
    ASSUME ProviderAssumption, TwoProviders, TypeOK, [Next]_vars PROVE TypeOK'
<1>1. CASE UNCHANGED vars
  BY <1>1 DEF TypeOK, vars, tables
<1>2. ASSUME NEW r \in Request, UpdateProviderByID(r) PROVE TypeOK'
  <2>1. PICK p \in Provider, c \in Change :
           todo' = [todo EXCEPT
               ![r] = <<[id |-> p, priority |-> c.priority, active |-> c.active]>>]
    BY <1>2 DEF UpdateProviderByID
  <2>2. [id |-> p, priority |-> c.priority, active |-> c.active] \in Update
    BY ProviderAssumption DEF Update
  <2>3. todo' \in [Request -> Seq(Update)]
    BY <2>1, <2>2 DEF TypeOK
  <2>4. \A q \in Request : Len(todo'[q]) <= 2 /\ (q # r => todo'[q] = todo[q])
                           /\ (q = r => todo'[q] # <<>>)
    BY <2>1 DEF TypeOK
  <2> QED
    BY <1>2, <2>3, <2>4 DEF UpdateProviderByID, TypeOK, Goto, tables
<1>3. ASSUME NEW r \in Request, ToggleSMSProvider(r) PROVE TypeOK'
  <2>1. PICK S \in Candidates : target' = [target EXCEPT ![r] = First(S)]
    BY <1>3 DEF ToggleSMSProvider
  <2>2. S \in SUBSET Provider /\ S # {}
    BY DEF Candidates, Active
  <2>3. First(S) \in Provider
    BY <2>2, FirstIsThere
  <2> QED
    BY <1>3, <2>1, <2>3 DEF ToggleSMSProvider, TypeOK, Goto, tables
<1>4. ASSUME NEW r \in Request, ReadTarget(r) PROVE TypeOK'
  <2>1. target[r] \in Provider
    BY <1>4 DEF ReadTarget, TypeOK
  <2> QED
    BY <1>4, <2>1 DEF ReadTarget, TypeOK, Goto, tables
<1>5. ASSUME NEW r \in Request, ReadCurrent(r) PROVE TypeOK'
  <2>1. CASE CurrentProvider \in {NoProvider, target[r]}
    BY <1>5, <2>1 DEF ReadCurrent, TypeOK, Goto, tables
  <2>2. CASE CurrentProvider \notin {NoProvider, target[r]}
    <3> DEFINE new == Exchange(base[r].priority, rows[CurrentProvider].priority)
               one == [id |-> target[r], priority |-> new[1], active |-> Keep]
               two == [id |-> CurrentProvider, priority |-> new[2], active |-> Keep]
    <3>1. CurrentProvider \in Provider /\ target[r] \in Provider
      BY <1>5, <2>2, CurrentIsProvider DEF ReadCurrent, TypeOK
    <3>2. base[r].priority \in Int /\ rows[CurrentProvider].priority \in Int
      BY <3>1 DEF TypeOK, Row
    <3>3. new[1] \in Int /\ new[2] \in Int
      BY <3>2, ExchangeOrders
    <3> HIDE DEF new
    <3>4. one \in Update /\ two \in Update
      BY <3>1, <3>3 DEF Update
    <3>5. todo' = [todo EXCEPT ![r] = <<one, two>>] /\ Goto(r, "read")
      BY <1>5, <2>2, Zenon DEF ReadCurrent, new
    <3> HIDE DEF one, two
    <3>6. <<one, two>> \in Seq(Update) /\ Len(<<one, two>>) = 2 /\ <<one, two>> # <<>>
      BY <3>4
    <3>7. todo' \in [Request -> Seq(Update)]
      BY <3>5, <3>6 DEF TypeOK
    <3>8. \A q \in Request : Len(todo'[q]) <= 2 /\ (q # r => todo'[q] = todo[q])
                             /\ (q = r => todo'[q] # <<>>)
      BY <3>5, <3>6 DEF TypeOK
    <3> QED
      BY <1>5, <3>5, <3>7, <3>8 DEF ReadCurrent, TypeOK, Goto, tables
  <2> QED
    BY <2>1, <2>2
<1>6. ASSUME NEW r \in Request, ReadRow(r) PROVE TypeOK'
  <2>1. rows[Head(todo[r]).id] \in Row
    BY <1>6, HeadTyped DEF ReadRow, TypeOK, About
  <2> QED
    BY <1>6, <2>1 DEF ReadRow, TypeOK, Goto, tables
<1>7. ASSUME NEW r \in Request, UpdateProvider(r) PROVE TypeOK'
  <2>1. Written(r) \in Row
    BY <1>7, WrittenTyped DEF UpdateProvider
  <2>2. rows' \in [Provider -> Row]
    BY <1>7, <2>1 DEF UpdateProvider, TypeOK
  <2>3. disturbed' \subseteq Request
    BY <1>7 DEF UpdateProvider, TypeOK, Underway
  <2> QED
    BY <1>7, <2>2, <2>3 DEF UpdateProvider, TypeOK, Goto
<1>8. ASSUME NEW r \in Request, InsertProviderHistory(r) PROVE TypeOK'
  <2>1. step[r] = "history" /\ MoveOn(r)
    BY <1>8 DEF InsertProviderHistory
  <2>2. Written(r) \in Row
    BY <2>1, WrittenTyped
  <2>3. history' \in [Provider -> SUBSET Row]
    BY <1>8, <2>2 DEF InsertProviderHistory, TypeOK
  <2> QED
    BY <1>8, <2>1, <2>3, MoveOnTyped DEF InsertProviderHistory, TypeOK
<1>9. ASSUME NEW r \in Request, HistoryConflict(r) PROVE TypeOK'
  BY <1>9 DEF HistoryConflict, TypeOK, Goto, tables
<1>10. ASSUME NEW r \in Request, Fail(r) PROVE TypeOK'
  <2>1. faults' \in 0 .. MaxFaults
    BY <1>10, ProviderAssumption DEF Fail, TypeOK
  <2> QED
    BY <1>10, <2>1 DEF Fail, TypeOK, Goto, tables
<1> QED
  BY <1>1, <1>2, <1>3, <1>4, <1>5, <1>6, <1>7, <1>8, <1>9, <1>10 DEF Next

-----------------------------------------------------------------------------
(* Each request has variables of its own.                                  *)

Step(r) ==
    \/ UpdateProviderByID(r)
    \/ ToggleSMSProvider(r)
    \/ ReadTarget(r) \/ ReadCurrent(r)
    \/ ReadRow(r) \/ UpdateProvider(r)
    \/ InsertProviderHistory(r) \/ HistoryConflict(r)
    \/ Fail(r)

LEMMA OthersStay ==
    ASSUME TypeOK, NEW r \in Request, Step(r), NEW q \in Request, q # r
    PROVE  /\ step'[q] = step[q] /\ todo'[q] = todo[q] /\ base'[q] = base[q]
           /\ target'[q] = target[q]
           /\ About(q)' = About(q) /\ Written(q)' = Written(q)
<1>1. step'[q] = step[q]
  BY DEF TypeOK, Step, UpdateProviderByID, ToggleSMSProvider, ReadTarget, ReadCurrent, ReadRow,
         UpdateProvider, InsertProviderHistory, HistoryConflict, Fail, MoveOn, Goto
<1>2. todo'[q] = todo[q]
  <2>1. CASE ReadCurrent(r)
    BY <2>1, Zenon DEF TypeOK, ReadCurrent
  <2>2. CASE ~ReadCurrent(r)
    BY <2>2 DEF TypeOK, Step, UpdateProviderByID, ToggleSMSProvider, ReadTarget, ReadRow,
         UpdateProvider, InsertProviderHistory, HistoryConflict, Fail, MoveOn
  <2> QED
    BY <2>1, <2>2
<1>3. base'[q] = base[q]
  BY DEF TypeOK, Step, UpdateProviderByID, ToggleSMSProvider, ReadTarget, ReadCurrent, ReadRow,
         UpdateProvider, InsertProviderHistory, HistoryConflict, Fail
<1>4. target'[q] = target[q]
  BY DEF TypeOK, Step, UpdateProviderByID, ToggleSMSProvider, ReadTarget, ReadCurrent, ReadRow,
         UpdateProvider, InsertProviderHistory, HistoryConflict, Fail
<1> QED
  BY <1>1, <1>2, <1>3, <1>4 DEF About, Written

\* Rows change where they are updated, histories where a row is inserted.
LEMMA TablesStay ==
    ASSUME NEW r \in Request, Step(r)
    PROVE  /\ ~UpdateProvider(r) => rows' = rows /\ disturbed' = disturbed
           /\ ~InsertProviderHistory(r) => history' = history
           /\ disturbed \subseteq disturbed'
BY DEF Step, UpdateProviderByID, ToggleSMSProvider, ReadTarget, ReadCurrent, ReadRow,
       UpdateProvider, InsertProviderHistory, HistoryConflict, Fail, tables

\* What r does to its own place in the program.
LEMMA OwnStep ==
    ASSUME TypeOK, NEW r \in Request, Step(r)
    PROVE  /\ step'[r] = "update" <=> ReadRow(r)
           /\ step'[r] = "history" <=> UpdateProvider(r)
           /\ step[r] = "history" => InsertProviderHistory(r) \/ HistoryConflict(r) \/ Fail(r)
<1>1. step \in [Request -> {"idle", "target", "current", "read", "update", "history",
                            "done", "failed"}]
  BY DEF TypeOK
<1> QED
  BY <1>1 DEF Step, UpdateProviderByID, ToggleSMSProvider, ReadTarget, ReadCurrent, ReadRow,
       UpdateProvider, InsertProviderHistory, HistoryConflict, Fail, MoveOn, Goto

-----------------------------------------------------------------------------
(* Versions are recorded, in hand or lost.                                 *)

\* p has had the version v, or a request may take it for a version of p.
Reached(p, v) ==
    \/ v <= rows[p].version
    \/ \E r \in Request :
          step[r] \in {"update", "history"} /\ About(r) = p /\ v <= base[r].version

\* A request is about to record that version.
InHand(p, v) == \E r \in Pending(p) : Written(r).version = v

\* The versions of p that are not accounted for are in L.
AccountedBy(p, L) ==
    \A v \in Nat \ {0} : Reached(p, v) => Recorded(p, v) \/ InHand(p, v) \/ v \in L

\* No more versions of a provider are lost than statements have failed.
Accounted ==
    \A p \in Provider : \E L \in SUBSET Nat :
        IsFiniteSet(L) /\ Cardinality(L) <= faults /\ AccountedBy(p, L)

\* A step that leaves the tables alone and loses no version in hand.
LEMMA ReadAccounts ==
    ASSUME TypeOK, NEW r \in Request, Step(r), NEW p \in Provider, NEW L, AccountedBy(p, L),
           ~UpdateProvider(r), step[r] # "history"
    PROVE  AccountedBy(p, L)'
<1> SUFFICES ASSUME NEW v \in Nat \ {0}, Reached(p, v)'
             PROVE  Recorded(p, v)' \/ InHand(p, v)' \/ v \in L
  BY DEF AccountedBy
<1>1. rows' = rows /\ history' = history
  BY TablesStay DEF InsertProviderHistory
<1>2. Reached(p, v)
  <2>1. CASE v <= rows'[p].version
    BY <1>1, <2>1 DEF Reached
  <2>2. ASSUME NEW q \in Request, step'[q] \in {"update", "history"}, About(q)' = p,
               v <= base'[q].version
        PROVE  Reached(p, v)
    <3>1. CASE q # r
      BY <2>2, <3>1, OthersStay DEF Reached
    <3>2. CASE q = r
      <4>1. ReadRow(r)
        BY <2>2, <3>2, OwnStep
      <4>2. base'[r] = rows[About(r)] /\ About(r)' = About(r)
        BY <4>1 DEF ReadRow, TypeOK, About
      <4> QED
        BY <2>2, <3>2, <4>2 DEF Reached
    <3> QED
      BY <3>1, <3>2
  <2> QED
    BY <2>1, <2>2 DEF Reached
<1>3. CASE Recorded(p, v)
  BY <1>1, <1>3 DEF Recorded
<1>4. CASE InHand(p, v)
  <2>1. PICK q \in Request : step[q] = "history" /\ About(q) = p /\ Written(q).version = v
    BY <1>4 DEF InHand, Pending, About
  <2>2. q # r
    BY <2>1
  <2> QED
    BY <2>1, <2>2, OthersStay DEF InHand, Pending, About
<1> QED
  BY <1>2, <1>3, <1>4 DEF AccountedBy

\* A row that was updated has its new version in hand.
LEMMA UpdateAccounts ==
    ASSUME TypeOK, NEW r \in Request, UpdateProvider(r),
           NEW p \in Provider, NEW L, AccountedBy(p, L)
    PROVE  AccountedBy(p, L)'
<1> SUFFICES ASSUME NEW v \in Nat \ {0}, Reached(p, v)'
             PROVE  Recorded(p, v)' \/ InHand(p, v)' \/ v \in L
  BY DEF AccountedBy
<1> DEFINE w == Written(r).version
<1>1. Step(r) /\ step[r] = "update" /\ history' = history
  BY DEF Step, UpdateProvider
<1>2. /\ w = base[r].version + 1 /\ base[r].version \in Nat /\ About(r) \in Provider
      /\ Written(r) \in Row
  BY <1>1, WrittenTyped, HeadTyped
<1>3. /\ step'[r] = "history" /\ About(r)' = About(r) /\ Written(r)' = Written(r)
      /\ base' = base
  BY DEF UpdateProvider, Goto, TypeOK, About, Written
<1>4. rows' = [rows EXCEPT ![About(r)] = Written(r)]
  BY DEF UpdateProvider, About
<1>5. Reached(p, v) \/ (p = About(r) /\ v = w)
  <2>1. CASE v <= rows'[p].version
    <3>1. CASE p # About(r)
      BY <1>4, <2>1, <3>1 DEF Reached, TypeOK
    <3>2. CASE p = About(r)
      <4>1. v <= base[r].version + 1
        BY <1>2, <1>4, <2>1, <3>2 DEF TypeOK
      <4>2. v <= base[r].version \/ v = w
        BY <1>2, <4>1
      <4> QED
        BY <1>1, <3>2, <4>2 DEF Reached
    <3> QED
      BY <3>1, <3>2
  <2>2. ASSUME NEW q \in Request, step'[q] \in {"update", "history"}, About(q)' = p,
               v <= base'[q].version
        PROVE  Reached(p, v)
    <3>1. CASE q # r
      BY <1>1, <2>2, <3>1, OthersStay DEF Reached
    <3>2. CASE q = r
      BY <1>1, <1>3, <2>2, <3>2 DEF Reached
    <3> QED
      BY <3>1, <3>2
  <2> QED
    BY <2>1, <2>2 DEF Reached
<1>6. CASE p = About(r) /\ v = w
  BY <1>3, <1>6 DEF InHand, Pending, About
<1>7. CASE Recorded(p, v)
  BY <1>1, <1>7 DEF Recorded
<1>8. CASE InHand(p, v)
  <2>1. PICK q \in Request : step[q] = "history" /\ About(q) = p /\ Written(q).version = v
    BY <1>8 DEF InHand, Pending, About
  <2>2. q # r
    BY <1>1, <2>1
  <2> QED
    BY <1>1, <2>1, <2>2, OthersStay DEF InHand, Pending, About
<1> QED
  BY <1>5, <1>6, <1>7, <1>8 DEF AccountedBy

\* A request that leaves its version behind has it recorded, or lost it.
LEMMA HistoryAccounts ==
    ASSUME TypeOK, NEW r \in Request, Step(r), step[r] = "history",
           NEW p \in Provider, NEW L, AccountedBy(p, L), NEW lost, lost = Written(r).version
    PROVE  /\ ~Fail(r) => AccountedBy(p, L)'
           /\ AccountedBy(p, L \cup {lost})'
<1>1. InsertProviderHistory(r) \/ HistoryConflict(r) \/ Fail(r)
  BY OwnStep
<1>2. rows' = rows /\ step'[r] \notin {"update", "history"}
  BY OwnStep, TablesStay DEF UpdateProvider, ReadRow, TypeOK
<1>3. About(r) \in Provider /\ Written(r) \in Row
  BY HeadTyped, WrittenTyped
<1>4. ASSUME NEW v \in Nat \ {0}, Reached(p, v)' PROVE Reached(p, v)
  BY <1>2, <1>4, OthersStay DEF Reached
<1>5. ASSUME NEW v \in Nat \ {0}, Recorded(p, v) PROVE Recorded(p, v)'
  <2>1. history[p] \subseteq history'[p]
    <3>1. CASE InsertProviderHistory(r)
      <4>1. history' = [history EXCEPT ![Head(todo[r]).id] = @ \cup {Written(r)}]
        BY <3>1 DEF InsertProviderHistory
      <4> QED
        BY <4>1 DEF TypeOK
    <3> QED
      BY <3>1, TablesStay
  <2> QED
    BY <1>5, <2>1 DEF Recorded
<1>6. ASSUME NEW v \in Nat \ {0}, InHand(p, v), ~InHand(p, v)'
      PROVE  p = About(r) /\ v = Written(r).version
  <2>1. PICK q \in Request : step[q] = "history" /\ About(q) = p /\ Written(q).version = v
    BY <1>6 DEF InHand, Pending, About
  <2>2. q = r
    BY <1>6, <2>1, OthersStay DEF InHand, Pending, About
  <2> QED
    BY <2>1, <2>2
<1>7. ~Fail(r) => \E h \in history'[About(r)] : h.version = Written(r).version
  <2>1. CASE InsertProviderHistory(r)
    <3>1. history'[About(r)] = history[About(r)] \cup {Written(r)}
      BY <1>3, <2>1 DEF InsertProviderHistory, TypeOK, About
    <3> QED
      BY <3>1
  <2>2. CASE HistoryConflict(r)
    BY <2>2 DEF HistoryConflict, Recorded, tables, About
  <2> QED
    BY <1>1, <2>1, <2>2
<1>8. ASSUME NEW v \in Nat \ {0}, ~Fail(r), p = About(r), v = Written(r).version
      PROVE  Recorded(p, v)'
  BY <1>7, <1>8 DEF Recorded
<1> QED
  BY <1>4, <1>5, <1>6, <1>8 DEF AccountedBy

\* A failure loses one version at most, any other step none.
LEMMA StepAccounts ==
    ASSUME ProviderAssumption, TypeOK, NEW r \in Request, Step(r), Accounted
    PROVE  Accounted'
<1> SUFFICES ASSUME NEW p \in Provider
             PROVE  \E L \in SUBSET Nat :
                       IsFiniteSet(L) /\ Cardinality(L) <= faults' /\ AccountedBy(p, L)'
  BY DEF Accounted
<1>1. PICK L \in SUBSET Nat : IsFiniteSet(L) /\ Cardinality(L) <= faults /\ AccountedBy(p, L)
  BY DEF Accounted
<1>2. faults \in Nat /\ Cardinality(L) \in Nat
  BY <1>1, FS_CardinalityType DEF TypeOK
<1>3. faults' = IF Fail(r) THEN faults + 1 ELSE faults
  BY DEF Step, UpdateProviderByID, ToggleSMSProvider, ReadTarget, ReadCurrent, ReadRow,
         UpdateProvider, InsertProviderHistory, HistoryConflict, Fail
<1>4. CASE ~Fail(r) \/ step[r] # "history"
  <2>1. AccountedBy(p, L)'
    <3>1. CASE step[r] = "history"
      <4>1. \E lost : lost = Written(r).version
        OBVIOUS
      <4> QED
        BY <1>1, <1>4, <3>1, <4>1, HistoryAccounts
    <3>2. CASE step[r] # "history" /\ ~UpdateProvider(r)
      BY <1>1, <3>2, ReadAccounts
    <3>3. CASE UpdateProvider(r)
      BY <1>1, <3>3, UpdateAccounts
    <3> QED
      BY <3>1, <3>2, <3>3
  <2>2. Cardinality(L) <= faults'
    BY <1>1, <1>2, <1>3
  <2> QED
    BY <1>1, <2>1, <2>2
<1>5. CASE Fail(r) /\ step[r] = "history"
  <2>1. PICK lost : lost = Written(r).version
    OBVIOUS
  <2>2. lost \in Nat
    BY <1>5, <2>1, WrittenTyped DEF Row
  <2>3. AccountedBy(p, L \cup {lost})'
    BY <1>1, <1>5, <2>1, HistoryAccounts
  <2>4. IsFiniteSet(L \cup {lost}) /\ Cardinality(L \cup {lost}) <= Cardinality(L) + 1
    BY <1>1, <1>2, FS_AddElement
  <2>5. Cardinality(L \cup {lost}) \in Nat
    BY <2>4, FS_CardinalityType
  <2>6. Cardinality(L \cup {lost}) <= faults'
    BY <1>1, <1>2, <1>3, <1>5, <2>4, <2>5
  <2> QED
    BY <2>2, <2>3, <2>4, <2>6
<1> QED
  BY <1>4, <1>5

\* Whoever counts the versions missing counts those in hand, and those lost.
LEMMA AccountedMeansRecorded ==
    ASSUME RequestsAreFinite, TypeOK, Accounted PROVE VersionsAreRecorded
<1> DEFINE Missing(p) == {v \in 1 .. rows[p].version : ~Recorded(p, v)}
<1> SUFFICES ASSUME NEW p \in Provider
             PROVE  Cardinality(Missing(p)) <= Cardinality(Pending(p)) + faults
  BY DEF VersionsAreRecorded
<1>1. PICK L \in SUBSET Nat : IsFiniteSet(L) /\ Cardinality(L) <= faults /\ AccountedBy(p, L)
  BY DEF Accounted
<1> DEFINE Hand == {Written(r).version : r \in Pending(p)}
<1>2. IsFiniteSet(Pending(p))
  <2>1. Pending(p) \subseteq Request
    BY DEF Pending
  <2> QED
    BY <2>1, RequestsAreFinite, FS_Subset
<1>3. IsFiniteSet(Hand) /\ Cardinality(Hand) <= Cardinality(Pending(p))
  <2> DEFINE f == [r \in Pending(p) |-> Written(r).version]
  <2>1. f \in Surjection(Pending(p), Hand)
    BY DEF Surjection
  <2> HIDE DEF f, Hand
  <2> QED
    BY <1>2, <2>1, FS_Surjection
<1>4. Missing(p) \subseteq Hand \cup L
  <2> SUFFICES ASSUME NEW v \in Missing(p) PROVE v \in Hand \cup L
    OBVIOUS
  <2>1. v \in Nat \ {0} /\ v <= rows[p].version /\ ~Recorded(p, v)
    BY DEF TypeOK, Row
  <2>2. InHand(p, v) \/ v \in L
    BY <1>1, <2>1 DEF AccountedBy, Reached
  <2> QED
    BY <2>2 DEF InHand
<1> HIDE DEF Hand, Missing
<1>5. /\ IsFiniteSet(Hand \cup L)
      /\ Cardinality(Hand \cup L) = Cardinality(Hand) + Cardinality(L) - Cardinality(Hand \cap L)
  BY <1>1, <1>3, FS_Union
<1>6. IsFiniteSet(Missing(p)) /\ Cardinality(Missing(p)) <= Cardinality(Hand \cup L)
  BY <1>4, <1>5, FS_Subset
<1>7. /\ Cardinality(Hand) \in Nat /\ Cardinality(L) \in Nat
      /\ Cardinality(Hand \cap L) \in Nat /\ Cardinality(Pending(p)) \in Nat
      /\ Cardinality(Missing(p)) \in Nat /\ Cardinality(Hand \cup L) \in Nat
  BY <1>1, <1>2, <1>3, <1>5, <1>6, FS_Intersection, FS_CardinalityType
<1>8. faults \in Nat
  BY DEF TypeOK
<1> QED
  BY <1>1, <1>3, <1>5, <1>6, <1>7, <1>8

-----------------------------------------------------------------------------
(* What a request nobody disturbed knows.                                  *)

\* The row is the one it read, and then the one it wrote.
Knows(r) ==
    /\ step[r] = "update" => rows[About(r)] = base[r]
    /\ step[r] = "history" => rows[About(r)] = Written(r)

OwnRows == \A r \in Request \ disturbed : Knows(r)

\* While no two requests met and no statement failed, histories end in their
\* rows, and one request at most is between its row and its history.
Calm ==
    disturbed = {} /\ faults = 0 =>
        /\ \A p \in Provider : \A h \in history[p] : h.version <= rows[p].version
        /\ \A p \in Provider : rows[p] \in history[p] \/ Pending(p) # {}
        /\ \A r \in Request : step[r] = "history" =>
              ~Recorded(About(r), Written(r).version)
        /\ \A q, r \in Request : step[q] = "history" /\ step[r] = "history" => q = r

\* An update disturbs whoever has read something.
LEMMA UpdateDisturbs ==
    ASSUME NEW r \in Request, UpdateProvider(r), NEW q \in Request \ disturbed', q # r
    PROVE  step[q] \notin {"current", "read", "update", "history"}
BY DEF UpdateProvider, Underway

LEMMA StepKeepsOwnRows ==
    ASSUME TypeOK, OwnRows, NEW r \in Request, Step(r)
    PROVE  OwnRows'
<1> SUFFICES ASSUME NEW q \in Request \ disturbed' PROVE Knows(q)'
  BY DEF OwnRows
<1>1. q \in Request \ disturbed /\ Knows(q)
  BY TablesStay DEF OwnRows
<1>2. CASE q # r /\ ~UpdateProvider(r)
  BY <1>1, <1>2, OthersStay, TablesStay DEF Knows
<1>3. CASE q # r /\ UpdateProvider(r)
  <2>1. step[q] \notin {"update", "history"} /\ step'[q] = step[q]
    BY <1>3, UpdateDisturbs, OthersStay
  <2> QED
    BY <2>1 DEF Knows
<1>4. CASE q = r /\ ReadRow(r)
  <2>1. base'[r] = rows[About(r)] /\ About(r)' = About(r) /\ rows' = rows
    BY <1>4 DEF ReadRow, TypeOK, About, tables
  <2>2. step'[r] # "history"
    BY <1>4, OwnStep DEF ReadRow, UpdateProvider
  <2> QED
    BY <1>4, <2>1, <2>2 DEF Knows
<1>5. CASE q = r /\ UpdateProvider(r)
  <2>1. About(r) \in Provider
    BY <1>5, HeadTyped DEF UpdateProvider
  <2>2. rows'[About(r)] = Written(r)
    BY <1>5, <2>1 DEF UpdateProvider, TypeOK, About
  <2>3. About(r)' = About(r) /\ Written(r)' = Written(r) /\ step'[r] = "history"
    BY <1>5 DEF UpdateProvider, Goto, TypeOK, About, Written
  <2> QED
    BY <1>5, <2>2, <2>3 DEF Knows
<1>6. CASE q = r /\ ~ReadRow(r) /\ ~UpdateProvider(r)
  BY <1>6, OwnStep DEF Knows
<1> QED
  BY <1>2, <1>3, <1>4, <1>5, <1>6

LEMMA StepKeepsCalm ==
    ASSUME TypeOK, OwnRows, Calm, NEW r \in Request, Step(r)
    PROVE  Calm'
<1> SUFFICES ASSUME disturbed' = {}, faults' = 0
             PROVE  /\ \A p \in Provider : \A h \in history'[p] : h.version <= rows'[p].version
                    /\ \A p \in Provider : rows'[p] \in history'[p] \/ Pending(p)' # {}
                    /\ \A q \in Request : step'[q] = "history" =>
                          ~Recorded(About(q), Written(q).version)'
                    /\ \A p, q \in Request :
                          step'[p] = "history" /\ step'[q] = "history" => p = q
  BY DEF Calm
<1>1. disturbed = {} /\ faults = 0 /\ ~Fail(r)
  <2>1. faults' = IF Fail(r) THEN faults + 1 ELSE faults
    BY DEF Step, UpdateProviderByID, ToggleSMSProvider, ReadTarget, ReadCurrent, ReadRow,
           UpdateProvider, InsertProviderHistory, HistoryConflict, Fail
  <2> QED
    BY <2>1, TablesStay DEF TypeOK
<1>2. /\ \A p \in Provider : \A h \in history[p] : h.version <= rows[p].version
      /\ \A p \in Provider : rows[p] \in history[p] \/ Pending(p) # {}
      /\ \A q \in Request : step[q] = "history" => ~Recorded(About(q), Written(q).version)
      /\ \A p, q \in Request : step[p] = "history" /\ step[q] = "history" => p = q
      /\ \A q \in Request : Knows(q)
  BY <1>1 DEF Calm, OwnRows
<1>3. CASE UpdateProvider(r)
  <2> DEFINE a == About(r)
  <2>1. a \in Provider /\ Written(r) \in Row /\ Written(r).version = base[r].version + 1
        /\ base[r].version \in Nat
    BY <1>3, HeadTyped, WrittenTyped DEF UpdateProvider
  <2>2. rows[a] = base[r]
    BY <1>2, <1>3 DEF Knows, UpdateProvider
  <2>3. /\ rows' = [rows EXCEPT ![a] = Written(r)] /\ history' = history
        /\ step'[r] = "history" /\ About(r)' = a /\ Written(r)' = Written(r)
    BY <1>3 DEF UpdateProvider, Goto, TypeOK, About, Written
  <2>4. \A q \in Request : q # r => step'[q] # "history"
    BY <1>3, UpdateDisturbs, OthersStay DEF Step
  <2>5. \A p \in Provider : \A h \in history[p] : h.version \in Nat
    BY DEF TypeOK, Row
  <2>6. \A h \in history[a] : h.version <= base[r].version
    BY <1>2, <2>1, <2>2
  <2> HIDE DEF a
  <2>7. \A p \in Provider : \A h \in history'[p] : h.version <= rows'[p].version
    <3> SUFFICES ASSUME NEW p \in Provider, NEW h \in history[p]
                 PROVE  h.version <= rows'[p].version
      BY <2>3
    <3>1. CASE p = a
      BY <2>1, <2>3, <2>5, <2>6, <3>1 DEF TypeOK
    <3>2. CASE p # a
      BY <1>2, <2>3, <3>2 DEF TypeOK
    <3> QED
      BY <3>1, <3>2
  <2>8. \A p \in Provider : rows'[p] \in history'[p] \/ Pending(p)' # {}
    <3> SUFFICES ASSUME NEW p \in Provider PROVE rows'[p] \in history'[p] \/ Pending(p)' # {}
      OBVIOUS
    <3>1. CASE p = a
      BY <2>3, <3>1 DEF Pending, About, a
    <3>2. CASE p # a
      <4>1. rows'[p] = rows[p]
        BY <2>3, <3>2 DEF TypeOK
      <4>2. Pending(p) = {}
        <5>1. \A q \in Request : q # r => step[q] # "history"
          BY <2>4, <1>3, OthersStay DEF Step
        <5>2. step[r] # "history"
          BY <1>3 DEF UpdateProvider
        <5> QED
          BY <5>1, <5>2 DEF Pending
      <4> QED
        BY <1>2, <2>3, <4>1, <4>2
    <3> QED
      BY <3>1, <3>2
  <2>9. \A h \in history[a] : h.version # Written(r).version
    BY <2>1, <2>5, <2>6
  <2> QED
    BY <2>3, <2>4, <2>7, <2>8, <2>9 DEF Recorded
<1>4. CASE InsertProviderHistory(r)
  <2> DEFINE a == About(r)
  <2>1. a \in Provider /\ step[r] = "history"
    BY <1>4, HeadTyped DEF InsertProviderHistory
  <2>2. rows[a] = Written(r)
    BY <1>2, <2>1 DEF Knows
  <2>3. /\ rows' = rows /\ history' = [history EXCEPT ![a] = @ \cup {Written(r)}]
    BY <1>4 DEF InsertProviderHistory, About
  <2>4. \A q \in Request : step'[q] # "history"
    <3>1. step'[r] # "history"
      BY <1>4, OwnStep DEF InsertProviderHistory, UpdateProvider
    <3> QED
      BY <1>2, <2>1, <3>1, OthersStay
  <2> HIDE DEF a
  <2>5. \A p \in Provider : history'[p] = IF p = a THEN history[p] \cup {rows[p]} ELSE history[p]
    BY <2>1, <2>2, <2>3 DEF TypeOK
  <2>6. \A p \in Provider : rows[p].version <= rows[p].version
    BY DEF TypeOK, Row
  <2>7. \A p \in Provider : rows[p] \in history'[p]
    BY <1>2, <2>1, <2>5 DEF Pending, About, a
  <2> QED
    BY <1>2, <2>3, <2>4, <2>5, <2>6, <2>7
<1>5. CASE ~UpdateProvider(r) /\ ~InsertProviderHistory(r)
  <2>1. rows' = rows /\ history' = history /\ step'[r] # "history"
    BY <1>5, TablesStay, OwnStep
  <2>2. step[r] # "history"
    <3>1. ~HistoryConflict(r)
      BY <1>2 DEF HistoryConflict, About
    <3> QED
      BY <1>1, <1>5, <3>1, OwnStep
  <2>3. \A q \in Request :
           /\ step'[q] = "history" <=> step[q] = "history"
           /\ step[q] = "history" => About(q)' = About(q) /\ Written(q)' = Written(q)
    BY <2>1, <2>2, OthersStay
  <2>4. \A p \in Provider : Pending(p)' = Pending(p)
    BY <2>3 DEF Pending, About
  <2> QED
    BY <1>2, <2>1, <2>3, <2>4 DEF Recorded
<1> QED
  BY <1>3, <1>4, <1>5

-----------------------------------------------------------------------------
(* A switch nobody disturbs.                                               *)

Moved(p, n) == [id |-> p, priority |-> n, active |-> Keep]

\* What r will have done when both its updates are made: its target comes
\* before the other provider.
OnItsWay(r, t, c, m, n) ==
    /\ c \in Provider \ {t} /\ m \in Int /\ n \in Int /\ m < n
    /\ \/ todo[r] = <<Moved(t, m), Moved(c, n)>>
       \/ todo[r] = <<Moved(c, n)>> /\ rows[t].priority = m

\* A toggle that goes on knows that its target is active, and where to put it.
Plans(r) ==
    target[r] # NoProvider =>
        /\ step[r] # "idle"
        /\ step[r] = "current" => rows[target[r]] = base[r]
        /\ step[r] \in {"current", "read", "update", "history"} => rows[target[r]].active
        /\ step[r] \in {"read", "update", "history"} =>
              \E c, m, n : OnItsWay(r, target[r], c, m, n)

Planned == \A r \in Request \ disturbed : Plans(r)

\* The updates of a plan, one after the other.
LEMMA PlanUnfolds ==
    ASSUME NEW r \in Request, NEW c, NEW m, NEW n, OnItsWay(r, target[r], c, m, n)
    PROVE  \/ /\ todo[r] = <<Moved(target[r], m), Moved(c, n)>>
              /\ Len(todo[r]) = 2 /\ About(r) = target[r]
              /\ Head(todo[r]) = Moved(target[r], m) /\ Tail(todo[r]) = <<Moved(c, n)>>
           \/ /\ rows[target[r]].priority = m
              /\ Len(todo[r]) = 1 /\ About(r) = c /\ Head(todo[r]) = Moved(c, n)
<1> DEFINE one == Moved(target[r], m)  two == Moved(c, n)
<1>1. Len(<<one, two>>) = 2 /\ Head(<<one, two>>) = one /\ Tail(<<one, two>>) = <<two>>
  OBVIOUS
<1>2. Len(<<two>>) = 1 /\ Head(<<two>>) = two
  OBVIOUS
<1>3. one.id = target[r] /\ two.id = c
  BY DEF Moved
<1>4. \/ todo[r] = <<one, two>>
      \/ todo[r] = <<two>> /\ rows[target[r]].priority = m
  BY DEF OnItsWay
<1>5. CASE todo[r] = <<one, two>>
  BY <1>1, <1>3, <1>5, Zenon DEF About
<1>6. CASE todo[r] = <<two>> /\ rows[target[r]].priority = m
  BY <1>2, <1>3, <1>6, Zenon DEF About
<1> QED
  BY <1>4, <1>5, <1>6

\* The columns that an update of a plan writes.
LEMMA MovedWrites ==
    ASSUME ProviderAssumption, NEW r \in Request, NEW p, NEW n \in Int,
           Head(todo[r]) = Moved(p, n)
    PROVE  Written(r).priority = n /\ Written(r).active = base[r].active
BY ProviderAssumption DEF Written, Moved

LEMMA StepKeepsPlans ==
    ASSUME ProviderAssumption, TwoProviders, TypeOK, OwnRows, Planned, NEW r \in Request, Step(r)
    PROVE  Planned'
<1> SUFFICES ASSUME NEW q \in Request \ disturbed', target'[q] # NoProvider PROVE Plans(q)'
  BY DEF Planned, Plans
<1>1. q \in Request \ disturbed /\ Plans(q) /\ Knows(q)
  BY TablesStay DEF Planned, OwnRows
<1>2. CASE q # r
  <2>1. step'[q] = step[q] /\ todo'[q] = todo[q] /\ base'[q] = base[q] /\ target'[q] = target[q]
    BY <1>2, OthersStay
  <2>2. CASE UpdateProvider(r)
    <3>1. step[q] \notin {"current", "read", "update", "history"}
      BY <1>2, <2>2, UpdateDisturbs
    <3> QED
      BY <1>1, <2>1, <3>1 DEF Plans
  <2>3. CASE ~UpdateProvider(r)
    <3>1. rows' = rows
      BY <2>3, TablesStay
    <3> QED
      BY <1>1, <2>1, <3>1 DEF Plans, OnItsWay
  <2> QED
    BY <2>2, <2>3
<1>3. CASE q = r
  <2> USE <1>3
  <2>1. CASE UpdateProviderByID(r)
    <3>1. step[r] = "idle" /\ target'[r] = target[r]
      BY <2>1 DEF UpdateProviderByID
    <3> QED
      BY <1>1, <3>1 DEF Plans
  <2>2. CASE ToggleSMSProvider(r)
    <3>1. step'[r] = "target"
      BY <2>2 DEF ToggleSMSProvider, Goto, TypeOK
    <3> QED
      BY <3>1 DEF Plans
  <2>3. CASE ReadTarget(r)
    <3>1. /\ base'[r] = rows[target[r]] /\ rows' = rows /\ target' = target
          /\ step'[r] = IF rows[target[r]].active THEN "current" ELSE "done"
      BY <2>3 DEF ReadTarget, Goto, TypeOK, tables
    <3> QED
      BY <3>1 DEF Plans
  <2>4. CASE ReadCurrent(r)
    <3> DEFINE t == target[r]
               c == CurrentProvider
               new == Exchange(base[r].priority, rows[c].priority)
    <3>1. step[r] = "current" /\ rows' = rows /\ target' = target /\ base' = base
      BY <2>4 DEF ReadCurrent, tables
    <3>2. CASE c \in {NoProvider, t}
      <4>1. step'[r] = "done"
        BY <2>4, <3>2 DEF ReadCurrent, Goto, TypeOK
      <4> QED
        BY <4>1 DEF Plans
    <3>3. CASE c \notin {NoProvider, t}
      <4>1. c \in Provider \ {t} /\ t \in Provider
        BY <3>1, <3>3, CurrentIsProvider DEF TypeOK
      <4>2. base[r].priority \in Int /\ rows[c].priority \in Int
        BY <4>1 DEF TypeOK, Row
      <4>3. new[1] \in Int /\ new[2] \in Int /\ new[1] < new[2]
        BY <4>2, ExchangeOrders
      <4>4. todo'[r] = <<Moved(t, new[1]), Moved(c, new[2])>> /\ step'[r] = "read"
        <5> HIDE DEF new
        <5>1. todo' = [todo EXCEPT ![r] =
                  <<[id |-> t, priority |-> new[1], active |-> Keep],
                    [id |-> c, priority |-> new[2], active |-> Keep]>>] /\ Goto(r, "read")
          BY <2>4, <3>3, Zenon DEF ReadCurrent, new
        <5> QED
          BY <5>1 DEF Moved, Goto, TypeOK
      <4>5. rows[t].active
        BY <1>1, <3>1, <4>1, ProviderAssumption DEF Plans
      <4> HIDE DEF new, c
      <4>6. \E d, m, n : OnItsWay(r, t, d, m, n)'
        <5>1. PICK d, m, n : d = c /\ m = new[1] /\ n = new[2]
          OBVIOUS
        <5>2. t' = t
          BY <3>1
        <5> HIDE DEF t
        <5>3. OnItsWay(r, t, d, m, n)'
          BY <4>1, <4>3, <4>4, <5>1, <5>2 DEF OnItsWay, Moved
        <5> QED
          BY <5>3
      <4> QED
        BY <3>1, <4>4, <4>5, <4>6 DEF Plans
    <3> QED
      BY <3>2, <3>3
  <2>5. CASE ReadRow(r)
    <3>1. /\ step[r] = "read" /\ step'[r] = "update"
          /\ rows' = rows /\ target' = target /\ todo' = todo
      BY <2>5 DEF ReadRow, Goto, TypeOK, tables
    <3> QED
      BY <1>1, <3>1 DEF Plans, OnItsWay
  <2>6. CASE UpdateProvider(r)
    <3>1. /\ step[r] = "update" /\ step'[r] = "history" /\ target' = target /\ todo' = todo
          /\ rows' = [rows EXCEPT ![About(r)] = Written(r)]
      BY <2>6 DEF UpdateProvider, Goto, TypeOK, About
    <3>2. PICK c, m, n : OnItsWay(r, target[r], c, m, n)
      BY <1>1, <3>1 DEF Plans
    <3>3. target[r] \in Provider /\ rows[target[r]].active /\ rows[About(r)] = base[r]
      BY <1>1, <3>1 DEF Plans, Knows, TypeOK
    <3>4. Written(r).active = base[r].active
      BY <3>2, PlanUnfolds, MovedWrites DEF OnItsWay
    <3>5. rows'[target[r]].active
      BY <3>1, <3>3, <3>4 DEF TypeOK
    <3>6. OnItsWay(r, target[r], c, m, n)'
      <4>1. CASE todo[r] = <<Moved(target[r], m), Moved(c, n)>>
        BY <3>1, <3>2, <4>1 DEF OnItsWay
      <4>2. CASE todo[r] = <<Moved(c, n)>> /\ rows[target[r]].priority = m
        <5>1. About(r) = c /\ c # target[r]
          BY <3>2, <4>2 DEF About, Moved, OnItsWay
        <5>2. rows'[target[r]] = rows[target[r]]
          BY <3>1, <3>3, <5>1 DEF TypeOK
        <5> QED
          BY <3>1, <3>2, <4>2, <5>2 DEF OnItsWay
      <4> QED
        BY <3>2, <4>1, <4>2 DEF OnItsWay
    <3> QED
      BY <3>1, <3>5, <3>6 DEF Plans
  <2>7. CASE InsertProviderHistory(r)
    <3>1. /\ step[r] = "history" /\ target' = target /\ rows' = rows
          /\ todo'[r] = Tail(todo[r])
          /\ step'[r] = IF Len(todo[r]) = 1 THEN "done" ELSE "read"
      BY <2>7 DEF InsertProviderHistory, MoveOn, Goto, TypeOK
    <3>2. PICK c, m, n : OnItsWay(r, target[r], c, m, n)
      BY <1>1, <3>1 DEF Plans
    <3>3. CASE Len(todo[r]) = 1
      BY <3>1, <3>3 DEF Plans
    <3>4. CASE Len(todo[r]) = 2
      <4>1. About(r) = target[r] /\ Head(todo[r]) = Moved(target[r], m)
            /\ Tail(todo[r]) = <<Moved(c, n)>>
        <5>1. Len(todo[r]) # 1
          BY <3>4
        <5> QED
          BY <3>2, <5>1, PlanUnfolds, Zenon
      <4>2. rows[target[r]].priority = m
        BY <1>1, <3>1, <3>2, <4>1, MovedWrites DEF Knows, OnItsWay
      <4>3. OnItsWay(r, target[r], c, m, n)'
        BY <3>1, <3>2, <4>1, <4>2 DEF OnItsWay, Moved
      <4> QED
        BY <1>1, <3>1, <4>3 DEF Plans
    <3> QED
      BY <3>2, <3>3, <3>4, PlanUnfolds
  <2>8. CASE HistoryConflict(r) \/ Fail(r)
    <3>1. step'[r] = "failed"
      BY <2>8 DEF HistoryConflict, Fail, Goto, TypeOK
    <3> QED
      BY <3>1 DEF Plans
  <2> QED
    BY <2>1, <2>2, <2>3, <2>4, <2>5, <2>6, <2>7, <2>8 DEF Step
<1> QED
  BY <1>2, <1>3

\* The last update of a switch is the one of the other provider.
LEMMA SwitchEnds ==
    ASSUME ProviderAssumption, TwoProviders, TypeOK, TypeOK', OwnRows, Planned, NEW r \in Request, Step(r),
           NEW q \in Request \ disturbed, target[q] # NoProvider,
           step[q] = "history", step'[q] = "done"
    PROVE  CurrentProvider' = target[q]
<1> DEFINE t == target[q]
<1>1. q = r
  BY OthersStay
<1>2. InsertProviderHistory(r)
  <2>1. ~HistoryConflict(r) /\ ~Fail(r)
    BY <1>1 DEF HistoryConflict, Fail, Goto, TypeOK
  <2> QED
    BY <1>1, <2>1, OwnStep
<1>3. Len(todo[r]) = 1 /\ rows' = rows
  <2>1. step'[r] = IF Len(todo[r]) = 1 THEN "done" ELSE "read"
    BY <1>2 DEF InsertProviderHistory, MoveOn, Goto, TypeOK
  <2> QED
    BY <1>1, <1>2, <2>1 DEF InsertProviderHistory
<1>4. PICK c, m, n : OnItsWay(q, t, c, m, n)
  BY DEF Planned, Plans
<1>5. c \in Provider \ {t} /\ m < n /\ m \in Int /\ n \in Int
  BY <1>4 DEF OnItsWay
<1>6. rows[t].priority = m /\ About(q) = c /\ Head(todo[q]) = Moved(c, n)
  <2>1. Len(todo[q]) # 2
    BY <1>1, <1>3
  <2> QED
    BY <1>1, <1>4, <2>1, PlanUnfolds, Zenon
<1>7. rows[c].priority = n
  BY <1>5, <1>6, MovedWrites DEF OwnRows, Knows
<1>8. rows[t].active /\ t \in Provider
  BY DEF Planned, Plans, TypeOK
<1> HIDE DEF t
<1>9. t \in Active /\ Active \subseteq {t, c} /\ ~Before(c, t)
  BY <1>5, <1>6, <1>7, <1>8, TwoProviders DEF Active, Before
<1>10. First(Active) = t
  <2>1. First(Active) \in Active /\ \A p \in Active \ {First(Active)} : Before(First(Active), p)
    BY <1>9, FirstIsThere DEF Active
  <2> QED
    BY <1>9, <2>1
<1>11. CurrentProvider = t
  BY <1>9, <1>10 DEF CurrentProvider
<1>12. CurrentProvider' = CurrentProvider
  BY <1>3 DEF CurrentProvider, First, Active, Before
<1> QED
  BY <1>11, <1>12 DEF t

-----------------------------------------------------------------------------
(* The theorems.                                                           *)

IInv == TypeOK /\ Accounted /\ OwnRows /\ Calm /\ Planned

LEMMA Inductive ==
    ProviderAssumption /\ TwoProviders /\ RequestsAreFinite => (Spec => []IInv)
<1> SUFFICES ASSUME ProviderAssumption, TwoProviders, RequestsAreFinite PROVE Spec => []IInv
  OBVIOUS
<1>1. Init => IInv
  <2> SUFFICES ASSUME Init PROVE IInv
    OBVIOUS
  <2>1. TypeOK
    BY InitTyped
  <2>2. Accounted
    <3> SUFFICES ASSUME NEW p \in Provider PROVE AccountedBy(p, {})
      BY FS_EmptySet DEF Accounted, Init
    <3>1. rows[p].version = 1 /\ history[p] = {rows[p]}
      BY DEF Init
    <3> QED
      BY <3>1 DEF AccountedBy, Reached, Recorded, Init
  <2>3. OwnRows /\ Planned
    BY DEF Init, OwnRows, Knows, Planned, Plans
  <2>4. Calm
    <3>1. \A p \in Provider : history[p] = {rows[p]} /\ rows[p].version <= rows[p].version
      BY <2>1 DEF Init, TypeOK, Row
    <3> QED
      BY <3>1 DEF Init, Calm
  <2> QED
    BY <2>1, <2>2, <2>3, <2>4 DEF IInv
<1>2. IInv /\ [Next]_vars => IInv'
  <2> SUFFICES ASSUME IInv, [Next]_vars PROVE IInv'
    OBVIOUS
  <2>1. TypeOK'
    BY StepTyped DEF IInv
  <2>2. CASE UNCHANGED vars
    BY <2>1, <2>2 DEF IInv, vars, tables, Accounted, AccountedBy, Reached, Recorded, InHand,
       Pending, Written, About, OwnRows, Knows, Calm, Planned, Plans, OnItsWay
  <2>3. ASSUME NEW r \in Request, Step(r) PROVE IInv'
    BY <2>1, <2>3, StepAccounts, StepKeepsOwnRows, StepKeepsCalm, StepKeepsPlans DEF IInv
  <2> QED
    BY <2>2, <2>3 DEF Next, Step
<1> QED
  BY <1>1, <1>2, PTL DEF Spec

\* The variables keep their types, and so does the list of updates that a
\* request still has to make.
THEOREM TypeCorrect ==
    ProviderAssumption /\ TwoProviders /\ RequestsAreFinite => (Spec => []TypeOK)
<1>1. IInv => TypeOK
  BY DEF IInv
<1> QED
  BY <1>1, Inductive, PTL

\* However many requests overlap, the versions missing in the history are at
\* most those about to be recorded and one for each statement that failed.
THEOREM VersionsRecorded ==
    ProviderAssumption /\ TwoProviders /\ RequestsAreFinite => (Spec => []VersionsAreRecorded)
<1>1. IInv => VersionsAreRecorded
  BY RequestsAreFinite, AccountedMeansRecorded DEF IInv
<1> QED
  BY <1>1, Inductive, PTL

\* A row is in its history once its requests are over, unless requests met or
\* a statement failed.
THEOREM HistoryTells ==
    ProviderAssumption /\ TwoProviders /\ RequestsAreFinite => (Spec => []HistoryTellsRow)
<1>1. IInv => HistoryTellsRow
  <2> SUFFICES ASSUME IInv, NEW p \in Provider, disturbed = {}, ~(faults > 0), Pending(p) = {}
               PROVE  rows[p] \in history[p]
    BY DEF HistoryTellsRow
  <2>1. faults = 0
    BY DEF IInv, TypeOK
  <2> QED
    BY <2>1 DEF IInv, Calm
<1> QED
  BY <1>1, Inductive, PTL

\* The two blind updates of a switch leave its target in front, whatever the
\* priorities were, when nobody wrote in between.
THEOREM SwitchesTakeEffect ==
    ProviderAssumption /\ TwoProviders /\ RequestsAreFinite => (Spec => SwitchTakesEffect)
<1>1. IInv /\ IInv' /\ [Next]_vars =>
        [\A r \in Request \ disturbed :
            target[r] # NoProvider /\ step[r] = "history" /\ step'[r] = "done"
               => CurrentProvider' = target[r]]_vars
  <2> SUFFICES ASSUME IInv, IInv', [Next]_vars, NEW q \in Request \ disturbed,
                      target[q] # NoProvider, step[q] = "history", step'[q] = "done"
               PROVE  CurrentProvider' = target[q]
    OBVIOUS
  <2>1. PICK r \in Request : Step(r)
    BY DEF Next, Step, vars
  <2> QED
    BY <2>1, ProviderAssumption, TwoProviders, SwitchEnds DEF IInv
<1> QED
  BY <1>1, Inductive, PTL DEF Spec, SwitchTakesEffect

=============================================================================
