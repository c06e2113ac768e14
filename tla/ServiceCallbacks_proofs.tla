---------------------- MODULE ServiceCallbacks_proofs ----------------------
(***************************************************************************)
(* Proofs about ServiceCallbacks, for any callback types, ids, texts,      *)
(* processes and rollout of secrets.                                       *)
(***************************************************************************)
EXTENDS ServiceCallbacks, TLAPS

\* p has a row to write, and its id and the row.
Writes(p) == call[p].kind \in {"upsert", "insert"}
Its(p) == call[p].id
Held(p) == call[p].row

\* The row follows one that is recorded, or nobody else knows its id.
Follows(p) == \E h \in history : h.id = Its(p) /\ h.version + 1 = Held(p).version

IsNew(p) ==
    /\ call[p].kind = "insert"
    /\ \A h \in history : h.id # Its(p)
    /\ \A q \in Process \ {p} : Writes(q) => Its(q) # Its(p)

\* A row that is about to be written is recorded itself or newer than all that
\* is recorded of its id.
WriteIsNext ==
    \A p \in Process : Writes(p) =>
        /\ Follows(p) \/ IsNew(p)
        /\ \/ Recorded(Its(p), Held(p).version)
           \/ \A h \in history : h.id = Its(p) => h.version < Held(p).version

\* What a re-signing has read was recorded.
ResignsTheRecorded ==
    \A p \in Process : call[p].kind = "resign" =>
        \A u \in call[p].updates : \E h \in history : h.id = u.id /\ h.text = u.text

IInv ==
    /\ TypeOK
    /\ LiveIsNewest /\ TokenIsItsOwn
    /\ WriteIsNext /\ ResignsTheRecorded

-----------------------------------------------------------------------------
(* Types.                                                                  *)

\* Every process has secrets, and the first of them is one.
LEMMA CurrentIsSecret ==
    ASSUME TypeOK, NEW p \in Process
    PROVE  currentAPIKeySecret(p) \in Secret
<1>1. stage[p] \in 1 .. Len(Rollout)
  BY DEF TypeOK
<1>2. secrets(p) \in Seq(Secret) \ {<< >>}
  BY <1>1, CallbackAssumption DEF secrets
<1> QED
  BY <1>2 DEF currentAPIKeySecret

LEMMA CallTypes ==
    ASSUME TypeOK, NEW p \in Process
    PROVE  /\ Writes(p) => Its(p) \in Id /\ Held(p) \in Row
           /\ call[p].kind = "resign" => call[p].updates \subseteq Update /\ call[p].last \in BOOLEAN
           /\ call[p].kind \in {"idle", "upsert", "insert", "resign"}
  BY DEF TypeOK, Writes, Its, Held, Call, Idle

\* What a call takes in hand.
LEMMA HoldCalls ==
    ASSUME TypeOK, NEW p \in Process, NEW k \in {"upsert", "insert"}, NEW i \in Id, NEW r \in Row,
           Hold(p, k, i, r)
    PROVE  /\ call' \in [Process -> Call]
           /\ call'[p].kind = k /\ Writes(p)' /\ Its(p)' = i /\ Held(p)' = r
           /\ \A q \in Process : q # p => call'[q] = call[q]
<1>1. [kind |-> k, id |-> i, row |-> r] \in Call
  BY DEF Call
<1>2. call' \in [Process -> Call]
  BY <1>1 DEF Hold, TypeOK
<1>3. call'[p] = [kind |-> k, id |-> i, row |-> r] /\ \A q \in Process : q # p => call'[q] = call[q]
  BY DEF Hold, TypeOK
<1> QED
  BY <1>2, <1>3 DEF Writes, Its, Held

LEMMA NewIsRow ==
    ASSUME TypeOK, NEW p \in Process, NEW s \in Slot, NEW t \in Text
    PROVE  New(p, s, t, 1) \in Row
  BY CurrentIsSecret, CallbackAssumption DEF New, Row

\* The row that Reset and Suspend have in hand.
Changed(p, i, t, b) == [row[i] EXCEPT !.version = @ + 1, !.text = t, !.suspended = b,
                                    !.secret = currentAPIKeySecret(p)]

LEMMA ChangedIsRow ==
    ASSUME TypeOK, NEW p \in Process, NEW i \in Id, NEW t \in Text, NEW b \in BOOLEAN,
           Modify(p, i, t, b)
    PROVE  /\ Changed(p, i, t, b) \in Row /\ row[i] \in Row
           /\ Changed(p, i, t, b).version = row[i].version + 1
           /\ Changed(p, i, t, b).secret = currentAPIKeySecret(p)
           /\ Hold(p, "upsert", i, Changed(p, i, t, b))
<1> DEFINE sec == currentAPIKeySecret(p)
<1>1. row[i] \in Row /\ row[i].version < MaxVersion
  BY DEF TypeOK, Modify
<1>2. row[i].version + 1 \in 1 .. MaxVersion
  BY <1>1, CallbackAssumption DEF Row
<1>3. sec \in Secret
  BY CurrentIsSecret
<1>4. Hold(p, "upsert", i, Changed(p, i, t, b))
  BY DEF Modify, Changed
<1>5. Changed(p, i, t, b) = [row[i] EXCEPT !.version = @ + 1, !.text = t, !.suspended = b,
                                         !.secret = sec]
  BY DEF Changed
<1>6. Changed(p, i, t, b).secret = currentAPIKeySecret(p)
  <2> HIDE DEF sec
  <2>1. Changed(p, i, t, b).secret = sec
    BY <1>1, <1>5 DEF Row
  <2> QED
    BY <2>1 DEF sec
<1> HIDE DEF sec
<1>7. /\ Changed(p, i, t, b) = [slot |-> row[i].slot, version |-> row[i].version + 1, text |-> t,
                                secret |-> sec, suspended |-> b]
      /\ row[i].slot \in Slot
  BY <1>1, <1>5 DEF Row
<1>8. [slot |-> row[i].slot, version |-> row[i].version + 1, text |-> t, secret |-> sec,
       suspended |-> b] \in Row
  BY <1>2, <1>3, <1>7 DEF Row
<1> QED
  BY <1>1, <1>4, <1>6, <1>7, <1>8

LEMMA ModifyCalls ==
    ASSUME TypeOK, NEW p \in Process, NEW i \in Id, Reset(p, i) \/ Suspend(p, i)
    PROVE  \E t \in Text, b \in BOOLEAN : Modify(p, i, t, b)
<1>1. row[i] \in Row
  BY DEF TypeOK, Reset, Suspend
<1>2. row[i].text \in Text /\ row[i].suspended \in BOOLEAN
  BY <1>1 DEF Row
<1> QED
  BY <1>2, Zenon DEF Reset, Suspend

\* The row with which re-signing leaves i.
ResignedRow(p, i) ==
    IF row[i] # Absent /\ \E u \in call[p].updates : u.id = i
    THEN [row[i] EXCEPT !.secret = currentAPIKeySecret(p),
                        !.text = (CHOOSE u \in call[p].updates : u.id = i).text]
    ELSE row[i]

LEMMA ResignedIsRow ==
    ASSUME TypeOK, NEW p \in Process, call[p].kind = "resign", NEW i \in Id
    PROVE  /\ ResignedRow(p, i) \in Row \cup {Absent}
           /\ ResignedRow(p, i) = Absent <=> row[i] = Absent
           /\ row[i] # Absent =>
                 /\ ResignedRow(p, i).slot = row[i].slot
                 /\ ResignedRow(p, i).version = row[i].version
                 /\ \/ ResignedRow(p, i).text = row[i].text
                    \/ \E u \in call[p].updates : u.id = i /\ ResignedRow(p, i).text = u.text
<1>1. CASE row[i] # Absent /\ \E u \in call[p].updates : u.id = i
  <2>1. PICK u \in call[p].updates :
          u.id = i /\ u = (CHOOSE v \in call[p].updates : v.id = i)
    BY <1>1
  <2>2. row[i] \in Row /\ u \in Update
    BY <1>1, <2>1, CallTypes DEF TypeOK
  <2>3. ResignedRow(p, i) = [row[i] EXCEPT !.secret = currentAPIKeySecret(p), !.text = u.text]
    BY <1>1, <2>1 DEF ResignedRow
  <2>4. ResignedRow(p, i) \in Row
    BY <2>2, <2>3, CurrentIsSecret DEF Row, Update
  <2> QED
    BY <1>1, <2>1, <2>2, <2>3, <2>4, AbsentAssumption DEF Row
<1>2. CASE ~(row[i] # Absent /\ \E u \in call[p].updates : u.id = i)
  BY <1>2 DEF ResignedRow, TypeOK
<1> QED
  BY <1>1, <1>2

LEMMA InitIInv == Init => IInv
<1> SUFFICES ASSUME Init PROVE IInv
  OBVIOUS
<1>1. TypeOK
  <2>1. Len(Rollout) \in Nat /\ Len(Rollout) >= 1
    BY CallbackAssumption
  <2>2. stage \in [Process -> 1 .. Len(Rollout)]
    BY <2>1 DEF Init
  <2> QED
    BY <2>2 DEF Init, TypeOK, Call
<1>2. \A p \in Process : call[p].kind = "idle"
  BY DEF Init, Idle
<1> QED
  BY <1>1, <1>2 DEF Init, IInv, LiveIsNewest, TokenIsItsOwn, WriteIsNext, ResignsTheRecorded,
                    Writes

\* Whoever returns, or is restarted, no longer has a call.
LEMMA ReturnDrops ==
    ASSUME TypeOK, NEW p \in Process, Return(p), NEW q \in Process
    PROVE  /\ call'[q] = IF q = p THEN Idle ELSE call[q]
           /\ call'[q].kind # "idle" => call'[q] = call[q]
  BY DEF TypeOK, Return, Idle

\* A commit that is let through, and one that is not.
LEMMA CommitCases ==
    ASSUME NEW p \in Process, Commit(p)
    PROVE  /\ call[p].kind = "insert" /\ Writes(p) /\ Return(p) /\ UNCHANGED <<stage, rewritten>>
           /\ \/ UNCHANGED <<row, history>>
              \/ /\ Admits(Its(p), Held(p))
                 /\ row' = [row EXCEPT ![Its(p)] = Held(p)]
                 /\ history' = history \cup {HistoryOf(Its(p), Held(p))}
  BY DEF Commit, Writes, Its, Held

\* An upsert inserts the row in hand, or it is over.
LEMMA UpsertCases ==
    ASSUME NEW p \in Process, Upsert(p)
    PROVE  /\ call[p].kind = "upsert" /\ Writes(p) /\ UNCHANGED <<row, history, stage, rewritten>>
           /\ Hold(p, "insert", Its(p), Held(p)) \/ Return(p)
  BY DEF Upsert, Writes, Its, Held

LEMMA NextTypeOK == TypeOK /\ [Next]_vars => TypeOK'
<1> SUFFICES ASSUME TypeOK, [Next]_vars PROVE TypeOK'
  OBVIOUS
<1>1. ASSUME NEW p \in Process, Return(p)
      PROVE  call' \in [Process -> Call]
  BY <1>1 DEF TypeOK, Return, Call
<1>2. ASSUME NEW p \in Process, NEW s \in Slot, Save(p, s)
      PROVE  TypeOK'
  <2>1. PICK i \in Id, t \in Text : Hold(p, "insert", i, New(p, s, t, 1))
    BY <1>2 DEF Save
  <2>2. call' \in [Process -> Call]
    BY <2>1, NewIsRow, HoldCalls
  <2> QED
    BY <1>2, <2>2 DEF Save, TypeOK
<1>3. ASSUME NEW p \in Process, NEW i \in Id, Reset(p, i) \/ Suspend(p, i)
      PROVE  TypeOK'
  <2>1. PICK t \in Text, b \in BOOLEAN : Modify(p, i, t, b)
    BY <1>3, ModifyCalls
  <2>2. call' \in [Process -> Call]
    BY <2>1, ChangedIsRow, HoldCalls
  <2> QED
    BY <2>1, <2>2 DEF Modify, TypeOK
<1>4. ASSUME NEW p \in Process, Upsert(p)
      PROVE  TypeOK'
  <2>1. call' \in [Process -> Call]
    BY <1>1, <1>4, UpsertCases, CallTypes, HoldCalls
  <2> QED
    BY <1>4, <2>1 DEF Upsert, TypeOK
<1>5. ASSUME NEW p \in Process, Commit(p)
      PROVE  TypeOK'
  <2>1. Its(p) \in Id /\ Held(p) \in Row
    BY <1>5, CommitCases, CallTypes
  <2>2. HistoryOf(Its(p), Held(p)) \in Record
    BY <2>1 DEF HistoryOf, Row, Record
  <2>3. row' \in [Id -> Row \cup {Absent}] /\ history' \subseteq Record
    BY <1>5, <2>1, <2>2, CommitCases DEF TypeOK
  <2> QED
    BY <1>1, <1>5, <2>3 DEF Commit, TypeOK
<1>6. ASSUME NEW i \in Id, Delete(i)
      PROVE  TypeOK'
  BY <1>6 DEF Delete, TypeOK
<1>7. ASSUME NEW p \in Process, ResignRead(p)
      PROVE  TypeOK'
  <2>1. {[id |-> i, text |-> row[i].text] : i \in Stored} \subseteq Update
    BY CallbackAssumption DEF TypeOK, Stored, Row, Update
  <2>2. AllSignNew \in BOOLEAN
    BY DEF AllSignNew
  <2>3. [kind |-> "resign", last |-> AllSignNew,
         updates |-> {[id |-> i, text |-> row[i].text] : i \in Stored}] \in Call
    BY <2>1, <2>2 DEF Call
  <2>4. call' \in [Process -> Call]
    BY <1>7, <2>3 DEF ResignRead, TypeOK
  <2> QED
    BY <1>7, <2>4 DEF ResignRead, TypeOK
<1>8. ASSUME NEW p \in Process, ResignWrite(p)
      PROVE  TypeOK'
  <2>1. row' = [i \in Id |-> ResignedRow(p, i)] /\ call[p].kind = "resign"
    BY <1>8 DEF ResignWrite, ResignedRow
  <2>2. \A i \in Id : ResignedRow(p, i) \in Row \cup {Absent}
    BY <2>1, ResignedIsRow
  <2>3. row' \in [Id -> Row \cup {Absent}]
    BY <2>1, <2>2
  <2>4. rewritten' \in BOOLEAN
    BY <1>8, CallTypes DEF ResignWrite, TypeOK
  <2> QED
    BY <1>1, <1>8, <2>3, <2>4 DEF ResignWrite, TypeOK
<1>9. ASSUME NEW p \in Process, Deploy(p)
      PROVE  TypeOK'
  <2>1. stage' \in [Process -> 1 .. Len(Rollout)]
    BY <1>9, CallbackAssumption DEF Deploy, TypeOK
  <2> QED
    BY <1>1, <1>9, <2>1 DEF Deploy, TypeOK
<1>10. CASE UNCHANGED vars
  BY <1>10 DEF vars, TypeOK
<1> QED
  BY <1>2, <1>3, <1>4, <1>5, <1>6, <1>7, <1>8, <1>9, <1>10 DEF Next

-----------------------------------------------------------------------------
(* The rest of the invariant, one action at a time.                        *)

Rest == LiveIsNewest /\ TokenIsItsOwn /\ WriteIsNext /\ ResignsTheRecorded

\* Calls may only disappear while the tables stay as they are.
LEMMA DroppingCalls ==
    ASSUME IInv, UNCHANGED <<row, history>>,
           \A q \in Process : call'[q] = call[q] \/ call'[q].kind = "idle"
    PROVE  Rest'
<1>1. ASSUME NEW q \in Process, Writes(q)'
      PROVE  /\ Follows(q)' \/ IsNew(q)'
             /\ \/ Recorded(Its(q), Held(q).version)'
                \/ \A h \in history' : h.id = Its(q)' => h.version < Held(q)'.version
  <2>1. call'[q] = call[q] /\ Writes(q)
    BY <1>1 DEF Writes
  <2> QED
    BY <2>1 DEF IInv, WriteIsNext, Writes, Follows, IsNew, Its, Held, Recorded
<1>2. WriteIsNext'
  BY <1>1 DEF WriteIsNext
<1> QED
  BY <1>2 DEF IInv, Rest, LiveIsNewest, TokenIsItsOwn, ResignsTheRecorded, Recorded

\* A call may take a row in hand that follows what is recorded, or one under
\* an id that nobody knows.
LEMMA HoldKeeps ==
    ASSUME IInv, NEW p \in Process, NEW k \in {"upsert", "insert"}, NEW i \in Id, NEW r \in Row,
           Hold(p, k, i, r), UNCHANGED <<row, history>>,
           \/ /\ \E h \in history : h.id = i /\ h.version + 1 = r.version
              /\ Recorded(i, r.version) \/ \A h \in history : h.id = i => h.version < r.version
           \/ /\ k = "insert" /\ \A h \in history : h.id # i
              /\ \A q \in Process \ {p} : Writes(q) => Its(q) # i
    PROVE  Rest'
<1>1. /\ call'[p].kind = k /\ Writes(p)' /\ Its(p)' = i /\ Held(p)' = r
      /\ \A q \in Process : q # p => call'[q] = call[q]
  BY HoldCalls DEF IInv
<1>2. ASSUME NEW q \in Process \ {p}, Writes(q)'
      PROVE  /\ Follows(q)' \/ IsNew(q)'
             /\ \/ Recorded(Its(q), Held(q).version)'
                \/ \A h \in history' : h.id = Its(q)' => h.version < Held(q)'.version
  <2>1. call'[q] = call[q] /\ Writes(q) /\ Its(q)' = Its(q) /\ Held(q)' = Held(q)
    BY <1>1, <1>2 DEF Writes, Its, Held
  <2>2. /\ Follows(q) \/ IsNew(q)
        /\ Recorded(Its(q), Held(q).version)
              \/ \A h \in history : h.id = Its(q) => h.version < Held(q).version
    BY <2>1 DEF IInv, WriteIsNext
  <2>3. CASE Follows(q)
    BY <2>1, <2>2, <2>3 DEF Follows, Recorded
  <2>4. CASE IsNew(q)
    <3>1. Its(q) # i
      BY <2>1, <2>4 DEF IsNew
    <3>2. ASSUME NEW o \in Process \ {q}, Writes(o)'
          PROVE  Its(o)' # Its(q)
      <4>1. CASE o = p
        BY <1>1, <3>1, <4>1
      <4>2. CASE o # p
        <5>1. Writes(o) /\ Its(o)' = Its(o)
          BY <1>1, <3>2, <4>2 DEF Writes, Its
        <5> QED
          BY <2>4, <5>1 DEF IsNew
      <4> QED
        BY <4>1, <4>2
    <3>3. IsNew(q)'
      BY <2>1, <2>4, <3>2 DEF IsNew
    <3> QED
      BY <2>1, <2>2, <3>3 DEF Recorded
  <2> QED
    BY <2>2, <2>3, <2>4
<1>3. ASSUME NEW q \in Process \ {p}, Writes(q)'
      PROVE  Writes(q) /\ Its(q)' = Its(q)
  BY <1>1, <1>3 DEF Writes, Its
<1>4. /\ Follows(p)' \/ IsNew(p)'
      /\ \/ Recorded(Its(p), Held(p).version)'
         \/ \A h \in history' : h.id = Its(p)' => h.version < Held(p)'.version
  <2>1. CASE \E h \in history : h.id = i /\ h.version + 1 = r.version
    BY <1>1, <2>1 DEF Follows, Recorded
  <2>2. CASE ~ \E h \in history : h.id = i /\ h.version + 1 = r.version
    <3>1. /\ k = "insert" /\ \A h \in history : h.id # i
          /\ \A q \in Process \ {p} : Writes(q) => Its(q) # i
      BY <2>2
    <3>2. IsNew(p)'
      BY <1>1, <1>3, <3>1 DEF IsNew
    <3> QED
      BY <1>1, <3>1, <3>2
  <2> QED
    BY <2>1, <2>2
<1>5. WriteIsNext'
  BY <1>2, <1>4 DEF WriteIsNext
<1>6. ResignsTheRecorded'
  BY <1>1 DEF IInv, ResignsTheRecorded
<1> QED
  BY <1>5, <1>6 DEF IInv, Rest, LiveIsNewest, TokenIsItsOwn, Recorded

LEMMA SaveRest ==
    ASSUME IInv, NEW p \in Process, NEW s \in Slot, Save(p, s)
    PROVE  Rest'
<1>1. PICK i \in Id, t \in Text : Unused(i) /\ Hold(p, "insert", i, New(p, s, t, 1))
  BY DEF Save
<1>2. ASSUME NEW q \in Process, Writes(q)
      PROVE  Its(q) # i
  <2>1. CASE call[q].kind = "insert"
    BY <1>1, <2>1 DEF Unused, Its
  <2>2. CASE call[q].kind # "insert"
    BY <1>1, <1>2, <2>2 DEF IInv, WriteIsNext, Follows, IsNew, Unused
  <2> QED
    BY <2>1, <2>2
<1>3. \A h \in history : h.id # i
  BY <1>1 DEF Unused
<1>4. New(p, s, t, 1) \in Row /\ UNCHANGED <<row, history>>
  BY NewIsRow DEF IInv, Save
<1> QED
  BY <1>1, <1>2, <1>3, <1>4, HoldKeeps

LEMMA ModifyRest ==
    ASSUME IInv, NEW p \in Process, NEW i \in Id, NEW t \in Text, NEW b \in BOOLEAN,
           Modify(p, i, t, b)
    PROVE  Rest'
<1> DEFINE r == Changed(p, i, t, b)
<1>1. /\ r \in Row /\ r.version = row[i].version + 1 /\ Hold(p, "upsert", i, r)
      /\ row[i] \in Row /\ row[i] # Absent /\ UNCHANGED <<row, history>>
  BY ChangedIsRow DEF IInv, Modify
<1> HIDE DEF r
<1>2. PICK h \in history : h.id = i /\ h.version = row[i].version
  BY <1>1 DEF IInv, LiveIsNewest, Recorded
<1>3. row[i].version \in Nat /\ \A g \in history : g.version \in Nat
  BY <1>1, CallbackAssumption DEF IInv, TypeOK, Row, Record
<1>4. \A g \in history : g.id = i => g.version < r.version
  BY <1>1, <1>3 DEF IInv, LiveIsNewest
<1> QED
  BY <1>1, <1>2, <1>4, HoldKeeps

LEMMA UpsertRest ==
    ASSUME IInv, NEW p \in Process, Upsert(p)
    PROVE  Rest'
<1>1. /\ call[p].kind = "upsert" /\ Writes(p) /\ UNCHANGED <<row, history>>
      /\ Hold(p, "insert", Its(p), Held(p)) \/ Return(p)
  BY UpsertCases
<1>2. CASE Hold(p, "insert", Its(p), Held(p))
  <2>1. Its(p) \in Id /\ Held(p) \in Row
    BY <1>1, CallTypes DEF IInv
  <2>2. /\ \E h \in history : h.id = Its(p) /\ h.version + 1 = Held(p).version
        /\ Recorded(Its(p), Held(p).version)
              \/ \A h \in history : h.id = Its(p) => h.version < Held(p).version
    BY <1>1 DEF IInv, WriteIsNext, Follows, IsNew
  <2>3. PICK i \in Id, r \in Row : i = Its(p) /\ r = Held(p)
    BY <2>1
  <2> QED
    BY <1>1, <1>2, <2>2, <2>3, HoldKeeps
<1>3. CASE Return(p)
  BY <1>1, <1>3, ReturnDrops, DroppingCalls DEF IInv
<1> QED
  BY <1>1, <1>2, <1>3

\* What is committed is newer than all that is recorded of its id; a call that
\* holds the same id has read the same, and is recorded by it.
LEMMA CommitRest ==
    ASSUME IInv, NEW p \in Process, Commit(p)
    PROVE  Rest'
<1>1. /\ call[p].kind = "insert" /\ Writes(p) /\ Return(p)
      /\ Its(p) \in Id /\ Held(p) \in Row
  BY CommitCases, CallTypes DEF IInv
<1>2. \A q \in Process : /\ call'[q] = call[q] \/ call'[q].kind = "idle"
                         /\ call'[q].kind # "idle" => q # p
  BY <1>1, ReturnDrops DEF IInv, Idle
<1>3. CASE UNCHANGED <<row, history>>
  BY <1>2, <1>3, DroppingCalls
<1>4. CASE ~UNCHANGED <<row, history>>
  <2>1. PICK i \in Id, r \in Row : i = Its(p) /\ r = Held(p)
    BY <1>1
  <2>2. /\ ~Recorded(i, r.version)
        /\ row' = [row EXCEPT ![i] = r] /\ history' = history \cup {HistoryOf(i, r)}
    BY <1>4, <2>1, CommitCases DEF Admits
  <2>3. /\ \A h \in history : h.id = i => h.version < r.version
        /\ Follows(p) \/ IsNew(p)
    BY <1>1, <2>1, <2>2 DEF IInv, WriteIsNext
  <2>4. r # Absent /\ r.version \in Nat /\ \A h \in history : h.version \in Nat
    BY AbsentAssumption, CallbackAssumption DEF IInv, TypeOK, Row, Record
  <2>5. HistoryOf(i, r).id = i /\ HistoryOf(i, r).version = r.version /\ HistoryOf(i, r).text = r.text
    BY DEF HistoryOf
  <2>6. \A j \in Id : row'[j] = IF j = i THEN r ELSE row[j]
    BY <2>2 DEF IInv, TypeOK
  <2>7. LiveIsNewest'
    <3> SUFFICES ASSUME NEW j \in Id, row'[j] # Absent
                 PROVE  /\ \E h \in history' : h.id = j /\ h.version = row'[j].version
                        /\ \A h \in history' : h.id = j => h.version <= row'[j].version
      BY DEF LiveIsNewest, Recorded
    <3>1. CASE j = i
      BY <2>2, <2>3, <2>4, <2>5, <2>6, <3>1
    <3>2. CASE j # i
      BY <2>2, <2>5, <2>6, <3>2 DEF IInv, LiveIsNewest, Recorded
    <3> QED
      BY <3>1, <3>2
  <2>8. TokenIsItsOwn'
    BY <2>2, <2>5, <2>6 DEF IInv, TokenIsItsOwn
  <2>9. WriteIsNext'
    <3> SUFFICES ASSUME NEW q \in Process, Writes(q)'
                 PROVE  /\ Follows(q)' \/ IsNew(q)'
                        /\ \/ Recorded(Its(q), Held(q).version)'
                           \/ \A h \in history' : h.id = Its(q)' => h.version < Held(q)'.version
      BY DEF WriteIsNext
    <3>1. q # p /\ call'[q] = call[q] /\ Writes(q) /\ Its(q)' = Its(q) /\ Held(q)' = Held(q)
      BY <1>2 DEF Writes, Its, Held
    <3>2. /\ Follows(q) \/ IsNew(q)
          /\ Recorded(Its(q), Held(q).version)
                \/ \A h \in history : h.id = Its(q) => h.version < Held(q).version
      BY <3>1 DEF IInv, WriteIsNext
    <3>3. Follows(q) => Follows(q)'
      BY <2>2, <3>1 DEF Follows
    <3>4. CASE Its(q) # i
      <4>1. IsNew(q) => IsNew(q)'
        <5> SUFFICES ASSUME IsNew(q) PROVE IsNew(q)'
          OBVIOUS
        <5>1. \A h \in history' : h.id # Its(q)
          BY <2>2, <2>5, <3>4 DEF IsNew
        <5>2. \A o \in Process \ {q} : Writes(o)' => Its(o)' # Its(q)
          BY <1>2 DEF IsNew, Writes, Its
        <5> QED
          BY <3>1, <5>1, <5>2 DEF IsNew
      <4> QED
        BY <2>2, <2>5, <3>1, <3>2, <3>3, <3>4, <4>1 DEF Recorded
    <3>5. CASE Its(q) = i
      <4>1. Follows(q) /\ Follows(p)
        BY <1>1, <2>1, <2>3, <3>1, <3>2, <3>5 DEF IsNew
      <4>2. Recorded(i, Held(q).version) \/ Held(q).version = r.version
        <5>1. PICK g \in history : g.id = i /\ g.version + 1 = Held(q).version
          BY <3>5, <4>1 DEF Follows
        <5>2. PICK h \in history : h.id = i /\ h.version + 1 = r.version
          BY <2>1, <4>1 DEF Follows
        <5>3. CASE ~Recorded(i, Held(q).version)
          <6>1. h.version < Held(q).version /\ g.version < r.version
            BY <2>3, <3>2, <3>5, <5>1, <5>2, <5>3
          <6> QED
            BY <2>4, <5>1, <5>2, <6>1
        <5> QED
          BY <5>3
      <4>3. Recorded(i, Held(q).version)'
        BY <2>2, <2>5, <3>1, <4>2 DEF Recorded
      <4> QED
        BY <3>1, <3>3, <3>5, <4>1, <4>3 DEF Recorded
    <3> QED
      BY <3>4, <3>5
  <2>10. ResignsTheRecorded'
    BY <1>2, <2>2 DEF IInv, ResignsTheRecorded
  <2> QED
    BY <2>7, <2>8, <2>9, <2>10 DEF Rest
<1> QED
  BY <1>3, <1>4

LEMMA DeleteRest ==
    ASSUME IInv, NEW i \in Id, Delete(i)
    PROVE  Rest'
<1>1. /\ \A j \in Id : row'[j] = row[j] \/ row'[j] = Absent
      /\ UNCHANGED <<history, call>>
  BY DEF IInv, TypeOK, Delete
<1> QED
  BY <1>1 DEF IInv, Rest, LiveIsNewest, TokenIsItsOwn, WriteIsNext, ResignsTheRecorded,
              Writes, Follows, IsNew, Its, Held, Recorded

\* A process that reads for a re-signing, or is done with one, has no row in
\* hand before or after.
LEMMA OthersWrite ==
    ASSUME IInv, UNCHANGED history, NEW p \in Process, call[p] = Idle \/ call[p].kind = "resign",
           call'[p].kind \in {"idle", "resign"},
           \A q \in Process : q # p => call'[q] = call[q]
    PROVE  WriteIsNext'
<1>1. ~Writes(p) /\ ~Writes(p)'
  BY DEF Writes, Idle
<1>2. \A q \in Process : Writes(q)' => Writes(q) /\ call'[q] = call[q]
  BY <1>1 DEF Writes
<1>3. ASSUME NEW q \in Process, Writes(q)'
      PROVE  /\ Follows(q)' \/ IsNew(q)'
             /\ \/ Recorded(Its(q), Held(q).version)'
                \/ \A h \in history' : h.id = Its(q)' => h.version < Held(q)'.version
  <2>1. Writes(q) /\ call'[q] = call[q]
    BY <1>2, <1>3
  <2>2. \A o \in Process : Writes(o)' => Writes(o) /\ Its(o)' = Its(o)
    BY <1>2 DEF Its
  <2>3. IsNew(q) => IsNew(q)'
    BY <2>1, <2>2 DEF IsNew, Its
  <2> QED
    BY <2>1, <2>3 DEF IInv, WriteIsNext, Follows, Its, Held, Recorded
<1> QED
  BY <1>3 DEF WriteIsNext

LEMMA ResignReadRest ==
    ASSUME IInv, NEW p \in Process, ResignRead(p)
    PROVE  Rest'
<1>1. /\ call[p] = Idle /\ call'[p].kind = "resign"
      /\ call'[p].updates = {[id |-> i, text |-> row[i].text] : i \in Stored}
      /\ \A q \in Process : q # p => call'[q] = call[q]
      /\ UNCHANGED <<row, history>>
  BY DEF IInv, TypeOK, ResignRead
<1>2. \A u \in call'[p].updates : \E h \in history : h.id = u.id /\ h.text = u.text
  BY <1>1 DEF IInv, TokenIsItsOwn, Stored
<1>3. ResignsTheRecorded'
  BY <1>1, <1>2 DEF IInv, ResignsTheRecorded
<1>4. LiveIsNewest' /\ TokenIsItsOwn'
  BY <1>1 DEF IInv, LiveIsNewest, TokenIsItsOwn, Recorded
<1>5. WriteIsNext'
  BY <1>1, OthersWrite
<1> QED
  BY <1>3, <1>4, <1>5 DEF Rest

\* Re-signing does not change a version, and gives a row a text that was
\* recorded for its id.
LEMMA ResignWriteRest ==
    ASSUME IInv, NEW p \in Process, ResignWrite(p)
    PROVE  Rest'
<1>1. /\ row' = [i \in Id |-> ResignedRow(p, i)] /\ UNCHANGED history
      /\ call[p].kind = "resign" /\ Return(p)
  BY DEF ResignWrite, ResignedRow
<1>2. \A i \in Id :
         /\ row'[i] = Absent <=> row[i] = Absent
         /\ row[i] # Absent => row'[i].version = row[i].version
  BY <1>1, ResignedIsRow DEF IInv
<1>3. \A q \in Process : call'[q] = IF q = p THEN Idle ELSE call[q]
  BY <1>1, ReturnDrops DEF IInv
<1>4. LiveIsNewest'
  BY <1>1, <1>2 DEF IInv, LiveIsNewest, Recorded
<1>5. TokenIsItsOwn'
  <2> SUFFICES ASSUME NEW i \in Id, row[i] # Absent
               PROVE  \E h \in history : h.id = i /\ h.text = row'[i].text
    BY <1>1, <1>2 DEF TokenIsItsOwn
  <2>1. CASE row'[i].text = row[i].text
    BY <2>1 DEF IInv, TokenIsItsOwn
  <2>2. CASE \E u \in call[p].updates : u.id = i /\ row'[i].text = u.text
    BY <1>1, <2>2 DEF IInv, ResignsTheRecorded
  <2> QED
    BY <1>1, <2>1, <2>2, ResignedIsRow DEF IInv
<1>6. WriteIsNext'
  BY <1>1, <1>3, OthersWrite DEF Idle
<1>7. ResignsTheRecorded'
  BY <1>1, <1>3 DEF IInv, ResignsTheRecorded, Idle
<1> QED
  BY <1>4, <1>5, <1>6, <1>7 DEF Rest

LEMMA NextIInv == IInv /\ [Next]_vars => IInv'
<1> SUFFICES ASSUME IInv, [Next]_vars PROVE Rest'
  BY NextTypeOK DEF IInv, Rest
<1>1. ASSUME NEW p \in Process, NEW i \in Id, Reset(p, i) \/ Suspend(p, i)
      PROVE  Rest'
  BY <1>1, ModifyCalls, ModifyRest DEF IInv
<1>2. ASSUME NEW p \in Process, Deploy(p)
      PROVE  Rest'
  BY <1>2, ReturnDrops, DroppingCalls DEF Deploy, IInv
<1>3. CASE UNCHANGED vars
  BY <1>3, DroppingCalls DEF vars
<1> QED
  BY <1>1, <1>2, <1>3, SaveRest, UpsertRest, CommitRest, DeleteRest, ResignReadRest,
     ResignWriteRest DEF Next

-----------------------------------------------------------------------------
(* Rotating the secrets: the new one is accepted before any process signs  *)
(* with it, and the old one is accepted until none does.                   *)

Rotation(old, new) ==
    /\ old # new
    /\ Rollout = << <<old>>, <<old, new>>, <<new, old>>, <<new>> >>

\* No process runs ahead of another by more than one list.
Together == \A p, q \in Process : stage[p] <= stage[q] + 1

\* What is about to be written is signed with what its process signs with.
SignedAtOnce == \A p \in Process : Writes(p) => Held(p).secret = currentAPIKeySecret(p)

SignedWithEither(old, new) ==
    \A i \in Id : row[i] # Absent => row[i].secret \in {old, new}

\* Nothing signs with the new secret before every process accepts it.
NotTooEarly(old) ==
    (\E p \in Process : stage[p] = 1) => \A i \in Id : row[i] # Absent => row[i].secret = old

AllNew == \A p \in Process : stage[p] >= 3

\* The last re-signing has in hand every token that has the old secret.
LastHasTheRest(new) ==
    \A p \in Process : call[p].kind = "resign" /\ call[p].last =>
        /\ AllNew
        /\ \A i \in Stored : row[i].secret # new => \E u \in call[p].updates : u.id = i

RewrittenIsNew(new) ==
    rewritten => AllNew /\ \A i \in Stored : row[i].secret = new

\* The old secret is dropped only behind the last re-signing.
NotTooLate == (\E p \in Process : stage[p] = 4) => rewritten

RotInv(old, new) ==
    /\ Together /\ SignedAtOnce /\ NotTooLate
    /\ SignedWithEither(old, new) /\ NotTooEarly(old)
    /\ LastHasTheRest(new) /\ RewrittenIsNew(new)

LEMMA Stages ==
    ASSUME TypeOK, NEW old, NEW new, Rotation(old, new), NEW p \in Process
    PROVE  /\ stage[p] \in 1 .. 4
           /\ currentAPIKeySecret(p) = IF stage[p] \in {1, 2} THEN old ELSE new
           /\ stage[p] \in {2, 3} => Accepts(p, old) /\ Accepts(p, new)
           /\ stage[p] = 1 => Accepts(p, old)
           /\ stage[p] = 4 => Accepts(p, new)
<1>1. Len(Rollout) = 4
  BY DEF Rotation
<1>2. stage[p] \in 1 .. 4
  BY <1>1 DEF TypeOK
<1>3. CASE stage[p] = 1
  <2>1. secrets(p) = <<old>>
    BY <1>3 DEF Rotation, secrets
  <2> QED
    BY <1>2, <1>3, <2>1 DEF currentAPIKeySecret, Accepts
<1>4. CASE stage[p] = 2
  <2>1. secrets(p) = <<old, new>>
    BY <1>4 DEF Rotation, secrets
  <2>2. Len(secrets(p)) = 2 /\ secrets(p)[1] = old /\ secrets(p)[2] = new
    BY <2>1
  <2> QED
    BY <1>2, <1>4, <2>2 DEF currentAPIKeySecret, Accepts
<1>5. CASE stage[p] = 3
  <2>1. secrets(p) = <<new, old>>
    BY <1>5 DEF Rotation, secrets
  <2>2. Len(secrets(p)) = 2 /\ secrets(p)[1] = new /\ secrets(p)[2] = old
    BY <2>1
  <2> QED
    BY <1>2, <1>5, <2>2 DEF currentAPIKeySecret, Accepts
<1>6. CASE stage[p] = 4
  <2>1. secrets(p) = <<new>>
    BY <1>6 DEF Rotation, secrets
  <2> QED
    BY <1>2, <1>6, <2>1 DEF currentAPIKeySecret, Accepts
<1> QED
  BY <1>2, <1>3, <1>4, <1>5, <1>6

\* A row keeps its slot and its secret, or some process has signed it.
RowsMove ==
    \A i \in Id : row'[i] # Absent =>
        \/ row[i] # Absent /\ row'[i].slot = row[i].slot /\ row'[i].secret = row[i].secret
        \/ \E p \in Process : row'[i].secret = currentAPIKeySecret(p)

LEMMA CommitMoves ==
    ASSUME TypeOK, SignedAtOnce, NEW p \in Process, Commit(p)
    PROVE  RowsMove
<1>1. Held(p).secret = currentAPIKeySecret(p) /\ Its(p) \in Id
  BY CommitCases, CallTypes DEF SignedAtOnce
<1>2. \A i \in Id : row'[i] = row[i] \/ row'[i] = Held(p)
  BY <1>1, CommitCases DEF TypeOK
<1> QED
  BY <1>1, <1>2 DEF RowsMove

LEMMA ResignMoves ==
    ASSUME TypeOK, NEW p \in Process, ResignWrite(p)
    PROVE  /\ RowsMove
           /\ \A i \in Id : row'[i] # Absent =>
                 /\ row[i] # Absent /\ row'[i].slot = row[i].slot
                 /\ (\E u \in call[p].updates : u.id = i)
                        => row'[i].secret = currentAPIKeySecret(p)
                 /\ row'[i].secret \in {row[i].secret, currentAPIKeySecret(p)}
<1>1. /\ row' = [i \in Id |-> ResignedRow(p, i)] /\ call[p].kind = "resign"
  BY DEF ResignWrite, ResignedRow
<1>2. ASSUME NEW i \in Id, row'[i] # Absent
      PROVE  /\ row[i] # Absent /\ row'[i].slot = row[i].slot
             /\ (\E u \in call[p].updates : u.id = i)
                    => row'[i].secret = currentAPIKeySecret(p)
             /\ row'[i].secret \in {row[i].secret, currentAPIKeySecret(p)}
  <2>1. row'[i] = ResignedRow(p, i)
    BY <1>1
  <2>2. row[i] # Absent /\ row'[i].slot = row[i].slot
    BY <1>1, <1>2, <2>1, ResignedIsRow
  <2>3. row[i] \in Row
    BY <2>2 DEF TypeOK
  <2>4. CASE \E u \in call[p].updates : u.id = i
    <3> DEFINE tok == (CHOOSE u \in call[p].updates : u.id = i).text
               sec == currentAPIKeySecret(p)
    <3>1. row'[i] = [row[i] EXCEPT !.secret = sec, !.text = tok]
      BY <2>1, <2>2, <2>4 DEF ResignedRow
    <3> HIDE DEF tok, sec
    <3>2. row'[i].secret = sec
      BY <2>3, <3>1 DEF Row
    <3> QED
      BY <2>2, <3>2 DEF sec
  <2>5. CASE ~ \E u \in call[p].updates : u.id = i
    BY <2>1, <2>2, <2>5 DEF ResignedRow
  <2> QED
    BY <2>2, <2>4, <2>5
<1> QED
  BY <1>2 DEF RowsMove

\* What follows from signing as the processes do, while none is restarted.
LEMMA MovesKeep ==
    ASSUME TypeOK, NEW old, NEW new, Rotation(old, new), RotInv(old, new),
           RowsMove, UNCHANGED stage
    PROVE  /\ Together' /\ AllNew' = AllNew
           /\ SignedWithEither(old, new)' /\ NotTooEarly(old)'
           /\ rewritten' = rewritten => RewrittenIsNew(new)' /\ NotTooLate'
           /\ \A p \in Process :
                 call'[p] = call[p] /\ call[p].kind = "resign" /\ call[p].last =>
                    /\ AllNew'
                    /\ \A i \in Stored' : row'[i].secret # new =>
                          \E u \in call'[p].updates : u.id = i
<1>1. \A p \in Process : stage[p] \in 1 .. 4
          /\ currentAPIKeySecret(p) = IF stage[p] \in {1, 2} THEN old ELSE new
  BY Stages
<1>2. Together' /\ AllNew' = AllNew /\ (rewritten' = rewritten => NotTooLate')
  BY DEF RotInv, Together, AllNew, NotTooLate
<1>3. SignedWithEither(old, new)'
  BY <1>1 DEF RotInv, SignedWithEither, RowsMove
<1>4. NotTooEarly(old)'
  <2> SUFFICES ASSUME NEW q \in Process, stage[q] = 1, NEW i \in Id, row'[i] # Absent
               PROVE  row'[i].secret = old
    BY DEF NotTooEarly
  <2>1. \A p \in Process : stage[p] <= 2
    BY DEF RotInv, Together
  <2>2. \A p \in Process : currentAPIKeySecret(p) = old
    BY <1>1, <2>1
  <2> QED
    BY <2>2 DEF RotInv, NotTooEarly, RowsMove
<1>5. ASSUME AllNew, NEW i \in Stored', row'[i].secret # new
      PROVE  i \in Stored /\ row'[i].secret = row[i].secret
  <2>1. \A p \in Process : currentAPIKeySecret(p) = new
    BY <1>1, <1>5 DEF AllNew
  <2> QED
    BY <1>5, <2>1 DEF RowsMove, Stored
<1>6. rewritten' = rewritten => RewrittenIsNew(new)'
  BY <1>2, <1>5 DEF RotInv, RewrittenIsNew
<1>7. ASSUME NEW p \in Process, call'[p] = call[p], call[p].kind = "resign", call[p].last
      PROVE  /\ AllNew'
             /\ \A i \in Stored' : row'[i].secret # new =>
                   \E u \in call'[p].updates : u.id = i
  BY <1>2, <1>5, <1>7 DEF RotInv, LastHasTheRest
<1> QED
  BY <1>2, <1>3, <1>4, <1>6, <1>7

LEMMA NoNewCalls ==
    ASSUME TypeOK, NEW old, NEW new, Rotation(old, new), RotInv(old, new),
           RowsMove, UNCHANGED <<stage, rewritten>>,
           \A q \in Process : call'[q] = call[q] \/ call'[q].kind = "idle"
    PROVE  RotInv(old, new)'
<1>1. SignedAtOnce'
  BY DEF RotInv, SignedAtOnce, Writes, Held, currentAPIKeySecret, secrets
<1>2. LastHasTheRest(new)'
  BY MovesKeep DEF LastHasTheRest
<1> QED
  BY <1>1, <1>2, MovesKeep DEF RotInv

\* A call may take a row in hand that its process has signed.
LEMMA HoldsSigned ==
    ASSUME TypeOK, NEW old, NEW new, Rotation(old, new), RotInv(old, new),
           NEW p \in Process, NEW k \in {"upsert", "insert"}, NEW i \in Id, NEW r \in Row,
           Hold(p, k, i, r), r.secret = currentAPIKeySecret(p),
           UNCHANGED <<row, stage, rewritten>>
    PROVE  RotInv(old, new)'
<1>1. /\ call'[p].kind = k /\ Held(p)' = r
      /\ \A q \in Process : q # p => call'[q] = call[q]
  BY HoldCalls
<1>2. SignedAtOnce'
  BY <1>1 DEF RotInv, SignedAtOnce, Writes, Held, currentAPIKeySecret, secrets
<1>3. RowsMove
  BY DEF RowsMove
<1>4. LastHasTheRest(new)'
  BY <1>1, <1>3, MovesKeep DEF LastHasTheRest
<1> QED
  BY <1>2, <1>3, <1>4, MovesKeep DEF RotInv

LEMMA NextRotInv ==
    ASSUME TypeOK, NEW old, NEW new, Rotation(old, new), RotInv(old, new), [Next]_vars
    PROVE  RotInv(old, new)'
<1>1. ASSUME NEW p \in Process, NEW s \in Slot, Save(p, s)
      PROVE  RotInv(old, new)'
  <2>1. PICK i \in Id, t \in Text : Hold(p, "insert", i, New(p, s, t, 1))
    BY <1>1 DEF Save
  <2>2. New(p, s, t, 1) \in Row /\ New(p, s, t, 1).secret = currentAPIKeySecret(p)
    BY NewIsRow DEF New
  <2> QED
    BY <1>1, <2>1, <2>2, HoldsSigned DEF Save
<1>2. ASSUME NEW p \in Process, NEW i \in Id, Reset(p, i) \/ Suspend(p, i)
      PROVE  RotInv(old, new)'
  <2>1. PICK t \in Text, b \in BOOLEAN : Modify(p, i, t, b)
    BY <1>2, ModifyCalls
  <2> QED
    BY <2>1, ChangedIsRow, HoldsSigned DEF Modify
<1>3. ASSUME NEW p \in Process, Upsert(p) \/ Commit(p)
      PROVE  RotInv(old, new)'
  <2>1. CASE Commit(p)
    <3>1. RowsMove
      BY <2>1, CommitMoves DEF RotInv
    <3> QED
      BY <2>1, <3>1, CommitCases, ReturnDrops, NoNewCalls
  <2>2. CASE Upsert(p)
    <3>1. Writes(p) /\ Its(p) \in Id /\ Held(p) \in Row /\ UNCHANGED <<row, stage, rewritten>>
      BY <2>2, UpsertCases, CallTypes
    <3>2. CASE Hold(p, "insert", Its(p), Held(p))
      <4>1. PICK i \in Id, r \in Row : i = Its(p) /\ r = Held(p)
        BY <3>1
      <4>2. r.secret = currentAPIKeySecret(p)
        BY <3>1, <4>1 DEF RotInv, SignedAtOnce
      <4> QED
        BY <3>1, <3>2, <4>1, <4>2, HoldsSigned
    <3>3. CASE Return(p)
      <4>1. RowsMove
        BY <3>1 DEF RowsMove
      <4> QED
        BY <3>1, <3>3, <4>1, ReturnDrops, NoNewCalls
    <3> QED
      BY <2>2, <3>2, <3>3, UpsertCases
  <2> QED
    BY <1>3, <2>1, <2>2
<1>4. ASSUME NEW i \in Id, Delete(i)
      PROVE  RotInv(old, new)'
  <2>1. RowsMove
    BY <1>4 DEF Delete, TypeOK, RowsMove
  <2> QED
    BY <1>4, <2>1, NoNewCalls DEF Delete
<1>5. ASSUME NEW p \in Process, ResignRead(p)
      PROVE  RotInv(old, new)'
  <2>1. /\ call'[p].kind = "resign" /\ call'[p].last = AllSignNew
        /\ call'[p].updates = {[id |-> i, text |-> row[i].text] : i \in Stored}
        /\ \A q \in Process : q # p => call'[q] = call[q]
        /\ UNCHANGED <<row, stage, rewritten>>
    BY <1>5 DEF TypeOK, ResignRead
  <2>2. RowsMove
    BY <2>1 DEF RowsMove
  <2>3. SignedAtOnce'
    BY <2>1 DEF RotInv, SignedAtOnce, Writes, Held, currentAPIKeySecret, secrets
  <2>4. ASSUME AllSignNew
        PROVE  AllNew
    <3>1. Rollout[Len(Rollout)][1] = new
      BY DEF Rotation
    <3> QED
      BY <2>4, <3>1, Stages DEF AllSignNew, AllNew, Rotation
  <2>5. ASSUME NEW i \in Stored
        PROVE  \E u \in call'[p].updates : u.id = i
    <3> DEFINE v == [id |-> i, text |-> row[i].text]
    <3>1. v \in call'[p].updates /\ v.id = i
      BY <2>1
    <3> QED
      BY <3>1
  <2>6. LastHasTheRest(new)'
    <3> SUFFICES ASSUME NEW q \in Process, call'[q].kind = "resign", call'[q].last
                 PROVE  /\ AllNew'
                        /\ \A i \in Stored' : row'[i].secret # new =>
                              \E u \in call'[q].updates : u.id = i
      BY DEF LastHasTheRest
    <3>1. CASE q = p
      BY <2>1, <2>4, <2>5, <3>1 DEF AllNew, Stored
    <3>2. CASE q # p
      BY <2>1, <2>2, <3>2, MovesKeep
    <3> QED
      BY <3>1, <3>2
  <2> QED
    BY <2>1, <2>2, <2>3, <2>6, MovesKeep DEF RotInv
<1>6. ASSUME NEW p \in Process, ResignWrite(p)
      PROVE  RotInv(old, new)'
  <2>1. /\ call[p].kind = "resign" /\ Return(p) /\ UNCHANGED stage
        /\ rewritten' = (rewritten \/ call[p].last)
    BY <1>6 DEF ResignWrite
  <2>2. RowsMove
    BY <1>6, ResignMoves
  <2>3. \A q \in Process : call'[q] = call[q] \/ call'[q].kind = "idle"
    BY <2>1, ReturnDrops
  <2>4. CASE ~call[p].last
    <3>1. rewritten' = rewritten
      BY <2>1, <2>4, CallTypes DEF TypeOK
    <3> QED
      BY <2>1, <2>2, <2>3, <3>1, NoNewCalls
  <2>5. CASE call[p].last
    <3>1. AllNew
      BY <2>1, <2>5 DEF RotInv, LastHasTheRest
    <3>2. currentAPIKeySecret(p) = new
      BY <3>1, Stages DEF AllNew
    <3>3. ASSUME NEW i \in Stored'
          PROVE  row'[i].secret = new
      <4>1. i \in Id /\ row'[i] # Absent /\ row'[i].slot \in Resignable
        BY DEF Stored
      <4>2. /\ i \in Stored /\ row'[i].secret \in {row[i].secret, new}
            /\ (\E u \in call[p].updates : u.id = i) => row'[i].secret = new
        BY <1>6, <3>2, <4>1, ResignMoves DEF Stored
      <4> QED
        BY <2>1, <2>5, <4>2 DEF RotInv, LastHasTheRest
    <3>4. rewritten' = TRUE
      BY <2>1, <2>5, CallTypes DEF TypeOK
    <3>5. RewrittenIsNew(new)' /\ NotTooLate'
      BY <2>1, <3>1, <3>3, <3>4 DEF RewrittenIsNew, NotTooLate, AllNew
    <3>6. SignedAtOnce'
      BY <2>1, <2>3 DEF RotInv, SignedAtOnce, Writes, Held, currentAPIKeySecret, secrets
    <3>7. LastHasTheRest(new)'
      BY <2>1, <2>2, <2>3, MovesKeep DEF LastHasTheRest
    <3> QED
      BY <2>1, <2>2, <3>5, <3>6, <3>7, MovesKeep DEF RotInv
  <2> QED
    BY <2>4, <2>5
<1>7. ASSUME NEW p \in Process, Deploy(p)
      PROVE  RotInv(old, new)'
  <2>1. /\ \A q \in Process : stage[q] \in 1 .. 4
        /\ stage' = [stage EXCEPT ![p] = @ + 1] /\ UNCHANGED <<row, rewritten>>
        /\ \A q \in Process : stage[q] >= stage[p]
    BY <1>7, Stages DEF Deploy
  <2>2. \A q \in Process : stage'[q] = IF q = p THEN stage[p] + 1 ELSE stage[q]
    BY <2>1 DEF TypeOK
  <2>3. \A q \in Process : call'[q] = IF q = p THEN Idle ELSE call[q]
    BY <1>7, ReturnDrops DEF Deploy
  <2>4. Together'
    BY <2>1, <2>2 DEF RotInv, Together
  <2>5. SignedAtOnce'
    BY <2>2, <2>3 DEF RotInv, SignedAtOnce, Writes, Held, Idle, currentAPIKeySecret, secrets
  <2>6. AllNew => AllNew'
    BY <2>1, <2>2 DEF AllNew
  <2>7. SignedWithEither(old, new)' /\ RewrittenIsNew(new)'
    BY <2>1, <2>6 DEF RotInv, SignedWithEither, RewrittenIsNew, Stored
  <2>8. NotTooEarly(old)'
    BY <2>1, <2>2 DEF RotInv, NotTooEarly
  <2>9. LastHasTheRest(new)'
    BY <2>1, <2>3, <2>6 DEF RotInv, LastHasTheRest, Idle, Stored
  <2>10. NotTooLate'
    <3>1. ASSUME stage[p] = 3, ~rewritten
          PROVE  FALSE
      <4>1. secrets(p) = <<new, old>> /\ Rollout[stage[p] + 1] = <<new>>
        BY <3>1 DEF Rotation, secrets
      <4>2. Len(secrets(p)) = 2 /\ secrets(p)[2] = old
        BY <4>1
      <4>3. \E j \in 1 .. Len(Rollout[stage[p] + 1]) : Rollout[stage[p] + 1][j] = old
        BY <1>7, <3>1, <4>2 DEF Deploy
      <4>4. new = old
        BY <4>1, <4>3
      <4> QED
        BY <4>4 DEF Rotation
    <3> QED
      BY <2>1, <2>2, <3>1 DEF RotInv, NotTooLate
  <2> QED
    BY <2>4, <2>5, <2>7, <2>8, <2>9, <2>10 DEF RotInv
<1>8. CASE UNCHANGED vars
  <2>1. RowsMove
    BY <1>8 DEF vars, RowsMove
  <2> QED
    BY <1>8, <2>1, NoNewCalls DEF vars
<1> QED
  BY <1>1, <1>2, <1>3, <1>4, <1>5, <1>6, <1>7, <1>8 DEF Next

LEMMA InitRotInv ==
    ASSUME Init, NEW old, NEW new, Rotation(old, new)
    PROVE  RotInv(old, new)
<1>1. \A p \in Process : call[p].kind = "idle" /\ stage[p] = 1
  BY DEF Init, Idle
<1>2. ~rewritten /\ \A i \in Id : row[i] = Absent
  BY DEF Init
<1> QED
  BY <1>1, <1>2
  DEF RotInv, Together, SignedAtOnce, Writes, NotTooLate, SignedWithEither, NotTooEarly,
      LastHasTheRest, RewrittenIsNew

LEMMA RotInvReads ==
    ASSUME TypeOK, NEW old, NEW new, Rotation(old, new), RotInv(old, new)
    PROVE  TokensStayReadable
<1> SUFFICES ASSUME NEW i \in Stored, NEW p \in Process
             PROVE  Accepts(p, row[i].secret)
  BY DEF TokensStayReadable
<1>1. i \in Id /\ row[i] # Absent
  BY DEF Stored
<1>2. row[i].secret \in {old, new}
  BY <1>1 DEF RotInv, SignedWithEither
<1>3. stage[p] = 1 => row[i].secret = old
  BY <1>1 DEF RotInv, NotTooEarly
<1>4. stage[p] = 4 => row[i].secret = new
  BY DEF RotInv, NotTooLate, RewrittenIsNew
<1> QED
  BY <1>2, <1>3, <1>4, Stages

-----------------------------------------------------------------------------
(* The theorems.                                                           *)

\* The invariant that carries the others.
THEOREM Inductive == Spec => []IInv
  BY InitIInv, NextIInv, PTL DEF Spec

\* Types: a version never passes its bound.
THEOREM TypeCorrect == Spec => []TypeOK
  BY Inductive, PTL DEF IInv

\* Whatever calls overlap, a live row is the newest that is recorded of its id.
THEOREM LiveRowsAreNewest == Spec => []LiveIsNewest
  BY Inductive, PTL DEF IInv

\* No callback gets the token of another.
THEOREM TokensAreTheirOwn == Spec => []TokenIsItsOwn
  BY Inductive, PTL DEF IInv

\* A rotation in the order it needs: first the new secret is accepted, then it
\* signs, then the tokens are re-signed, then the old one is dropped.
RotatesInOrder == \E old, new \in Secret : Rotation(old, new)

\* Such a rotation leaves no process a token that it cannot read, however
\* restarts, saves, resets, suspensions and re-signings overlap.
THEOREM TokensReadable == RotatesInOrder => (Spec => []TokensStayReadable)
<1> SUFFICES ASSUME NEW old \in Secret, NEW new \in Secret, Rotation(old, new)
             PROVE  Spec => []TokensStayReadable
  BY DEF RotatesInOrder
<1>1. Init => RotInv(old, new)
  BY InitRotInv
<1>2. TypeOK /\ RotInv(old, new) /\ [Next]_vars => RotInv(old, new)'
  BY NextRotInv
<1>3. TypeOK /\ RotInv(old, new) => TokensStayReadable
  BY RotInvReads
<1> QED
  BY <1>1, <1>2, <1>3, TypeCorrect, PTL DEF Spec
=============================================================================
