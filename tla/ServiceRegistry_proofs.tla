----------------------- MODULE ServiceRegistry_proofs -----------------------
(***************************************************************************)
(* Proofs about ServiceRegistry, for any number of requests, keys and      *)
(* templates.  The argument: a request that has its version in hand holds  *)
(* the lock on the row, so that nobody else can put a version into the     *)
(* history; and as the history holds every version once, a request whose   *)
(* next version is not there yet has read the newest one.                  *)
(***************************************************************************)
EXTENDS ServiceRegistry, FiniteSetTheorems, TLAPS

\* At most one request has changed the row.
OneHolder == \A q, r \in Request : HoldsService(q) /\ HoldsService(r) => q = r

\* A request that got past the history still has the next version.
HoldersAreNext ==
    \A r \in Request : HoldsService(r) /\ step[r] # "history" => ~Overtaken(r)

\* What a request has read was once the row.
BasesAreHistory == \A r \in Request : base[r] \in history

IInv == TypeOK /\ HistoryIsComplete /\ BasesAreHistory /\ OneHolder /\ HoldersAreNext

-----------------------------------------------------------------------------

LEMMA NewRowTyped ==
    ASSUME TypeOK, NEW r \in Request
    PROVE  NewRow(r) \in Row /\ NewRow(r).version = base[r].version + 1
<1>1. /\ base[r].version \in Nat \ {0}
      /\ base[r].active \in BOOLEAN
      /\ base[r].named \in {"plain", "archived"}
  BY DEF TypeOK, Row
<1>2. \A v \in Nat \ {0}, a \in BOOLEAN, n \in {"plain", "archived"} :
         [version |-> v, active |-> a, named |-> n, by |-> r] \in Row
  BY DEF Row
<1>3. (IF op[r] = "update" THEN base[r].active ELSE op[r] = "resume") \in BOOLEAN
  <2>1. CASE op[r] = "update"
    BY <1>1, <2>1, Zenon
  <2>2. CASE op[r] # "update"
    <3>1. (op[r] = "resume") \in BOOLEAN
      BY Zenon
    <3> QED
      BY <2>2, <3>1, Zenon
  <2> QED
    BY <2>1, <2>2
<1>4. (IF op[r] = "archive" THEN "archived" ELSE base[r].named) \in {"plain", "archived"}
  BY <1>1
<1>5. base[r].version + 1 \in Nat \ {0}
  BY <1>1
<1>6. NewRow(r) \in Row
  BY <1>2, <1>3, <1>4, <1>5, Zenon DEF NewRow
<1>7. NewRow(r).version = base[r].version + 1
  BY Zenon DEF NewRow
<1> QED
  BY <1>6, <1>7

\* The initial state and every step keep the types.
LEMMA InitTyped == ASSUME RegistryAssumption, Init PROVE TypeOK
<1>1. FirstRow \in Row
  BY DEF FirstRow, Row
<1> QED
  BY <1>1 DEF Init, TypeOK, RegistryAssumption, RowOps, Ops

LEMMA StepTyped ==
    ASSUME RegistryAssumption, TypeOK, BasesAreHistory, [Next]_vars
    PROVE  TypeOK'
<1> SUFFICES ASSUME Next
             PROVE  TypeOK'
  BY DEF TypeOK, vars, tables, pending
<1> PICK r \in Request :
      \/ UpdateService(r) \/ SuspendService(r) \/ ResumeService(r) \/ ArchiveService(r)
      \/ \E k \in Key : RevokeAPIKey(r, k) \/ CreateAPIKey(r, k)
      \/ Proceed(r)
      \/ Fail(r)
  BY DEF Next
<1>1. CASE UpdateService(r) \/ SuspendService(r) \/ ResumeService(r) \/ ArchiveService(r)
  <2>1. history \subseteq Row /\ service \in Row
    BY DEF TypeOK
  <2>2. base' \in [Request -> Row]
    BY <1>1, <2>1 DEF UpdateService, SuspendService, ResumeService, ArchiveService, Read,
        TypeOK
  <2>3. /\ \E o \in RowOps : op' = [op EXCEPT ![r] = o]
        /\ \E s \in {"update", "done"} : step' = [step EXCEPT ![r] = s]
        /\ step[r] = "idle"
        /\ UNCHANGED <<tables, todo, revoked, retired, faults>>
    BY <1>1 DEF UpdateService, SuspendService, ResumeService, ArchiveService, Begin, Goto,
        RowOps
  <2> QED
    BY <2>2, <2>3 DEF TypeOK, tables, Ops
<1>2. CASE \E k \in Key : RevokeAPIKey(r, k)
  BY <1>2 DEF RevokeAPIKey, Begin, Goto, TypeOK, tables, Ops, RowOps
<1>3. CASE \E k \in Key : CreateAPIKey(r, k)
  BY <1>3 DEF CreateAPIKey, Begin, Goto, TypeOK, Ops, RowOps
<1>4. CASE UpdateRow(r) \/ InsertServicesHistory(r) \/ ListKeys(r) \/ KeysRevoked(r)
             \/ TemplatesArchived(r)
  BY <1>4 DEF UpdateRow, InsertServicesHistory, ListKeys, KeysRevoked, TemplatesArchived,
      LiveKeys, Goto, TypeOK, tables, pending
<1>5. CASE HistoryConflict(r) \/ Fail(r) \/ \E t \in Template : TemplateConflict(r, t)
  <2>1. RollBack(r) /\ faults' \in 0 .. MaxFaults
    BY <1>5 DEF HistoryConflict, Fail, TemplateConflict, TypeOK, RegistryAssumption
  <2>2. step' = [step EXCEPT ![r] = "failed"]
    BY <2>1 DEF RollBack, Goto
  <2>3. /\ todo' = [todo EXCEPT ![r] = {}]
        /\ revoked' = [revoked EXCEPT ![r] = {}]
        /\ retired' = [retired EXCEPT ![r] = {}]
        /\ UNCHANGED <<tables, op, base>>
    BY <2>1 DEF RollBack
  <2>4. /\ service \in Row
        /\ history \subseteq Row
        /\ keys \in [Key -> [version : Nat, revoked : BOOLEAN]]
        /\ keyHistory \in [Key -> SUBSET Nat]
        /\ archived \subseteq Template /\ recorded \subseteq Template
    BY DEF TypeOK
  <2>5. /\ op' \in [Request -> Ops \cup {"none"}]
        /\ base' \in [Request -> Row]
        /\ step' \in [Request -> {"idle", "update", "history", "keys", "revoke", "templates",
                                  "commit", "recordKey", "done", "failed"}]
    BY <2>2, <2>3 DEF TypeOK
  <2>6. /\ todo' \in [Request -> SUBSET Key]
        /\ revoked' \in [Request -> SUBSET Key]
        /\ retired' \in [Request -> SUBSET Template]
    BY <2>3 DEF TypeOK
  <2>7. \A q \in Request :
          /\ revoked'[q] # {} => step'[q] \in {"revoke", "templates", "commit"}
          /\ retired'[q] # {} => step'[q] \in {"templates", "commit"}
    BY <2>2, <2>3 DEF TypeOK
  <2> QED
    BY <2>1, <2>3, <2>4, <2>5, <2>6, <2>7 DEF TypeOK, tables
<1>6. CASE \E k \in Key : RevokeKey(r, k) \/ InsertAPIKeyHistory(r, k)
  <2>1. CASE \E k \in Key : RevokeKey(r, k)
    BY <2>1 DEF RevokeKey, TypeOK, tables
  <2>2. CASE \E k \in Key : InsertAPIKeyHistory(r, k)
    BY <2>2 DEF InsertAPIKeyHistory, Goto, TypeOK
  <2> QED
    BY <1>6, <2>1, <2>2
<1>7. CASE \E t \in Template : ArchiveTemplate(r, t)
  BY <1>7 DEF ArchiveTemplate, Remaining, TypeOK, tables
<1>8. CASE Commit(r)
  <2>1. NewRow(r) \in Row
    BY NewRowTyped
  <2>2. /\ service' \in Row
        /\ history' \subseteq Row
    BY <1>8, <2>1 DEF Commit, TypeOK
  <2>3. keys' \in [Key -> [version : Nat, revoked : BOOLEAN]]
    BY <1>8 DEF Commit, Committed, TypeOK
  <2>4. keyHistory' \in [Key -> SUBSET Nat]
    BY <1>8 DEF Commit, TypeOK
  <2>5. archived' \subseteq Template /\ recorded' \subseteq Template
    BY <1>8 DEF Commit, TypeOK
  <2> QED
    BY <1>8, <2>2, <2>3, <2>4, <2>5 DEF Commit, Goto, TypeOK
<1> QED
  BY <1>1, <1>2, <1>3, <1>4, <1>5, <1>6, <1>7, <1>8 DEF Proceed

\* A request that holds the row with its version in hand read the row as it is.
LEMMA HolderReadTheRow ==
    ASSUME IInv, NEW r \in Request, HoldsService(r), step[r] # "history"
    PROVE  base[r] = service
<1>1. base[r] \in history /\ service \in history /\ history \subseteq Row
  BY DEF IInv, BasesAreHistory, HistoryIsComplete, TypeOK
<1>2. base[r].version \in 1 .. service.version
  BY <1>1 DEF IInv, HistoryIsComplete
<1>3. base[r].version + 1 \notin 1 .. service.version
  <2>1. ~\E h \in history : h.version = base[r].version + 1
    BY DEF IInv, HoldersAreNext, Overtaken
  <2> QED
    BY <2>1 DEF IInv, HistoryIsComplete
<1>4. service.version \in Nat
  BY <1>1 DEF Row
<1>5. base[r].version = service.version
  BY <1>2, <1>3, <1>4
<1> QED
  BY <1>1, <1>5 DEF IInv, HistoryIsComplete

-----------------------------------------------------------------------------
(* Commit is the only step that touches the row and its history.           *)

LEMMA CommitKeepsHistory ==
    ASSUME IInv, NEW r \in Request, Commit(r), op[r] \in RowOps
    PROVE  /\ base[r] = service
           /\ service' = NewRow(r)
           /\ history' = history \cup {NewRow(r)}
           /\ HistoryIsComplete'
<1>1. HoldsService(r) /\ step[r] # "history"
  BY DEF Commit, HoldsService
<1>2. base[r] = service
  BY <1>1, HolderReadTheRow
<1>3. service' = NewRow(r) /\ history' = history \cup {NewRow(r)}
  BY DEF Commit
<1>4. NewRow(r) \in Row /\ NewRow(r).version = service.version + 1
  BY <1>2, NewRowTyped DEF IInv
<1>5. service.version \in Nat /\ history \subseteq Row
  BY DEF IInv, TypeOK, Row
<1>6. \A h \in history : h.version \in 1 .. service.version
  BY DEF IInv, HistoryIsComplete
<1>7. \A v \in 1 .. service.version : \E h \in history : h.version = v
  BY DEF IInv, HistoryIsComplete
<1>8. {h.version : h \in history'} = 1 .. service'.version
  <2>1. \A h \in history' : h.version \in 1 .. (service.version + 1)
    BY <1>3, <1>4, <1>5, <1>6
  <2>2. \A v \in 1 .. (service.version + 1) : \E h \in history' : h.version = v
    <3> TAKE v \in 1 .. (service.version + 1)
    <3>1. CASE v = service.version + 1
      BY <3>1, <1>3, <1>4
    <3>2. CASE v \in 1 .. service.version
      BY <3>2, <1>3, <1>7
    <3> QED
      BY <3>1, <3>2, <1>5
  <2> QED
    BY <2>1, <2>2, <1>3, <1>4
<1>9. \A g, h \in history' : g.version = h.version => g = h
  <2>1. \A h \in history : h.version # NewRow(r).version
    BY <1>4, <1>5, <1>6
  <2> QED
    BY <2>1, <1>3 DEF IInv, HistoryIsComplete
<1> QED
  BY <1>2, <1>3, <1>8, <1>9 DEF HistoryIsComplete

\* What every step but a commit of a new row leaves as it is.
LEMMA OthersKeepHistory ==
    ASSUME TypeOK, Next, ~\E r \in Request : Commit(r) /\ op[r] \in RowOps
    PROVE  UNCHANGED <<service, history>>
BY DEF Next, UpdateService, SuspendService, ResumeService, ArchiveService, RevokeAPIKey,
    CreateAPIKey, Proceed, Fail, UpdateRow, InsertServicesHistory, HistoryConflict, ListKeys,
    KeysRevoked, TemplatesArchived, RevokeKey, InsertAPIKeyHistory, ArchiveTemplate,
    TemplateConflict, Commit, RollBack, tables, TypeOK

LEMMA StepKeepsHistory ==
    ASSUME IInv, [Next]_vars
    PROVE  HistoryIsComplete' /\ history \subseteq history'
<1>1. CASE UNCHANGED <<service, history>>
  BY <1>1 DEF IInv, HistoryIsComplete
<1>2. CASE \E r \in Request : Commit(r) /\ op[r] \in RowOps
  BY <1>2, CommitKeepsHistory
<1> QED
  BY <1>1, <1>2, OthersKeepHistory DEF IInv, vars, tables

-----------------------------------------------------------------------------
(* The locks.                                                              *)

LEMMA StepKeepsBases ==
    ASSUME IInv, [Next]_vars, history \subseteq history'
    PROVE  BasesAreHistory'
<1>1. service \in history
  BY DEF IInv, HistoryIsComplete
<1>2. CASE UNCHANGED base
  BY <1>2 DEF IInv, BasesAreHistory
<1>3. CASE \E r \in Request : UpdateService(r) \/ SuspendService(r) \/ ResumeService(r)
                                \/ ArchiveService(r)
  BY <1>1, <1>3 DEF IInv, BasesAreHistory, TypeOK, UpdateService, SuspendService,
      ResumeService, ArchiveService, Read
<1>4. UNCHANGED base \/ \E r \in Request : UpdateService(r) \/ SuspendService(r)
                                             \/ ResumeService(r) \/ ArchiveService(r)
  BY DEF Next, RevokeAPIKey, CreateAPIKey, Proceed, Fail, UpdateRow,
      InsertServicesHistory, HistoryConflict, ListKeys, KeysRevoked, TemplatesArchived,
      RevokeKey, InsertAPIKeyHistory, ArchiveTemplate, TemplateConflict, Commit, RollBack,
      pending, vars
<1> QED
  BY <1>2, <1>3, <1>4

\* Who holds the row after a step held it before, and had then the same
\* version in hand, unless the step was the UPDATE or the INSERT itself.
LEMMA StepOfOne ==
    ASSUME TypeOK, NEW r \in Request,
           \/ UpdateService(r) \/ SuspendService(r) \/ ResumeService(r) \/ ArchiveService(r)
           \/ \E k \in Key : RevokeAPIKey(r, k) \/ CreateAPIKey(r, k)
           \/ Proceed(r)
           \/ Fail(r)
    PROVE  /\ \A q \in Request \ {r} :
                 step'[q] = step[q] /\ op'[q] = op[q] /\ base'[q] = base[q]
           /\ HoldsService(r)' =>
                 \/ HoldsService(r) /\ step[r] # "history" /\ base'[r] = base[r]
                       /\ UNCHANGED history
                 \/ InsertServicesHistory(r)
                 \/ UpdateRow(r)
<1>1. CASE UpdateService(r) \/ SuspendService(r) \/ ResumeService(r) \/ ArchiveService(r)
  BY <1>1 DEF UpdateService, SuspendService, ResumeService, ArchiveService, Begin, Read,
      Goto, TypeOK, HoldsService
<1>2. CASE \E k \in Key : RevokeAPIKey(r, k) \/ CreateAPIKey(r, k)
  BY <1>2 DEF RevokeAPIKey, CreateAPIKey, Begin, Goto, TypeOK, HoldsService, RowOps
<1>3. CASE InsertServicesHistory(r) \/ UpdateRow(r)
  BY <1>3 DEF InsertServicesHistory, UpdateRow, Goto, TypeOK, pending
<1>4. CASE ListKeys(r) \/ KeysRevoked(r) \/ TemplatesArchived(r)
  BY <1>4 DEF ListKeys, KeysRevoked, TemplatesArchived, Goto, TypeOK, HoldsService, pending,
      tables
<1>5. CASE HistoryConflict(r) \/ Fail(r) \/ \E t \in Template : TemplateConflict(r, t)
  BY <1>5 DEF HistoryConflict, Fail, TemplateConflict, RollBack, Goto, TypeOK, HoldsService
<1>6. CASE \E k \in Key : RevokeKey(r, k) \/ InsertAPIKeyHistory(r, k)
  BY <1>6 DEF RevokeKey, InsertAPIKeyHistory, Goto, TypeOK, HoldsService, tables
<1>7. CASE \E t \in Template : ArchiveTemplate(r, t)
  BY <1>7 DEF ArchiveTemplate, TypeOK, HoldsService, tables
<1>8. CASE Commit(r)
  BY <1>8 DEF Commit, Goto, TypeOK, HoldsService
<1> QED
  BY <1>1, <1>2, <1>3, <1>4, <1>5, <1>6, <1>7, <1>8 DEF Proceed

LEMMA StepKeepsLocks ==
    ASSUME IInv, [Next]_vars
    PROVE  OneHolder' /\ HoldersAreNext'
<1>1. CASE UNCHANGED vars
  BY <1>1 DEF IInv, OneHolder, HoldersAreNext, HoldsService, Overtaken, vars, tables, pending
<1> SUFFICES ASSUME Next
             PROVE  OneHolder' /\ HoldersAreNext'
  BY <1>1
<1> PICK r \in Request :
      \/ UpdateService(r) \/ SuspendService(r) \/ ResumeService(r) \/ ArchiveService(r)
      \/ \E k \in Key : RevokeAPIKey(r, k) \/ CreateAPIKey(r, k)
      \/ Proceed(r)
      \/ Fail(r)
  BY DEF Next
<1>2. \A q \in Request \ {r} :
         step'[q] = step[q] /\ op'[q] = op[q] /\ base'[q] = base[q]
  BY StepOfOne DEF IInv
<1>3. \A q \in Request \ {r} : HoldsService(q)' = HoldsService(q)
  BY <1>2 DEF HoldsService
<1>4. HoldsService(r)' =>
         \/ HoldsService(r) /\ step[r] # "history" /\ base'[r] = base[r]
               /\ UNCHANGED history
         \/ InsertServicesHistory(r)
         \/ UpdateRow(r)
  BY StepOfOne DEF IInv
<1>5. HoldsService(r)' /\ ~HoldsService(r) => UpdateRow(r)
  BY <1>4 DEF InsertServicesHistory, Goto, IInv, TypeOK, HoldsService
<1>6. OneHolder'
  BY <1>3, <1>5 DEF IInv, OneHolder, UpdateRow
<1>7. ASSUME NEW q \in Request, HoldsService(q)', step'[q] # "history"
      PROVE  ~Overtaken(q)'
  <2>1. CASE q = r
    <3>1. CASE UpdateRow(r)
      BY <2>1, <3>1, <1>7 DEF UpdateRow, Goto, IInv, TypeOK
    <3>2. CASE InsertServicesHistory(r)
      BY <2>1, <3>2 DEF InsertServicesHistory, Overtaken, tables, pending
    <3>3. CASE HoldsService(r) /\ step[r] # "history" /\ base'[r] = base[r]
                 /\ UNCHANGED history
      BY <2>1, <3>3 DEF IInv, HoldersAreNext, Overtaken
    <3> QED
      BY <2>1, <3>1, <3>2, <3>3, <1>4, <1>7
  <2>2. CASE q # r
    <3>1. HoldsService(q) /\ step[q] # "history" /\ base'[q] = base[q]
      BY <2>2, <1>2, <1>3, <1>7
    <3>2. ~\E p \in Request : Commit(p) /\ op[p] \in RowOps
      <4> SUFFICES ASSUME NEW p \in Request, Commit(p), op[p] \in RowOps
                   PROVE  FALSE
        OBVIOUS
      <4>1. HoldsService(p) /\ ~HoldsService(p)'
        BY DEF Commit, HoldsService, Goto, IInv, TypeOK
      <4>2. p = q
        BY <4>1, <3>1 DEF IInv, OneHolder
      <4> QED
        BY <4>1, <4>2, <1>7
    <3>3. UNCHANGED history
      BY <3>2, OthersKeepHistory DEF IInv
    <3> QED
      BY <3>1, <3>3 DEF IInv, HoldersAreNext, Overtaken
  <2> QED
    BY <2>1, <2>2
<1> QED
  BY <1>6, <1>7 DEF HoldersAreNext

-----------------------------------------------------------------------------

THEOREM Inductive == RegistryAssumption => (Spec => []IInv)
<1> SUFFICES ASSUME RegistryAssumption
             PROVE  Spec => []IInv
  OBVIOUS
<1>1. Init => IInv
  <2> SUFFICES ASSUME Init PROVE IInv
    OBVIOUS
  <2>1. TypeOK
    BY InitTyped
  <2>2. HistoryIsComplete
    BY DEF Init, HistoryIsComplete, FirstRow
  <2>3. BasesAreHistory /\ OneHolder /\ HoldersAreNext
    BY DEF Init, BasesAreHistory, OneHolder, HoldersAreNext, HoldsService
  <2> QED
    BY <2>1, <2>2, <2>3 DEF IInv
<1>2. IInv /\ [Next]_vars => IInv'
  <2> SUFFICES ASSUME IInv, [Next]_vars PROVE IInv'
    OBVIOUS
  <2>1. TypeOK'
    BY StepTyped DEF IInv
  <2>2. HistoryIsComplete' /\ history \subseteq history'
    BY StepKeepsHistory
  <2>3. BasesAreHistory'
    BY <2>2, StepKeepsBases
  <2>4. OneHolder' /\ HoldersAreNext'
    BY StepKeepsLocks
  <2> QED
    BY <2>1, <2>2, <2>3, <2>4 DEF IInv
<1> QED
  BY <1>1, <1>2, PTL DEF Spec

\* The variables keep their types: updates, histories and cascades included.
THEOREM TypeCorrect == RegistryAssumption => (Spec => []TypeOK)
<1>1. IInv => TypeOK
  BY DEF IInv
<1> QED
  BY <1>1, Inductive, PTL

\* However requests overlap, services_history holds every version of the
\* service exactly once, and the newest one is the row.
THEOREM HistoryComplete == RegistryAssumption => (Spec => []HistoryIsComplete)
<1>1. IInv => HistoryIsComplete
  BY DEF IInv
<1> QED
  BY <1>1, Inductive, PTL

\* The composite key of the history makes the blind UPDATE an optimistic lock:
\* a change is committed only onto the row it was made from.
THEOREM NoUpdateIsLost == RegistryAssumption => (Spec => NoLostUpdate)
<1>1. IInv /\ [Next]_vars =>
        [service' # service => \E r \in Request : step[r] = "commit" /\ base[r] = service]_vars
  <2> SUFFICES ASSUME IInv, [Next]_vars, service' # service
               PROVE  \E r \in Request : step[r] = "commit" /\ base[r] = service
    OBVIOUS
  <2>1. Next
    BY DEF vars, tables
  <2>2. PICK r \in Request : Commit(r) /\ op[r] \in RowOps
    BY <2>1, OthersKeepHistory DEF IInv
  <2>3. base[r] = service
    BY <2>2, CommitKeepsHistory
  <2> QED
    BY <2>2, <2>3 DEF Commit
<1> QED
  BY <1>1, Inductive, PTL DEF Spec, NoLostUpdate

-----------------------------------------------------------------------------
(* The keys and their history.                                             *)

\* The keys whose first version is not in the history, and the requests that
\* are about to put one there.
Unrecorded == {k \in Key : keys[k].version > 0 /\ 1 \notin keyHistory[k]}
Recording == {r \in Request : step[r] = "recordKey"}

\* Whatever a request revokes is there, and a creation between its two
\* statements has a key of its own that is not recorded.
KeysInHand ==
    /\ \A k \in Key : keys[k].version = 0 => keyHistory[k] = {}
    /\ \A r \in Request : \A k \in revoked[r] : keys[k].version > 0
    /\ \A r \in Request : step[r] = "revoke" => \A k \in todo[r] : keys[k].version > 0
    /\ \A r \in Recording : \E k \in Unrecorded : todo[r] = {k}
    /\ \A q, r \in Recording : q # r => todo[q] # todo[r]

KeyInv ==
    /\ KeysInHand
    /\ \A k \in Key : 2 .. keys[k].version \subseteq keyHistory[k]
    /\ IsFiniteSet(Unrecorded) /\ IsFiniteSet(Recording)
    /\ Cardinality(Unrecorded) <= faults + Cardinality(Recording)

\* What a step that neither creates nor records nor commits does to the keys:
\* a creation that breaks down counts as a fault, and the keys in the request's
\* hands were there already or were in its hands.
QuietOnKeys(r) ==
    /\ UNCHANGED <<keys, keyHistory>>
    /\ \A q \in Request \ {r} :
          step'[q] = step[q] /\ todo'[q] = todo[q] /\ revoked'[q] = revoked[q]
    /\ step'[r] # "recordKey"
    /\ faults' = faults \/ faults' = faults + 1
    /\ step[r] = "recordKey" => faults' = faults + 1
    /\ \A k \in revoked'[r] : k \in revoked[r] \/ (step[r] = "revoke" /\ k \in todo[r])
    /\ step'[r] = "revoke" =>
          \A k \in todo'[r] : keys[k].version > 0 \/ (step[r] = "revoke" /\ k \in todo[r])

LEMMA StepOnKeys ==
    ASSUME TypeOK, Next
    PROVE  \E r \in Request :
              \/ QuietOnKeys(r)
              \/ Commit(r)
              \/ \E k \in Key : CreateAPIKey(r, k) \/ InsertAPIKeyHistory(r, k)
<1> PICK r \in Request :
      \/ UpdateService(r) \/ SuspendService(r) \/ ResumeService(r) \/ ArchiveService(r)
      \/ \E k \in Key : RevokeAPIKey(r, k) \/ CreateAPIKey(r, k)
      \/ Proceed(r)
      \/ Fail(r)
  BY DEF Next
<1> DEFINE A == [Request -> {"idle", "update", "history", "keys", "revoke", "templates",
                             "commit", "recordKey", "done", "failed"}]
<1>0. /\ step \in A
      /\ todo \in [Request -> SUBSET Key] /\ revoked \in [Request -> SUBSET Key]
  BY DEF TypeOK
<1> HIDE DEF A
<1>s. ASSUME NEW x, step' = [step EXCEPT ![r] = x]
      PROVE  step'[r] = x /\ \A q \in Request \ {r} : step'[q] = step[q]
  BY <1>0, <1>s DEF A
<1>d. ASSUME NEW x, todo' = [todo EXCEPT ![r] = x]
      PROVE  todo'[r] = x /\ \A q \in Request \ {r} : todo'[q] = todo[q]
  BY <1>0, <1>d
<1>v. ASSUME NEW x, revoked' = [revoked EXCEPT ![r] = x]
      PROVE  revoked'[r] = x /\ \A q \in Request \ {r} : revoked'[q] = revoked[q]
  BY <1>0, <1>v
<1>1. CASE UpdateService(r) \/ SuspendService(r) \/ ResumeService(r) \/ ArchiveService(r)
  <2>1. /\ \E s \in {"update", "done"} : step' = [step EXCEPT ![r] = s]
        /\ step[r] = "idle"
        /\ UNCHANGED <<keys, keyHistory, todo, revoked, faults>>
    BY <1>1 DEF UpdateService, SuspendService, ResumeService, ArchiveService, Begin, Goto, tables
  <2> QED
    BY <1>s, <2>1 DEF QuietOnKeys
<1>2. ASSUME NEW k \in Key, RevokeAPIKey(r, k)
      PROVE  QuietOnKeys(r)
  <2>1. /\ keys[k].version > 0 /\ todo' = [todo EXCEPT ![r] = {k}]
        /\ step' = [step EXCEPT ![r] = "revoke"] /\ step[r] = "idle"
        /\ UNCHANGED <<keys, keyHistory, revoked, faults>>
    BY <1>2 DEF RevokeAPIKey, Begin, Goto, tables
  <2>2. step'[r] = "revoke" /\ \A q \in Request \ {r} : step'[q] = step[q]
    BY <1>s, <2>1
  <2>3. todo'[r] = {k} /\ \A q \in Request \ {r} : todo'[q] = todo[q]
    BY <1>d, <2>1
  <2> QED
    BY <2>1, <2>2, <2>3 DEF QuietOnKeys
<1>3. CASE UpdateRow(r) \/ InsertServicesHistory(r) \/ KeysRevoked(r) \/ TemplatesArchived(r)
  <2>1. /\ \E s \in {"history", "keys", "templates", "commit"} : step' = [step EXCEPT ![r] = s]
        /\ step[r] # "recordKey"
        /\ UNCHANGED <<keys, keyHistory, todo, revoked, faults>>
    BY <1>3 DEF UpdateRow, InsertServicesHistory, KeysRevoked, TemplatesArchived, Goto, tables,
        pending
  <2> QED
    BY <1>s, <2>1 DEF QuietOnKeys
<1>4. CASE ListKeys(r)
  <2>1. /\ todo' = [todo EXCEPT ![r] = LiveKeys]
        /\ step' = [step EXCEPT ![r] = "revoke"] /\ step[r] = "keys"
        /\ UNCHANGED <<keys, keyHistory, revoked, faults>>
    BY <1>4 DEF ListKeys, Goto, tables
  <2> QED
    BY <1>s, <1>d, <2>1 DEF QuietOnKeys, LiveKeys
<1>5. CASE HistoryConflict(r) \/ Fail(r) \/ \E t \in Template : TemplateConflict(r, t)
  <2>1. /\ step' = [step EXCEPT ![r] = "failed"]
        /\ todo' = [todo EXCEPT ![r] = {}] /\ revoked' = [revoked EXCEPT ![r] = {}]
        /\ UNCHANGED <<keys, keyHistory>>
    BY <1>5 DEF HistoryConflict, Fail, TemplateConflict, RollBack, Goto, tables
  <2>2. /\ faults' = faults \/ faults' = faults + 1
        /\ step[r] = "recordKey" => faults' = faults + 1
    BY <1>5 DEF HistoryConflict, Fail, TemplateConflict
  <2>3. step'[r] = "failed" /\ \A q \in Request \ {r} : step'[q] = step[q]
    BY <1>s, <2>1
  <2>4. todo'[r] = {} /\ \A q \in Request \ {r} : todo'[q] = todo[q]
    BY <1>d, <2>1
  <2>5. revoked'[r] = {} /\ \A q \in Request \ {r} : revoked'[q] = revoked[q]
    BY <1>v, <2>1
  <2>6. QuietOnKeys(r)
    BY <2>1, <2>2, <2>3, <2>4, <2>5 DEF QuietOnKeys
  <2> QED
    BY <2>6
<1>6. ASSUME NEW k \in Key, RevokeKey(r, k)
      PROVE  QuietOnKeys(r)
  <2>1. /\ k \in todo[r] /\ step[r] = "revoke"
        /\ todo' = [todo EXCEPT ![r] = todo[r] \ {k}]
        /\ revoked' = [revoked EXCEPT ![r] = revoked[r] \cup {k}]
        /\ UNCHANGED <<keys, keyHistory, step, faults>>
    BY <1>6 DEF RevokeKey, tables
  <2> QED
    BY <1>d, <1>v, <2>1 DEF QuietOnKeys
<1>7. ASSUME NEW t \in Template, ArchiveTemplate(r, t)
      PROVE  QuietOnKeys(r)
  BY <1>7 DEF ArchiveTemplate, QuietOnKeys, tables
<1> QED
  BY <1>1, <1>2, <1>3, <1>4, <1>5, <1>6, <1>7 DEF Proceed

LEMMA QuietKeepsKeys ==
    ASSUME TypeOK, KeyInv, NEW r \in Request, QuietOnKeys(r)
    PROVE  KeyInv'
<1>1. Unrecorded' = Unrecorded
  BY DEF QuietOnKeys, Unrecorded
<1>2. Recording' = Recording \ {r}
  BY DEF QuietOnKeys, Recording
<1>3. KeysInHand'
  <2>1. \A q \in Request : \A k \in revoked'[q] : keys'[k].version > 0
    BY DEF KeyInv, KeysInHand, QuietOnKeys
  <2>2. \A q \in Request : step'[q] = "revoke" => \A k \in todo'[q] : keys'[k].version > 0
    BY DEF KeyInv, KeysInHand, QuietOnKeys
  <2>3. \A q \in Recording' : q \in Recording /\ todo'[q] = todo[q]
    BY <1>2 DEF QuietOnKeys, Recording
  <2> QED
    BY <1>1, <2>1, <2>2, <2>3 DEF KeyInv, KeysInHand, QuietOnKeys
<1>4. /\ IsFiniteSet(Recording \ {r})
      /\ Cardinality(Recording \ {r}) =
            IF r \in Recording THEN Cardinality(Recording) - 1 ELSE Cardinality(Recording)
  BY FS_RemoveElement DEF KeyInv
<1>5. Cardinality(Unrecorded) \in Nat /\ Cardinality(Recording) \in Nat /\ faults \in Nat
  BY FS_CardinalityType DEF KeyInv, TypeOK
<1>6. /\ faults' = faults \/ faults' = faults + 1
      /\ r \in Recording => faults' = faults + 1
  BY DEF QuietOnKeys, Recording
<1>8. Cardinality(Unrecorded') <= faults' + Cardinality(Recording')
  BY <1>1, <1>2, <1>4, <1>5, <1>6 DEF KeyInv
<1> QED
  BY <1>1, <1>2, <1>3, <1>4, <1>8 DEF KeyInv, QuietOnKeys

LEMMA CreateKeepsKeys ==
    ASSUME TypeOK, KeyInv, NEW r \in Request, NEW j \in Key, CreateAPIKey(r, j)
    PROVE  KeyInv'
<1>1. /\ step[r] = "idle" /\ keys[j].version = 0
      /\ step' = [step EXCEPT ![r] = "recordKey"] /\ todo' = [todo EXCEPT ![r] = {j}]
      /\ keys' = [keys EXCEPT ![j].version = 1]
      /\ UNCHANGED <<keyHistory, revoked, faults>>
  BY DEF CreateAPIKey, Begin, Goto
<1>2. keys'[j].version = 1 /\ \A k \in Key \ {j} : keys'[k] = keys[k]
  BY <1>1 DEF TypeOK
<1>3. /\ step'[r] = "recordKey" /\ todo'[r] = {j}
      /\ \A q \in Request \ {r} : step'[q] = step[q] /\ todo'[q] = todo[q]
  BY <1>1 DEF TypeOK
<1>4. keyHistory[j] = {} /\ j \notin Unrecorded
  BY <1>1 DEF KeyInv, KeysInHand, Unrecorded
<1>5. Unrecorded' = Unrecorded \cup {j}
  BY <1>1, <1>2, <1>4 DEF Unrecorded
<1>6. Recording' = Recording \cup {r} /\ r \notin Recording
  BY <1>1, <1>3 DEF Recording
<1>7. KeysInHand'
  <2>1. \A k \in Key : keys'[k].version = 0 => keyHistory'[k] = {}
    BY <1>1, <1>2 DEF KeyInv, KeysInHand
  <2>2. \A q \in Request : revoked[q] \subseteq Key /\ todo[q] \subseteq Key
    BY DEF TypeOK
  <2>3. \A q \in Request : \A k \in revoked'[q] : keys'[k].version > 0
    BY <1>1, <1>2, <2>2 DEF KeyInv, KeysInHand
  <2>4. \A q \in Request : step'[q] = "revoke" => \A k \in todo'[q] : keys'[k].version > 0
    BY <1>2, <1>3, <2>2 DEF KeyInv, KeysInHand
  <2>5. \A q \in Recording' : q = r \/ (q \in Recording /\ todo'[q] = todo[q])
    BY <1>3, <1>6 DEF Recording
  <2>6. \A q \in Recording : todo[q] # {j}
    BY <1>4 DEF KeyInv, KeysInHand
  <2> QED
    BY <1>3, <1>5, <2>1, <2>3, <2>4, <2>5, <2>6 DEF KeyInv, KeysInHand
<1>8. \A k \in Key : 2 .. keys'[k].version \subseteq keyHistory'[k]
  BY <1>1, <1>2 DEF KeyInv
<1>9. /\ IsFiniteSet(Unrecorded') /\ IsFiniteSet(Recording')
      /\ Cardinality(Unrecorded') = Cardinality(Unrecorded) + 1
      /\ Cardinality(Recording') = Cardinality(Recording) + 1
  BY <1>4, <1>5, <1>6, FS_AddElement DEF KeyInv
<1>10. Cardinality(Unrecorded) \in Nat /\ Cardinality(Recording) \in Nat /\ faults \in Nat
  BY FS_CardinalityType DEF KeyInv, TypeOK
<1> QED
  BY <1>1, <1>7, <1>8, <1>9, <1>10 DEF KeyInv

LEMMA RecordKeepsKeys ==
    ASSUME TypeOK, KeyInv, NEW r \in Request, NEW j \in Key, InsertAPIKeyHistory(r, j)
    PROVE  KeyInv'
<1>1. /\ step[r] = "recordKey" /\ j \in todo[r]
      /\ step' = [step EXCEPT ![r] = "done"] /\ todo' = [todo EXCEPT ![r] = {}]
      /\ keyHistory' = [keyHistory EXCEPT ![j] = keyHistory[j] \cup {1}]
      /\ UNCHANGED <<keys, revoked, faults>>
  BY DEF InsertAPIKeyHistory, Goto
<1>2. keyHistory'[j] = keyHistory[j] \cup {1} /\ \A k \in Key \ {j} : keyHistory'[k] = keyHistory[k]
  BY <1>1 DEF TypeOK
<1>3. /\ step'[r] = "done" /\ todo'[r] = {}
      /\ \A q \in Request \ {r} : step'[q] = step[q] /\ todo'[q] = todo[q]
  BY <1>1 DEF TypeOK
<1>4. r \in Recording /\ j \in Unrecorded /\ todo[r] = {j}
  BY <1>1 DEF KeyInv, KeysInHand, Recording
<1>5. Unrecorded' = Unrecorded \ {j}
  BY <1>1, <1>2 DEF Unrecorded
<1>6. Recording' = Recording \ {r}
  BY <1>3 DEF Recording
<1>7. KeysInHand'
  <2>1. \A k \in Key : keys'[k].version = 0 => keyHistory'[k] = {}
    BY <1>1, <1>2, <1>4 DEF KeyInv, KeysInHand, Unrecorded
  <2>2. \A q \in Request : step'[q] = "revoke" => \A k \in todo'[q] : keys'[k].version > 0
    <3>1. \A q \in Request : step'[q] = "revoke" => step[q] = "revoke" /\ todo'[q] = todo[q]
      BY <1>3
    <3> QED
      BY <1>1, <3>1 DEF KeyInv, KeysInHand
  <2>3. \A q \in Recording' : q \in Recording /\ todo'[q] = todo[q] /\ todo[q] # {j}
    <3>1. \A q \in Recording' : q \in Recording /\ q # r /\ q \in Request
      BY <1>6 DEF Recording
    <3>2. \A q \in Recording' : todo'[q] = todo[q]
      BY <3>1, <1>3
    <3>3. \A q \in Recording' : todo[q] # todo[r]
      BY <3>1, <1>4 DEF KeyInv, KeysInHand
    <3> QED
      BY <3>1, <3>2, <3>3, <1>4
  <2>4. \A q \in Recording' : \E k \in Unrecorded' : todo'[q] = {k}
    BY <1>5, <2>3 DEF KeyInv, KeysInHand
  <2> QED
    BY <1>1, <2>1, <2>2, <2>3, <2>4 DEF KeyInv, KeysInHand
<1>8. \A k \in Key : 2 .. keys'[k].version \subseteq keyHistory'[k]
  BY <1>1, <1>2 DEF KeyInv
<1>9. /\ IsFiniteSet(Unrecorded') /\ IsFiniteSet(Recording')
      /\ Cardinality(Unrecorded') = Cardinality(Unrecorded) - 1
      /\ Cardinality(Recording') = Cardinality(Recording) - 1
  BY <1>4, <1>5, <1>6, FS_RemoveElement DEF KeyInv
<1>10. Cardinality(Unrecorded) \in Nat /\ Cardinality(Recording) \in Nat /\ faults \in Nat
  BY FS_CardinalityType DEF KeyInv, TypeOK
<1> QED
  BY <1>1, <1>7, <1>8, <1>9, <1>10 DEF KeyInv

LEMMA CommitKeepsKeys ==
    ASSUME TypeOK, KeyInv, NEW r \in Request, Commit(r)
    PROVE  KeyInv'
<1>1. /\ step[r] = "commit"
      /\ step' = [step EXCEPT ![r] = "done"] /\ revoked' = [revoked EXCEPT ![r] = {}]
      /\ keys' = [k \in Key |-> IF k \in revoked[r] THEN Committed(r, k) ELSE keys[k]]
      /\ keyHistory' = [k \in Key |-> keyHistory[k] \cup
            (IF k \in revoked[r] THEN {keys[k].version + 1} ELSE {})]
      /\ UNCHANGED <<todo, faults>>
  BY DEF Commit, Goto
<1>2. \A k \in Key : keys[k].version \in Nat
  BY DEF TypeOK
<1>3. \A k \in Key :
         /\ k \in revoked[r] => /\ keys'[k].version = keys[k].version + 1
                                /\ keys[k].version > 0
                                /\ keyHistory'[k] = keyHistory[k] \cup {keys[k].version + 1}
         /\ k \notin revoked[r] => keys'[k] = keys[k] /\ keyHistory'[k] = keyHistory[k]
  BY <1>1 DEF KeyInv, KeysInHand, Committed
<1>4. /\ step'[r] = "done" /\ revoked'[r] = {}
      /\ \A q \in Request \ {r} : step'[q] = step[q] /\ revoked'[q] = revoked[q]
  BY <1>1 DEF TypeOK
<1>5. \A k \in Key : keys'[k].version > 0 <=> keys[k].version > 0
  BY <1>2, <1>3
<1>6. \A k \in Key : keys[k].version > 0 => (1 \in keyHistory'[k] <=> 1 \in keyHistory[k])
  BY <1>2, <1>3
<1>7. Unrecorded' = Unrecorded
  BY <1>5, <1>6 DEF Unrecorded
<1>8. Recording' = Recording
  BY <1>1, <1>4 DEF Recording
<1>9. \A q \in Request : revoked[q] \subseteq Key /\ todo[q] \subseteq Key
  BY DEF TypeOK
<1>10. KeysInHand'
  <2>1. \A k \in Key : keys'[k].version = 0 => keyHistory'[k] = {}
    BY <1>2, <1>3 DEF KeyInv, KeysInHand
  <2>2. \A q \in Request : \A k \in revoked'[q] : keys'[k].version > 0
    BY <1>4, <1>5, <1>9 DEF KeyInv, KeysInHand
  <2>3. \A q \in Request : step'[q] = "revoke" => \A k \in todo'[q] : keys'[k].version > 0
    BY <1>1, <1>4, <1>5, <1>9 DEF KeyInv, KeysInHand
  <2> QED
    BY <1>1, <1>7, <1>8, <2>1, <2>2, <2>3 DEF KeyInv, KeysInHand
<1>11. ASSUME NEW k \in Key
       PROVE  2 .. keys'[k].version \subseteq keyHistory'[k]
  <2>1. CASE k \in revoked[r]
    <3>1. \A v \in 2 .. (keys[k].version + 1) :
             v \in 2 .. keys[k].version \/ v = keys[k].version + 1
      BY <1>2
    <3> QED
      BY <2>1, <3>1, <1>3 DEF KeyInv
  <2>2. CASE k \notin revoked[r]
    BY <2>2, <1>3 DEF KeyInv
  <2> QED
    BY <2>1, <2>2
<1> QED
  BY <1>1, <1>7, <1>8, <1>10, <1>11 DEF KeyInv

\* Every version of a key is in the history, but for a first version whose
\* creation is still running or broke down: of two statements that commit one by
\* one, each fault costs at most one record.
THEOREM KeysRecorded == RegistryAssumption => (Spec => []KeysAreRecorded)
<1> SUFFICES ASSUME RegistryAssumption
             PROVE  Spec => []KeysAreRecorded
  OBVIOUS
<1>1. Init => KeyInv
  <2> SUFFICES ASSUME Init PROVE KeyInv
    OBVIOUS
  <2>1. Unrecorded = {} /\ Recording = {}
    BY DEF Init, Unrecorded, Recording
  <2>2. KeysInHand
    <3>1. \A k \in Key : keyHistory[k] = {}
      BY DEF Init
    <3>2. \A r \in Request : revoked[r] = {} /\ step[r] # "revoke"
      BY DEF Init
    <3> QED
      BY <2>1, <3>1, <3>2 DEF KeysInHand
  <2>3. \A k \in Key : 2 .. keys[k].version \subseteq keyHistory[k]
    BY DEF Init
  <2> QED
    BY <2>1, <2>2, <2>3, FS_EmptySet DEF KeyInv, Init
<1>2. TypeOK /\ KeyInv /\ [Next]_vars => KeyInv'
  <2> SUFFICES ASSUME TypeOK, KeyInv, [Next]_vars PROVE KeyInv'
    OBVIOUS
  <2>1. CASE Next
    BY <2>1, StepOnKeys, QuietKeepsKeys, CommitKeepsKeys, CreateKeepsKeys, RecordKeepsKeys
  <2>2. CASE UNCHANGED vars
    <3>1. Unrecorded' = Unrecorded /\ Recording' = Recording
      BY <2>2 DEF vars, tables, Unrecorded, Recording
    <3> QED
      BY <2>2, <3>1 DEF vars, tables, pending, KeyInv, KeysInHand
  <2> QED
    BY <2>1, <2>2
<1>3. KeyInv => KeysAreRecorded
  BY DEF KeyInv, KeysAreRecorded, Unrecorded, Recording
<1> QED
  BY <1>1, <1>2, <1>3, TypeCorrect, PTL DEF Spec

-----------------------------------------------------------------------------
(* Archiving.                                                              *)

Usable(k) == keys[k].version > 0 /\ ~keys[k].revoked

\* An archiving that has listed the keys has all that can be used in its hands,
\* and one that is about to commit has all templates too.
Retires(r) ==
    op[r] = "archive" =>
        /\ step[r] = "revoke" => \A k \in Key : Usable(k) => k \in todo[r] \cup revoked[r]
        /\ step[r] \in {"templates", "commit"} => \A k \in Key : Usable(k) => k \in revoked[r]
        /\ step[r] = "commit" => Template \subseteq archived \cup retired[r]

\* The lock on the archived row keeps keys from becoming usable; no template is
\* ever opened again.
LEMMA NothingReopens ==
    ASSUME TypeOK, Next
    PROVE  /\ archived \subseteq archived'
           /\ (\E q \in Request : BlocksNewKeys(q)) => \A k \in Key : Usable(k)' => Usable(k)
<1>1. PICK r \in Request :
         \/ QuietOnKeys(r)
         \/ Commit(r)
         \/ \E k \in Key : CreateAPIKey(r, k) \/ InsertAPIKeyHistory(r, k)
  BY StepOnKeys
<1>2. archived \subseteq archived'
  BY DEF Next, UpdateService, SuspendService, ResumeService, ArchiveService, RevokeAPIKey,
     CreateAPIKey, Proceed, Fail, UpdateRow, InsertServicesHistory, HistoryConflict, ListKeys,
     KeysRevoked, TemplatesArchived, RevokeKey, InsertAPIKeyHistory, ArchiveTemplate,
     TemplateConflict, Commit, RollBack, tables
<1>3. CASE QuietOnKeys(r) \/ \E k \in Key : InsertAPIKeyHistory(r, k)
  BY <1>2, <1>3 DEF QuietOnKeys, InsertAPIKeyHistory, Usable
<1>4. CASE Commit(r)
  <2>1. keys' = [k \in Key |-> IF k \in revoked[r] THEN Committed(r, k) ELSE keys[k]]
    BY <1>4 DEF Commit
  <2>2. \A k \in Key : keys'[k].revoked \/ keys'[k] = keys[k]
    BY <2>1 DEF Committed
  <2> QED
    BY <1>2, <2>2 DEF Usable
<1>5. CASE \E k \in Key : CreateAPIKey(r, k)
  BY <1>2, <1>5 DEF CreateAPIKey
<1> QED
  BY <1>1, <1>3, <1>4, <1>5

\* What the request itself does.
LEMMA OwnStepRetires ==
    ASSUME TypeOK, NEW r \in Request, Retires(r),
           \/ UpdateService(r) \/ SuspendService(r) \/ ResumeService(r) \/ ArchiveService(r)
           \/ \E k \in Key : RevokeAPIKey(r, k) \/ CreateAPIKey(r, k)
           \/ Proceed(r)
           \/ Fail(r)
    PROVE  Retires(r)'
<1>1. CASE UpdateService(r) \/ SuspendService(r) \/ ResumeService(r) \/ ArchiveService(r)
  <2>1. \E s \in {"update", "done"} : step' = [step EXCEPT ![r] = s]
    BY <1>1 DEF UpdateService, SuspendService, ResumeService, ArchiveService, Goto
  <2> QED
    BY <2>1 DEF Retires, TypeOK
<1>2. CASE \E k \in Key : RevokeAPIKey(r, k) \/ CreateAPIKey(r, k)
  BY <1>2 DEF RevokeAPIKey, CreateAPIKey, Begin, Retires, TypeOK
<1>3. CASE UpdateRow(r) \/ InsertServicesHistory(r)
  <2>1. op' = op /\ (op[r] = "archive" => \E s \in {"history", "keys"} :
                                             step' = [step EXCEPT ![r] = s])
    BY <1>3 DEF UpdateRow, InsertServicesHistory, Goto
  <2> QED
    BY <2>1 DEF Retires, TypeOK
<1>4. CASE ListKeys(r)
  <2>1. step'[r] = "revoke" /\ todo'[r] = LiveKeys /\ keys' = keys
    BY <1>4 DEF ListKeys, Goto, tables, TypeOK
  <2> QED
    BY <2>1 DEF Retires, LiveKeys, Usable
<1>5. CASE KeysRevoked(r)
  <2>1. /\ step[r] = "revoke" /\ todo[r] = {}
        /\ op[r] = "archive" => step'[r] = "templates"
        /\ UNCHANGED <<op, keys, revoked>>
    BY <1>5 DEF KeysRevoked, Goto, tables, pending, TypeOK
  <2> QED
    BY <2>1 DEF Retires, Usable
<1>6. CASE TemplatesArchived(r)
  <2>1. /\ step[r] = "templates" /\ Remaining(r) = {} /\ step'[r] = "commit"
        /\ UNCHANGED <<op, keys, archived, revoked, retired>>
    BY <1>6 DEF TemplatesArchived, Goto, tables, pending, TypeOK
  <2> QED
    BY <2>1 DEF Retires, Usable, Remaining
<1>7. ASSUME NEW k \in Key, RevokeKey(r, k)
      PROVE  Retires(r)'
  <2>1. /\ step[r] = "revoke" /\ todo'[r] = todo[r] \ {k} /\ revoked'[r] = revoked[r] \cup {k}
        /\ UNCHANGED <<op, step, keys>>
    BY <1>7 DEF RevokeKey, tables, TypeOK
  <2> QED
    BY <2>1 DEF Retires, Usable
<1>8. ASSUME NEW t \in Template, ArchiveTemplate(r, t)
      PROVE  Retires(r)'
  BY <1>8 DEF ArchiveTemplate, Retires, Usable, tables
<1>9. CASE \/ HistoryConflict(r) \/ Fail(r) \/ Commit(r)
           \/ \E k \in Key : InsertAPIKeyHistory(r, k)
           \/ \E t \in Template : TemplateConflict(r, t)
  <2>1. step'[r] \in {"failed", "done"}
    BY <1>9 DEF HistoryConflict, Fail, Commit, InsertAPIKeyHistory, TemplateConflict, RollBack,
       Goto, TypeOK
  <2> QED
    BY <2>1 DEF Retires
<1> QED
  BY <1>1, <1>2, <1>3, <1>4, <1>5, <1>6, <1>7, <1>8, <1>9 DEF Proceed

\* What it does leaves the other requests alone.
LEMMA OthersInHand ==
    ASSUME TypeOK, NEW r \in Request,
           \/ UpdateService(r) \/ SuspendService(r) \/ ResumeService(r) \/ ArchiveService(r)
           \/ \E k \in Key : RevokeAPIKey(r, k) \/ CreateAPIKey(r, k)
           \/ Proceed(r)
           \/ Fail(r),
           NEW q \in Request \ {r}
    PROVE  /\ step'[q] = step[q] /\ op'[q] = op[q] /\ todo'[q] = todo[q]
           /\ revoked'[q] = revoked[q] /\ retired'[q] = retired[q]
<1>1. step'[q] = step[q] /\ op'[q] = op[q]
  BY StepOfOne
<1>2. \E x : todo' = [todo EXCEPT ![r] = x] \/ todo' = todo
  BY Zenon DEF UpdateService, SuspendService, ResumeService, ArchiveService, RevokeAPIKey,
     CreateAPIKey, Proceed, Fail, UpdateRow, InsertServicesHistory, HistoryConflict, ListKeys,
     KeysRevoked, TemplatesArchived, RevokeKey, InsertAPIKeyHistory, ArchiveTemplate,
     TemplateConflict, Commit, RollBack, pending
<1>3. \E x : revoked' = [revoked EXCEPT ![r] = x] \/ revoked' = revoked
  BY Zenon DEF UpdateService, SuspendService, ResumeService, ArchiveService, RevokeAPIKey,
     CreateAPIKey, Proceed, Fail, UpdateRow, InsertServicesHistory, HistoryConflict, ListKeys,
     KeysRevoked, TemplatesArchived, RevokeKey, InsertAPIKeyHistory, ArchiveTemplate,
     TemplateConflict, Commit, RollBack, pending
<1>4. \E x : retired' = [retired EXCEPT ![r] = x] \/ retired' = retired
  BY Zenon DEF UpdateService, SuspendService, ResumeService, ArchiveService, RevokeAPIKey,
     CreateAPIKey, Proceed, Fail, UpdateRow, InsertServicesHistory, HistoryConflict, ListKeys,
     KeysRevoked, TemplatesArchived, RevokeKey, InsertAPIKeyHistory, ArchiveTemplate,
     TemplateConflict, Commit, RollBack, pending
<1> QED
  BY <1>1, <1>2, <1>3, <1>4 DEF TypeOK

LEMMA StepRetires ==
    ASSUME TypeOK, \A r \in Request : Retires(r), [Next]_vars
    PROVE  \A r \in Request : Retires(r)'
<1>1. CASE UNCHANGED vars
  BY <1>1 DEF Retires, Usable, vars, tables, pending
<1> SUFFICES ASSUME Next, NEW q \in Request
             PROVE  Retires(q)'
  BY <1>1
<1> PICK r \in Request :
      \/ UpdateService(r) \/ SuspendService(r) \/ ResumeService(r) \/ ArchiveService(r)
      \/ \E k \in Key : RevokeAPIKey(r, k) \/ CreateAPIKey(r, k)
      \/ Proceed(r)
      \/ Fail(r)
  BY DEF Next
<1>2. CASE q = r
  BY <1>2, OwnStepRetires
<1>3. CASE q # r
  <2>1. /\ step'[q] = step[q] /\ op'[q] = op[q] /\ todo'[q] = todo[q]
        /\ revoked'[q] = revoked[q] /\ retired'[q] = retired[q]
    BY <1>3, OthersInHand
  <2>2. op[q] = "archive" /\ step[q] \in {"revoke", "templates", "commit"} => BlocksNewKeys(q)
    BY DEF BlocksNewKeys, HoldsService, RowOps
  <2> QED
    BY <2>1, <2>2, NothingReopens DEF Retires
<1> QED
  BY <1>2, <1>3

\* An archiving that commits leaves no key and no template that anybody could
\* use, those created or opened while it ran included.
THEOREM ArchivingIsComplete == RegistryAssumption => (Spec => ArchivingRetiresAll)
<1> SUFFICES ASSUME RegistryAssumption
             PROVE  Spec => ArchivingRetiresAll
  OBVIOUS
<1> DEFINE RInv == \A r \in Request : Retires(r)
<1> DEFINE All == /\ \A k \in Key : keys'[k].version > 0 => keys'[k].revoked
                  /\ archived' = Template
<1>1. Init => RInv
  BY DEF Init, Retires
<1>2. TypeOK /\ RInv /\ [Next]_vars => RInv'
  BY StepRetires
<1>3. IInv /\ RInv /\ [Next]_vars =>
        [(service' # service /\ service'.named = "archived" /\ service.named = "plain")
            => All]_vars
  <2> SUFFICES ASSUME IInv, RInv, [Next]_vars,
                      service' # service, service'.named = "archived", service.named = "plain"
               PROVE  All
    OBVIOUS
  <2>1. Next
    BY DEF vars, tables
  <2>2. PICK r \in Request : Commit(r) /\ op[r] \in RowOps
    BY <2>1, OthersKeepHistory DEF IInv
  <2>3. base[r] = service /\ service' = NewRow(r)
    BY <2>2, CommitKeepsHistory
  <2>4. op[r] = "archive"
    <3>1. NewRow(r).named = IF op[r] = "archive" THEN "archived" ELSE base[r].named
      BY DEF NewRow
    <3> QED
      BY <2>3, <3>1
  <2>5. step[r] = "commit"
    BY <2>2 DEF Commit
  <2>6. /\ \A k \in Key : Usable(k) => k \in revoked[r]
        /\ Template \subseteq archived \cup retired[r]
    BY <2>4, <2>5 DEF Retires
  <2>7. archived \subseteq Template /\ retired[r] \subseteq Template
    BY DEF IInv, TypeOK
  <2>8. archived' = Template
    BY <2>2, <2>6, <2>7 DEF Commit
  <2>9. ASSUME NEW k \in Key, keys'[k].version > 0
        PROVE  keys'[k].revoked
    <3>1. keys' = [j \in Key |-> IF j \in revoked[r] THEN Committed(r, j) ELSE keys[j]]
      BY <2>2 DEF Commit
    <3>2. CASE k \in revoked[r]
      BY <3>1, <3>2 DEF Committed
    <3>3. CASE k \notin revoked[r]
      BY <2>6, <2>9, <3>1, <3>3 DEF Usable
    <3> QED
      BY <3>2, <3>3
  <2> QED
    BY <2>8, <2>9
<1> QED
  BY <1>1, <1>2, <1>3, Inductive, TypeCorrect, PTL DEF Spec, ArchivingRetiresAll

-----------------------------------------------------------------------------
(* Who waits for whom.                                                     *)

\* A request that revokes one key has nothing left to lock once it has the
\* key; an archiving locks one key after the other.
LocksInOrder(r) ==
    /\ step[r] = "keys" => op[r] = "archive"
    /\ step[r] = "revoke" \/ revoked[r] # {} => op[r] \in {"archive", "revokeKey"}
    /\ step[r] = "revoke" => todo[r] \cap revoked[r] = {}
    /\ step[r] = "revoke" /\ op[r] = "revokeKey" =>
          /\ \A j, k \in todo[r] : j = k
          /\ revoked[r] # {} => todo[r] = {}

\* Its own steps keep to that order.
LEMMA OwnStepLocksInOrder ==
    ASSUME TypeOK, NEW r \in Request, LocksInOrder(r),
           \/ UpdateService(r) \/ SuspendService(r) \/ ResumeService(r) \/ ArchiveService(r)
           \/ \E k \in Key : RevokeAPIKey(r, k) \/ CreateAPIKey(r, k)
           \/ Proceed(r)
           \/ Fail(r)
    PROVE  LocksInOrder(r)'
<1>1. CASE UpdateService(r) \/ SuspendService(r) \/ ResumeService(r) \/ ArchiveService(r)
  BY <1>1 DEF UpdateService, SuspendService, ResumeService, ArchiveService, Begin, Read,
     Goto, TypeOK, LocksInOrder
<1>2. CASE \E k \in Key : RevokeAPIKey(r, k) \/ CreateAPIKey(r, k)
  BY <1>2 DEF RevokeAPIKey, CreateAPIKey, Begin, Goto, TypeOK, LocksInOrder
<1>3. CASE UpdateRow(r) \/ InsertServicesHistory(r) \/ TemplatesArchived(r)
           \/ \E t \in Template : ArchiveTemplate(r, t)
  BY <1>3 DEF UpdateRow, InsertServicesHistory, TemplatesArchived, ArchiveTemplate, Goto, TypeOK,
     LocksInOrder, tables, pending
<1>4. CASE ListKeys(r)
  <2>1. /\ op[r] = "archive" /\ revoked[r] = {} /\ step'[r] = "revoke"
        /\ UNCHANGED <<op, revoked>>
    BY <1>4 DEF ListKeys, Goto, TypeOK, LocksInOrder, tables, pending
  <2> QED
    BY <2>1 DEF LocksInOrder
<1>5. CASE KeysRevoked(r)
  BY <1>5 DEF KeysRevoked, Goto, TypeOK, LocksInOrder, tables, pending
<1>6. ASSUME NEW k \in Key, RevokeKey(r, k)
      PROVE  LocksInOrder(r)'
  <2>1. /\ step[r] = "revoke" /\ k \in todo[r] /\ UNCHANGED <<step, op>>
        /\ todo'[r] = todo[r] \ {k} /\ revoked'[r] = revoked[r] \cup {k}
    BY <1>6 DEF RevokeKey, TypeOK, tables
  <2> QED
    BY <2>1 DEF LocksInOrder
<1>7. CASE \/ HistoryConflict(r) \/ Fail(r) \/ Commit(r)
           \/ \E k \in Key : InsertAPIKeyHistory(r, k)
           \/ \E t \in Template : TemplateConflict(r, t)
  <2>1. step'[r] \in {"failed", "done"} /\ (revoked'[r] = {} \/ UNCHANGED <<op, revoked>>)
    BY <1>7 DEF HistoryConflict, Fail, Commit, InsertAPIKeyHistory, TemplateConflict, RollBack,
       Goto, TypeOK, tables
  <2> QED
    BY <2>1 DEF LocksInOrder
<1> QED
  BY <1>1, <1>2, <1>3, <1>4, <1>5, <1>6, <1>7 DEF Proceed

\* Where locks are taken in that order and one request at a time has the row of
\* the service, a request that others wait for waits, if at all, for one that
\* does not wait.
LEMMA OrderMeansNoCircle ==
    ASSUME TypeOK, OneHolder, \A r \in Request : LocksInOrder(r)
    PROVE  NobodyWaitsInACircle
<1> SUFFICES ASSUME NEW p \in Request, NEW q \in Request, NEW r \in Request, NEW s \in Request,
                    WaitsFor(p, q), WaitsFor(q, r), WaitsFor(r, s)
             PROVE  FALSE
  BY DEF NobodyWaitsInACircle
<1>1. ASSUME NEW a \in Request, NEW b \in Request, NEW d \in Request,
             WaitsFor(a, b), WaitsFor(b, d)
      PROVE  op[b] = "archive" /\ step[b] = "revoke" /\ HoldsService(b)
  <2>1. HoldsService(b) \/ revoked[b] # {}
    BY <1>1 DEF WaitsFor, HoldsKey
  <2>2. step[b] # "update"
    BY <2>1 DEF HoldsService, TypeOK
  <2>3. step[b] = "revoke" /\ todo[b] # {}
    BY <1>1, <2>2 DEF WaitsFor
  <2>4. op[b] = "archive"
    BY <2>1, <2>3 DEF LocksInOrder, HoldsService, RowOps
  <2> QED
    BY <2>3, <2>4 DEF HoldsService, RowOps
<1>2. HoldsService(q) /\ step[q] = "revoke" /\ HoldsService(r)
  BY <1>1
<1>3. q = r
  BY <1>2 DEF OneHolder
<1>4. PICK k \in todo[q] : HoldsKey(q, k)
  BY <1>2, <1>3 DEF WaitsFor
<1> QED
  BY <1>2, <1>4 DEF LocksInOrder, HoldsKey

\* No number of requests, in whatever order their statements are issued, can
\* make them wait for each other in a circle: no deadlock among the requests on
\* a service.
THEOREM NoDeadlock == RegistryAssumption => (Spec => []NobodyWaitsInACircle)
<1> SUFFICES ASSUME RegistryAssumption
             PROVE  Spec => []NobodyWaitsInACircle
  OBVIOUS
<1> DEFINE LInv == \A r \in Request : LocksInOrder(r)
<1>1. Init => LInv
  BY DEF Init, LocksInOrder
<1>2. TypeOK /\ LInv /\ [Next]_vars => LInv'
  <2> SUFFICES ASSUME TypeOK, LInv, [Next]_vars, NEW q \in Request
               PROVE  LocksInOrder(q)'
    OBVIOUS
  <2>1. CASE UNCHANGED vars
    BY <2>1 DEF LocksInOrder, vars, pending
  <2>2. ASSUME NEW r \in Request,
               \/ UpdateService(r) \/ SuspendService(r) \/ ResumeService(r) \/ ArchiveService(r)
               \/ \E k \in Key : RevokeAPIKey(r, k) \/ CreateAPIKey(r, k)
               \/ Proceed(r)
               \/ Fail(r)
        PROVE  LocksInOrder(q)'
    <3>1. CASE q = r
      BY <2>2, <3>1, OwnStepLocksInOrder
    <3>2. CASE q # r
      <4>1. /\ step'[q] = step[q] /\ op'[q] = op[q] /\ todo'[q] = todo[q]
            /\ revoked'[q] = revoked[q]
        BY <2>2, <3>2, OthersInHand
      <4> QED
        BY <4>1 DEF LocksInOrder
    <3> QED
      BY <3>1, <3>2
  <2> QED
    BY <2>1, <2>2 DEF Next
<1>3. IInv /\ LInv => NobodyWaitsInACircle
  BY OrderMeansNoCircle DEF IInv
<1> QED
  BY <1>1, <1>2, <1>3, Inductive, TypeCorrect, PTL DEF Spec

=============================================================================
