-------------------------- MODULE ServiceRegistry --------------------------
(***************************************************************************)
(* What the administration requests do to the row of one service and to    *)
(* what hangs from it: its history, its API keys and its templates         *)
(* (repository/services/dao.go).  Each request runs in one READ COMMITTED  *)
(* transaction, but for the creation of a key, whose two statements each   *)
(* commit by themselves.                                                   *)
(*                                                                         *)
(* PostgreSQL is modelled from the statements issued: a row that a         *)
(* transaction has changed is locked until it ends, what it wrote is       *)
(* invisible to others until then, every statement sees what was committed *)
(* before it, and the history tables have (id, version) as their key.      *)
(***************************************************************************)
EXTENDS Naturals, FiniteSets

CONSTANTS
    Request,        \* the requests that are ever made, each with one operation
    NoRequest,      \* the author of the row that CreateService wrote
    Key,            \* the API keys that can be created
    Template,       \* the templates of the service
    MaxFaults       \* bound on statements that fail

ASSUME RegistryAssumption ==
    NoRequest \notin Request /\ MaxFaults \in Nat

VARIABLES
    service,        \* the committed row
    history,        \* services_history
    keys,           \* keys[k]: the committed row of k; version 0 is no row
    keyHistory,     \* keyHistory[k]: the versions of k in api_keys_history
    archived,       \* the templates with archived = true
    recorded,       \* the templates whose version is in templates_history
    op,             \* op[r]: the operation r performs
    step,           \* step[r]: the statement r issues next
    base,           \* base[r]: the row of the service that r read
    todo,           \* todo[r]: the keys r has still to revoke or to record
    revoked,        \* revoked[r]: the keys r has revoked and not yet committed
    retired,        \* retired[r]: the templates r has archived and not yet committed
    faults          \* statements that failed so far

tables == <<service, history, keys, keyHistory, archived, recorded>>
pending == <<base, todo, revoked, retired>>
vars == <<tables, op, step, pending, faults>>

Row == [version : Nat \ {0}, active : BOOLEAN, named : {"plain", "archived"},
        by : Request \cup {NoRequest}]

RowOps == {"update", "suspend", "resume", "archive"}
Ops == RowOps \cup {"revokeKey", "createKey"}

TypeOK ==
    /\ service \in Row
    /\ history \subseteq Row
    /\ keys \in [Key -> [version : Nat, revoked : BOOLEAN]]
    /\ keyHistory \in [Key -> SUBSET Nat]
    /\ archived \subseteq Template /\ recorded \subseteq Template
    /\ op \in [Request -> Ops \cup {"none"}]
    /\ step \in [Request -> {"idle", "update", "history", "keys", "revoke", "templates",
                             "commit", "recordKey", "done", "failed"}]
    /\ base \in [Request -> Row]
    /\ todo \in [Request -> SUBSET Key]
    /\ revoked \in [Request -> SUBSET Key]
    /\ retired \in [Request -> SUBSET Template]
    /\ faults \in 0 .. MaxFaults
    /\ \A r \in Request :
          /\ revoked[r] # {} => step[r] \in {"revoke", "templates", "commit"}
          /\ retired[r] # {} => step[r] \in {"templates", "commit"}

\* CreateService writes the row and its first history row in one transaction.
\* Templates come from outside, with or without a history.
FirstRow == [version |-> 1, active |-> TRUE, named |-> "plain", by |-> NoRequest]

Init ==
    /\ service = FirstRow /\ history = {FirstRow}
    /\ keys = [k \in Key |-> [version |-> 0, revoked |-> FALSE]]
    /\ keyHistory = [k \in Key |-> {}]
    /\ archived = {} /\ recorded \in SUBSET Template
    /\ op = [r \in Request |-> "none"]
    /\ step = [r \in Request |-> "idle"]
    /\ base = [r \in Request |-> FirstRow]
    /\ todo = [r \in Request |-> {}]
    /\ revoked = [r \in Request |-> {}]
    /\ retired = [r \in Request |-> {}]
    /\ faults = 0

-----------------------------------------------------------------------------
(* Locks: the steps at which a transaction has changed a row.              *)

HoldsService(r) ==
    op[r] \in RowOps /\ step[r] \in {"history", "keys", "revoke", "templates", "commit"}

HoldsKey(r, k) == k \in revoked[r]

\* Slip: an archiving that leaves the name alone takes a weaker lock.
BlocksNoKeys(r) == FALSE

\* The archiving renames the service; the lock this takes also stops the
\* foreign key check of a new API key.
BlocksNewKeys(r) == op[r] = "archive" /\ HoldsService(r)

-----------------------------------------------------------------------------
(* One statement of a request.                                             *)

Goto(r, s) == step' = [step EXCEPT ![r] = s]

\* Slip: what was revoked stays so.
RollBackService(r) ==
    /\ Goto(r, "failed")
    /\ UNCHANGED <<tables, op, pending>>

\* Rolled back: the uncommitted changes are gone and so are the locks.
RollBack(r) ==
    /\ Goto(r, "failed")
    /\ todo' = [todo EXCEPT ![r] = {}]
    /\ revoked' = [revoked EXCEPT ![r] = {}]
    /\ retired' = [retired EXCEPT ![r] = {}]
    /\ UNCHANGED <<tables, op, base>>

Begin(r, o) == step[r] = "idle" /\ op' = [op EXCEPT ![r] = o]

\* The row handed to UpdateService was read some time before, from a replica
\* or in another request.
UpdateService(r) ==
    /\ Begin(r, "update")
    /\ \E h \in history : base' = [base EXCEPT ![r] = h]
    /\ Goto(r, "update")
    /\ UNCHANGED <<tables, todo, revoked, retired, faults>>

\* The others read the row at the start of their transaction, without a lock.
Read(r) == base' = [base EXCEPT ![r] = service]

\* Nothing is written for a service that is in the wanted state.
SuspendService(r) ==
    /\ Begin(r, "suspend") /\ Read(r)
    /\ Goto(r, IF service.active THEN "update" ELSE "done")
    /\ UNCHANGED <<tables, todo, revoked, retired, faults>>

ResumeService(r) ==
    /\ Begin(r, "resume") /\ Read(r)
    /\ Goto(r, IF service.active THEN "done" ELSE "update")
    /\ UNCHANGED <<tables, todo, revoked, retired, faults>>

\* Whether the service is active does not matter.
ArchiveService(r) ==
    /\ Begin(r, "archive") /\ Read(r)
    /\ Goto(r, "update")
    /\ UNCHANGED <<tables, todo, revoked, retired, faults>>

\* The row that r writes, made from the row that r read.
NewRow(r) ==
    [version |-> base[r].version + 1,
     active  |-> IF op[r] = "update" THEN base[r].active ELSE op[r] = "resume",
     named   |-> IF op[r] = "archive" THEN "archived" ELSE base[r].named,
     by      |-> r]

\* UPDATE services ... WHERE id = ...: waits for the lock and then writes over
\* whatever the row has become.
UpdateRow(r) ==
    /\ step[r] = "update"
    /\ \A q \in Request : ~HoldsService(q)
    /\ Goto(r, "history")
    /\ UNCHANGED <<tables, op, pending, faults>>

\* The version r is about to write is in the history already.
Overtaken(r) == \E h \in history : h.version = base[r].version + 1

\* Slip: ON CONFLICT DO NOTHING.
InsertServicesHistoryQuietly(r) ==
    /\ step[r] = "history"
    /\ Goto(r, IF op[r] = "archive" THEN "keys" ELSE "commit")
    /\ UNCHANGED <<tables, op, pending, faults>>

InsertServicesHistory(r) ==
    /\ step[r] = "history" /\ ~Overtaken(r)
    /\ Goto(r, IF op[r] = "archive" THEN "keys" ELSE "commit")
    /\ UNCHANGED <<tables, op, pending, faults>>

\* Slip: the error is returned and the transaction left open.
HistoryConflictLeaks(r) ==
    /\ step[r] = "history" /\ Overtaken(r)
    /\ UNCHANGED vars

HistoryConflict(r) ==
    /\ step[r] = "history" /\ Overtaken(r)
    /\ RollBack(r)
    /\ UNCHANGED faults

LiveKeys == {k \in Key : keys[k].version > 0 /\ ~keys[k].revoked}

ListKeys(r) ==
    /\ step[r] = "keys"
    /\ todo' = [todo EXCEPT ![r] = LiveKeys]
    /\ Goto(r, "revoke")
    /\ UNCHANGED <<tables, op, base, revoked, retired, faults>>

\* RevokeAPIKey of a key of this service, revoked before or not.
RevokeAPIKey(r, k) ==
    /\ Begin(r, "revokeKey")
    /\ keys[k].version > 0
    /\ todo' = [todo EXCEPT ![r] = {k}]
    /\ Goto(r, "revoke")
    /\ UNCHANGED <<tables, base, revoked, retired, faults>>

\* UPDATE api_keys ... SET version = version + 1 and its history row; the
\* UPDATE waits for the lock on the key.
RevokeKey(r, k) ==
    /\ step[r] = "revoke" /\ k \in todo[r]
    /\ \A q \in Request : ~HoldsKey(q, k)
    /\ todo' = [todo EXCEPT ![r] = @ \ {k}]
    /\ revoked' = [revoked EXCEPT ![r] = @ \cup {k}]
    /\ UNCHANGED <<tables, op, step, base, retired, faults>>

\* Slip: a revocation touches the row of its service after the key.
KeysRevokedThenService(r) ==
    /\ step[r] = "revoke" /\ todo[r] = {}
    /\ Goto(r, IF op[r] = "archive" THEN "templates" ELSE "update")
    /\ UNCHANGED <<tables, op, pending, faults>>

KeysRevoked(r) ==
    /\ step[r] = "revoke" /\ todo[r] = {}
    /\ Goto(r, IF op[r] = "archive" THEN "templates" ELSE "commit")
    /\ UNCHANGED <<tables, op, pending, faults>>

\* The templates that r has still to archive.
Remaining(r) == Template \ (archived \cup retired[r])

\* UPDATE templates SET archived = true leaves the version as it is; its
\* history row goes in if that version has none yet ...
ArchiveTemplate(r, t) ==
    /\ step[r] = "templates" /\ t \in Remaining(r) \ recorded
    /\ retired' = [retired EXCEPT ![r] = @ \cup {t}]
    /\ UNCHANGED <<tables, op, step, base, todo, revoked, faults>>

\* ... and is a key conflict otherwise, which undoes the whole request.
TemplateConflict(r, t) ==
    /\ step[r] = "templates" /\ t \in Remaining(r) \cap recorded
    /\ RollBack(r)
    /\ UNCHANGED faults

TemplatesArchived(r) ==
    /\ step[r] = "templates" /\ Remaining(r) = {}
    /\ Goto(r, "commit")
    /\ UNCHANGED <<tables, op, pending, faults>>

Committed(r, k) == [version |-> keys[k].version + 1, revoked |-> TRUE]

\* Slip: the history of the keys is written only by RevokeAPIKey.
CommitWithoutKeyHistory(r) ==
    /\ step[r] = "commit"
    /\ service' = IF op[r] \in RowOps THEN NewRow(r) ELSE service
    /\ history' = history \cup (IF op[r] \in RowOps THEN {NewRow(r)} ELSE {})
    /\ keys' = [k \in Key |-> IF k \in revoked[r] THEN Committed(r, k) ELSE keys[k]]
    /\ keyHistory' = [k \in Key |-> keyHistory[k] \cup
          (IF k \in revoked[r] /\ op[r] = "revokeKey" THEN {keys[k].version + 1} ELSE {})]
    /\ archived' = archived \cup retired[r]
    /\ recorded' = recorded \cup retired[r]
    /\ Goto(r, "done")
    /\ revoked' = [revoked EXCEPT ![r] = {}]
    /\ retired' = [retired EXCEPT ![r] = {}]
    /\ UNCHANGED <<op, base, todo, faults>>

Commit(r) ==
    /\ step[r] = "commit"
    /\ service' = IF op[r] \in RowOps THEN NewRow(r) ELSE service
    /\ history' = history \cup (IF op[r] \in RowOps THEN {NewRow(r)} ELSE {})
    /\ keys' = [k \in Key |-> IF k \in revoked[r] THEN Committed(r, k) ELSE keys[k]]
    /\ keyHistory' = [k \in Key |-> keyHistory[k] \cup
          (IF k \in revoked[r] THEN {keys[k].version + 1} ELSE {})]
    /\ archived' = archived \cup retired[r]
    /\ recorded' = recorded \cup retired[r]
    /\ Goto(r, "done")
    /\ revoked' = [revoked EXCEPT ![r] = {}]
    /\ retired' = [retired EXCEPT ![r] = {}]
    /\ UNCHANGED <<op, base, todo, faults>>

\* CreateAPIKey: the key is there, for everybody, as soon as its row is.
CreateAPIKey(r, k) ==
    /\ Begin(r, "createKey")
    /\ keys[k].version = 0
    /\ \A q \in Request : ~BlocksNewKeys(q)
    /\ keys' = [keys EXCEPT ![k].version = 1]
    /\ todo' = [todo EXCEPT ![r] = {k}]
    /\ Goto(r, "recordKey")
    /\ UNCHANGED <<service, history, keyHistory, archived, recorded, base, revoked, retired, faults>>

InsertAPIKeyHistory(r, k) ==
    /\ step[r] = "recordKey" /\ k \in todo[r]
    /\ keyHistory' = [keyHistory EXCEPT ![k] = @ \cup {1}]
    /\ todo' = [todo EXCEPT ![r] = {}]
    /\ Goto(r, "done")
    /\ UNCHANGED <<service, history, keys, archived, recorded, op, base, revoked, retired, faults>>

\* The next statement fails, or the process dies.
Fail(r) ==
    /\ step[r] \notin {"idle", "done", "failed"}
    /\ faults < MaxFaults /\ faults' = faults + 1
    /\ RollBack(r)

Proceed(r) ==
    \/ UpdateRow(r)
    \/ InsertServicesHistory(r) \/ HistoryConflict(r)
    \/ ListKeys(r) \/ KeysRevoked(r) \/ TemplatesArchived(r)
    \/ \E k \in Key : RevokeKey(r, k) \/ InsertAPIKeyHistory(r, k)
    \/ \E t \in Template : ArchiveTemplate(r, t) \/ TemplateConflict(r, t)
    \/ Commit(r)

Next ==
    \E r \in Request :
        \/ UpdateService(r) \/ SuspendService(r) \/ ResumeService(r) \/ ArchiveService(r)
        \/ \E k \in Key : RevokeAPIKey(r, k) \/ CreateAPIKey(r, k)
        \/ Proceed(r)
        \/ Fail(r)

Spec == Init /\ [][Next]_vars

\* A request that has begun issues its next statement, or fails.
FairSpec == Spec /\ \A r \in Request : WF_vars(Proceed(r))

-----------------------------------------------------------------------------
(* What the tables promise.                                                *)

\* Nobody's change is lost: although the UPDATE writes over whatever is there,
\* a change is committed only onto the very row it was made from.
NoLostUpdate ==
    [][service' # service => \E r \in Request : step[r] = "commit" /\ base[r] = service]_vars

\* The history holds each version of the service once, the present one as it is.
HistoryIsComplete ==
    /\ service \in history
    /\ {h.version : h \in history} = 1 .. service.version
    /\ \A g, h \in history : g.version = h.version => g = h

\* When a service is archived, no key and no template that anybody could have
\* used at that moment is left, one created while the request ran included.
ArchivingRetiresAll ==
    [][(service' # service /\ service'.named = "archived" /\ service.named = "plain")
          => /\ \A k \in Key : keys'[k].version > 0 => keys'[k].revoked
             /\ archived' = Template]_vars

\* Every version of a key is in the history, but for a first version whose
\* creation is still running or broke down between its two statements.
KeysAreRecorded ==
    /\ \A k \in Key : 2 .. keys[k].version \subseteq keyHistory[k]
    /\ Cardinality({k \in Key : keys[k].version > 0 /\ 1 \notin keyHistory[k]})
          <= faults + Cardinality({r \in Request : step[r] = "recordKey"})

\* The next statement of r, or the one after, wants a row that q has locked.
WaitsFor(r, q) ==
    \/ step[r] = "update" /\ HoldsService(q)
    \/ step[r] = "revoke" /\ \E k \in todo[r] : HoldsKey(q, k)

\* However many requests there are, they never wait for each other in a circle:
\* the longest wait is for an archiving that waits for a key to be revoked.
NobodyWaitsInACircle ==
    \A p, q, r, s \in Request : WaitsFor(p, q) /\ WaitsFor(q, r) => ~WaitsFor(r, s)

\* No request waits for ever for a lock.
EveryRequestEnds ==
    \A r \in Request : op[r] # "none" ~> step[r] \in {"done", "failed"}

-----------------------------------------------------------------------------
(* What the documentation says of it.                                      *)

\* behavioral-spec/services.md, "On archive: ... Marks all templates as
\* archived": an archiving that nobody overtook, with no statement failing,
\* does not fail.
ArchivingSucceeds ==
    \A r \in Request :
        op[r] = "archive" /\ step[r] = "failed" /\ faults = 0 => base[r] # service

=============================================================================
