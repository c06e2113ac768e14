-------------------------- MODULE ServiceCallbacks --------------------------
(***************************************************************************)
(* The callbacks of one service: the rows of service_callback_api and of   *)
(* service_inbound_api, with their history tables                          *)
(* (repository/services/dao.go).  A bearer token is stored signed; the     *)
(* secrets change while the processes are redeployed one by one, and       *)
(* ResignServiceCallbacks brings the stored tokens up to date.             *)
(*                                                                         *)
(* The schema keeps callback types apart with a unique constraint, but has *)
(* none on the service of an inbound row: two transactions that do not see *)
(* each other's row leave the service with two.                            *)
(*                                                                         *)
(* A transaction's writes take effect together when it commits: what else  *)
(* touches the row waits for its lock, or does not see it yet.  A call     *)
(* that fails, or whose process dies, before it commits leaves nothing     *)
(* behind, as if it had never gone on.                                     *)
(***************************************************************************)
EXTENDS Naturals, Sequences

CONSTANTS
    Slot,           \* the callback types, and the inbound API
    Unique,         \* those of which the schema admits one row: the callback types
    Suspendable,    \* those that can be suspended: delivery status
    Resignable,     \* those ResignServiceCallbacks reads: the callback types
    Id,             \* uuids
    Text,           \* url and bearer token
    Secret,
    Process,
    Rollout,        \* the lists of secrets that are deployed one after another
    MaxVersion,     \* bound on version
    Absent

ASSUME CallbackAssumption ==
    /\ Unique \subseteq Slot /\ Suspendable \subseteq Slot /\ Resignable \subseteq Slot
    /\ Rollout \in Seq(Seq(Secret) \ {<< >>}) /\ Rollout # << >>
    /\ MaxVersion \in Nat \ {0}

Row == [slot : Slot, version : 1 .. MaxVersion, text : Text, secret : Secret, suspended : BOOLEAN]

\* No row is Absent.
ASSUME AbsentAssumption == Absent \notin Row

VARIABLES
    row,        \* row[i]: the row whose primary key is i, or Absent
    history,    \* the history rows, with the token and without its signature
    call,       \* call[p]: what p has read and is about to write, or its uncommitted row
    stage,      \* stage[p]: the list of secrets that p runs with
    rewritten   \* the tokens were re-signed after all had the newest secret

vars == <<row, history, call, stage, rewritten>>

Record == [id : Id, version : 1 .. MaxVersion, text : Text, suspended : BOOLEAN]
Update == [id : Id, text : Text]
Idle == [kind |-> "idle"]
Call == {Idle} \cup [kind : {"upsert", "insert"}, id : Id, row : Row]
               \cup [kind : {"resign"}, updates : SUBSET Update, last : BOOLEAN]

TypeOK ==
    /\ row \in [Id -> Row \cup {Absent}]
    /\ history \subseteq Record
    /\ call \in [Process -> Call]
    /\ stage \in [Process -> 1 .. Len(Rollout)]
    /\ rewritten \in BOOLEAN

Init ==
    /\ row = [i \in Id |-> Absent]
    /\ history = {}
    /\ call = [p \in Process |-> Idle]
    /\ stage = [p \in Process |-> 1]
    /\ rewritten = FALSE

-----------------------------------------------------------------------------
(* Signing.                                                                *)

secrets(p) == Rollout[stage[p]]

\* Slip: the oldest secret signs.
signWithLast(p) == secrets(p)[Len(secrets(p))]

\* The first secret signs; every one of the list is accepted.
currentAPIKeySecret(p) == secrets(p)[1]

Accepts(p, k) == \E i \in 1 .. Len(secrets(p)) : secrets(p)[i] = k

-----------------------------------------------------------------------------
(* The tables.                                                             *)

Recorded(i, v) == \E h \in history : h.id = i /\ h.version = v

HistoryOf(i, r) == [id |-> i, version |-> r.version, text |-> r.text, suspended |-> r.suspended]

\* No committed row is of s.
Vacant(s) == \A i \in Id : row[i] # Absent => row[i].slot # s

\* Return ends p's call.
Return(p) == call' = [call EXCEPT ![p] = Idle]

\* p has r in hand, under the id i: read (upsert), or inserted and uncommitted.
Hold(p, k, i, r) == call' = [call EXCEPT ![p] = [kind |-> k, id |-> i, row |-> r]]

New(p, s, t, v) == [slot |-> s, version |-> v, text |-> t,
                    secret |-> currentAPIKeySecret(p), suspended |-> FALSE]

\* The id is new: nothing recorded has it, nor any row about to be committed.
Unused(i) ==
    /\ \A h \in history : h.id # i
    /\ \A q \in Process : call[q].kind = "insert" => call[q].id # i

\* Slip: the version is left for later calls to count.
SaveUnversioned(p, s) ==
    /\ call[p] = Idle /\ Vacant(s)
    /\ \E i \in Id, t \in Text : Unused(i) /\ Hold(p, "insert", i, New(p, s, t, 0))
    /\ UNCHANGED <<row, history, stage, rewritten>>

\* SaveServiceCallbackApi, SaveServiceInboundApi: the upsert, with a new uuid,
\* inserts where it sees no row.  Where it sees one it updates it and returns
\* nothing, so that the call ends with sql.ErrNoRows and leaves no trace.
Save(p, s) ==
    /\ call[p] = Idle /\ Vacant(s)
    /\ \E i \in Id, t \in Text : Unused(i) /\ Hold(p, "insert", i, New(p, s, t, 1))
    /\ UNCHANGED <<row, history, stage, rewritten>>

\* The row, where there is one and its token can be read, is read inside the
\* transaction but not locked.
Modify(p, i, t, b) ==
    /\ call[p] = Idle
    /\ row[i] # Absent /\ Accepts(p, row[i].secret)
    /\ row[i].version < MaxVersion
    /\ Hold(p, "upsert", i, [row[i] EXCEPT !.version = @ + 1, !.text = t, !.suspended = b,
                                           !.secret = currentAPIKeySecret(p)])
    /\ UNCHANGED <<row, history, stage, rewritten>>

\* ResetServiceCallbackApi, ResetServiceInboundApi: what the request does not
\* name stays as it was read.  Of several inbound rows the query returns any
\* one; if it is not the one asked for nothing happens.
Reset(p, i) == row[i] # Absent /\ \E t \in Text : Modify(p, i, t, row[i].suspended)

\* SuspendUnsuspendCallbackApi.
Suspend(p, i) ==
    /\ row[i] # Absent /\ row[i].slot \in Suspendable
    /\ \E b \in BOOLEAN : Modify(p, i, row[i].text, b)

\* The upsert of the row that was read.  If a row is there, whichever, it is
\* updated and nothing is returned: the caller rolls back.  If none is there
\* any more the row is inserted again.
Upsert(p) ==
    /\ call[p].kind = "upsert"
    /\ \/ Vacant(call[p].row.slot) /\ Hold(p, "insert", call[p].id, call[p].row)
       \/ ~Vacant(call[p].row.slot) /\ Return(p)
    /\ UNCHANGED <<row, history, stage, rewritten>>

\* Slip: a version that is in the history already is taken for recorded.
AdmitsRecorded(i, r) == row[i] = Absent /\ (r.slot \in Unique => Vacant(r.slot))

\* No key stands against r: that of the table, that of its type, or that of
\* the history.
Admits(i, r) ==
    /\ row[i] = Absent
    /\ r.slot \in Unique => Vacant(r.slot)
    /\ ~Recorded(i, r.version)

\* The history insert and the commit of what was inserted.  A transaction whose
\* key another holds uncommitted waits for it, and rolls back if it commits.
Commit(p) ==
    /\ call[p].kind = "insert"
    /\ \/ /\ Admits(call[p].id, call[p].row)
          /\ row' = [row EXCEPT ![call[p].id] = call[p].row]
          /\ history' = history \cup {HistoryOf(call[p].id, call[p].row)}
       \/ ~Admits(call[p].id, call[p].row) /\ UNCHANGED <<row, history>>
    /\ Return(p)
    /\ UNCHANGED <<stage, rewritten>>

\* DeleteServiceCallbackApi, DeleteServiceInboundApi: a DELETE by id, after
\* the id was found on the replica; if it is not found there nothing happens.
Delete(i) ==
    /\ row[i] # Absent
    /\ row' = [row EXCEPT ![i] = Absent]
    /\ UNCHANGED <<history, call, stage, rewritten>>

-----------------------------------------------------------------------------
(* ResignServiceCallbacks.                                                 *)

Stored == {i \in Id : row[i] # Absent /\ row[i].slot \in Resignable}

\* Every process signs with the secret that is to stay.
AllSignNew == \A p \in Process : currentAPIKeySecret(p) = Rollout[Len(Rollout)][1]

\* All tokens are read first; one that no secret of p fits ends the call,
\* unless it may be taken without (unsafe).
ResignRead(p) ==
    /\ call[p] = Idle
    /\ \E unsafe \in BOOLEAN : unsafe \/ \A i \in Stored : Accepts(p, row[i].secret)
    /\ call' = [call EXCEPT ![p] =
                   [kind |-> "resign", last |-> AllSignNew,
                    updates |-> {[id |-> i, text |-> row[i].text] : i \in Stored}]]
    /\ UNCHANGED <<row, history, stage, rewritten>>

\* Slip: every row is given a token of the list.
ResignAny(p) ==
    /\ call[p].kind = "resign"
    /\ row' = [i \in Id |->
                  IF row[i] # Absent /\ call[p].updates # {}
                  THEN [row[i] EXCEPT !.secret = currentAPIKeySecret(p),
                                      !.text = (CHOOSE u \in call[p].updates : TRUE).text]
                  ELSE row[i]]
    /\ rewritten' = (rewritten \/ call[p].last)
    /\ Return(p)
    /\ UNCHANGED <<history, stage>>

\* Then each is written back by id: no version, no history, and no look at
\* what the row says by now.
ResignWrite(p) ==
    /\ call[p].kind = "resign"
    /\ row' = [i \in Id |->
                  IF row[i] # Absent /\ \E u \in call[p].updates : u.id = i
                  THEN [row[i] EXCEPT !.secret = currentAPIKeySecret(p),
                                      !.text = (CHOOSE u \in call[p].updates : u.id = i).text]
                  ELSE row[i]]
    /\ rewritten' = (rewritten \/ call[p].last)
    /\ Return(p)
    /\ UNCHANGED <<history, stage>>

-----------------------------------------------------------------------------
(* Deployment.                                                             *)

\* p is restarted with the next list of secrets: not before all have the list
\* it runs with, and one that drops a secret not before the tokens have been
\* re-signed with the newest.
Deploy(p) ==
    /\ stage[p] < Len(Rollout)
    /\ \A q \in Process : stage[q] >= stage[p]
    /\ rewritten \/ \A i \in 1 .. Len(secrets(p)) :
                       \E j \in 1 .. Len(Rollout[stage[p] + 1]) :
                          Rollout[stage[p] + 1][j] = secrets(p)[i]
    /\ stage' = [stage EXCEPT ![p] = @ + 1]
    /\ Return(p)
    /\ UNCHANGED <<row, history, rewritten>>

Next ==
    \/ \E i \in Id : Delete(i)
    \/ \E p \in Process :
          \/ \E s \in Slot : Save(p, s)
          \/ \E i \in Id : Reset(p, i) \/ Suspend(p, i)
          \/ Upsert(p) \/ Commit(p)
          \/ ResignRead(p) \/ ResignWrite(p)
          \/ Deploy(p)

Spec == Init /\ [][Next]_vars

-----------------------------------------------------------------------------
(* What the callbacks promise.                                             *)

\* A call that read its row before a DELETE brings the row back.  It is the
\* key of the history table that lets only the newest state of an id come
\* back: a live row is recorded, and nothing newer of its id is, whatever
\* calls overlap and in whatever order they end.
LiveIsNewest ==
    \A i \in Id : row[i] # Absent =>
        /\ Recorded(i, row[i].version)
        /\ \A h \in history : h.id = i => h.version <= row[i].version

\* The token of a row is one that was recorded for its id: re-signing, which
\* writes what it read earlier, gives no callback the token of another.
TokenIsItsOwn ==
    \A i \in Id : row[i] # Absent => \E h \in history : h.id = i /\ h.text = row[i].text

\* While the secrets are rotated each process can read every callback's token:
\* none that signs with the old secret is left when it is dropped.
TokensStayReadable ==
    \A i \in Stored, p \in Process : Accepts(p, row[i].secret)

-----------------------------------------------------------------------------
(* What the documentation says of it.                                      *)

\* repository-layer/spec.md, "UpsertCallbackAPI creates or replaces callback
\* config ... the existing row is updated": a reset or suspension whose row is
\* there when it is written takes effect.
UpdateTakesEffect ==
    [][\A p \in Process :
          call[p].kind = "upsert" /\ call'[p] = Idle /\ stage' = stage
            => (row[call[p].id] # Absent => row'[call[p].id] = call[p].row)]_vars

=============================================================================
