-------------------------- MODULE ProviderSwitch --------------------------
(***************************************************************************)
(* The SMS rows of provider_details: the administrator changes them        *)
(* (handler/providers/handlers.go) and a failed text makes the delivery    *)
(* worker toggle the provider (repository/providers/wrappers.go).  Every   *)
(* statement commits by itself: nothing here runs in a transaction.  The   *)
(* UPDATE of a row writes all its columns, made from what was read before. *)
(***************************************************************************)
EXTENDS Integers, Sequences, FiniteSets

CONSTANTS
    Provider,       \* the SMS providers
    Pinpoint, Sns,  \* the two that the choice of a provider tells apart
    NoProvider,     \* the target of a request that is not a toggle
    Rank,           \* Rank[p]: the place of p's display name in the alphabet
    Priorities,     \* the priorities in the table at first
    Change,         \* what an administrator may ask for
    Keep,           \* a field that is absent from the request
    Request,        \* the administrator's requests and the failed texts
    MaxFaults       \* bound on statements that fail

ASSUME ProviderAssumption ==
    /\ {Pinpoint, Sns} \subseteq Provider /\ NoProvider \notin Provider
    /\ Rank \in [Provider -> Nat]
    /\ \A p, q \in Provider : Rank[p] = Rank[q] => p = q
    /\ Priorities \subseteq Int
    /\ Change \subseteq [priority : Int \cup {Keep}, active : BOOLEAN \cup {Keep}]
    /\ Keep \notin Int
    /\ MaxFaults \in Nat

\* There are two clients for texts, and each has one row.
ASSUME TwoProviders == Provider = {Pinpoint, Sns} /\ Pinpoint # Sns

ASSUME RequestsAreFinite == IsFiniteSet(Request)

VARIABLES
    rows,           \* provider_details
    history,        \* history[p]: the rows of p in provider_details_history
    step,           \* step[r]: the statement r issues next
    target,         \* target[r]: the provider r toggles
    todo,           \* todo[r]: the updates r has still to make
    base,           \* base[r]: the row r read last
    disturbed,      \* the requests during which another one wrote a row
    faults          \* statements that failed so far

tables == <<rows, history>>
vars == <<tables, step, target, todo, base, disturbed, faults>>

Row == [priority : Int, active : BOOLEAN, version : Nat \ {0}]

Update == [id : Provider, priority : Int \cup {Keep}, active : BOOLEAN \cup {Keep}]

TypeOK ==
    /\ rows \in [Provider -> Row]
    /\ history \in [Provider -> SUBSET Row]
    /\ step \in [Request -> {"idle", "target", "current", "read", "update", "history",
                             "done", "failed"}]
    /\ target \in [Request -> Provider \cup {NoProvider}]
    /\ todo \in [Request -> Seq(Update)]
    /\ base \in [Request -> Row]
    /\ disturbed \subseteq Request
    /\ faults \in 0 .. MaxFaults
    /\ \A r \in Request :
          /\ Len(todo[r]) <= 2
          /\ step[r] \in {"read", "update", "history"} => todo[r] # <<>>
          /\ step[r] \in {"target", "current"} => target[r] \in Provider

\* A new row has version 1 and one history row.
Init ==
    /\ \E priority \in [Provider -> Priorities] :
          rows = [p \in Provider |-> [priority |-> priority[p], active |-> TRUE, version |-> 1]]
    /\ history = [p \in Provider |-> {rows[p]}]
    /\ step = [r \in Request |-> "idle"]
    /\ target = [r \in Request |-> NoProvider]
    /\ todo = [r \in Request |-> <<>>]
    /\ base = [r \in Request |-> rows[Sns]]
    /\ disturbed = {}
    /\ faults = 0

-----------------------------------------------------------------------------
(* ORDER BY priority, display_name.                                        *)

Before(p, q) ==
    \/ rows[p].priority < rows[q].priority
    \/ rows[p].priority = rows[q].priority /\ Rank[p] < Rank[q]

First(S) == CHOOSE p \in S : \A q \in S \ {p} : Before(p, q)

Active == {p \in Provider : rows[p].active}

\* GetCurrentProvider, which ignores who the text is for.
CurrentProvider == IF Active = {} THEN NoProvider ELSE First(Active)

\* ProviderToUse takes Pinpoint or SNS out, by the recipient and the template.
Candidates == {Active \ {Sns}, Active \ {Pinpoint}} \ {{}}

-----------------------------------------------------------------------------

Goto(r, s) == step' = [step EXCEPT ![r] = s]

\* POST /provider-details/{id}
UpdateProviderByID(r) ==
    /\ step[r] = "idle"
    /\ \E p \in Provider, c \in Change :
          todo' = [todo EXCEPT
              ![r] = <<[id |-> p, priority |-> c.priority, active |-> c.active]>>]
    /\ Goto(r, "read")
    /\ UNCHANGED <<tables, target, base, disturbed, faults>>

\* A text that was handed to the provider chosen for it fails; the provider to
\* switch to, GetAlternativeSMSProvider says, is that one.
ToggleSMSProvider(r) ==
    /\ step[r] = "idle"
    /\ \E S \in Candidates : target' = [target EXCEPT ![r] = First(S)]
    /\ Goto(r, "target")
    /\ UNCHANGED <<tables, todo, base, disturbed, faults>>

ReadTarget(r) ==
    /\ step[r] = "target"
    /\ base' = [base EXCEPT ![r] = rows[target[r]]]
    /\ Goto(r, IF rows[target[r]].active THEN "current" ELSE "done")
    /\ UNCHANGED <<tables, target, todo, disturbed, faults>>

\* Slip: equal priorities are exchanged like others.
ExchangeAlways(t, c) == IF t >= c THEN <<c, t>> ELSE <<t, c>>

\* The new priorities of the target, now t, and of the current provider, now c.
Exchange(t, c) ==
    IF t > c THEN <<c, t>> ELSE IF t = c THEN <<t, c + 10>> ELSE <<t, c>>

ReadCurrent(r) ==
    /\ step[r] = "current"
    /\ IF CurrentProvider \in {NoProvider, target[r]}
          THEN /\ Goto(r, "done")
               /\ UNCHANGED todo
          ELSE /\ Goto(r, "read")
               /\ LET new == Exchange(base[r].priority, rows[CurrentProvider].priority)
                  IN  todo' = [todo EXCEPT ![r] =
                         <<[id |-> target[r], priority |-> new[1], active |-> Keep],
                           [id |-> CurrentProvider, priority |-> new[2], active |-> Keep]>>]
    /\ UNCHANGED <<tables, target, base, disturbed, faults>>

-----------------------------------------------------------------------------
(* UpdateProviderDetails.                                                  *)

ReadRow(r) ==
    /\ step[r] = "read"
    /\ base' = [base EXCEPT ![r] = rows[Head(todo[r]).id]]
    /\ Goto(r, "update")
    /\ UNCHANGED <<tables, target, todo, disturbed, faults>>

\* What r makes of the row that it read.
Written(r) ==
    LET u == Head(todo[r])
    IN  [priority |-> IF u.priority = Keep THEN base[r].priority ELSE u.priority,
         active   |-> IF u.active = Keep THEN base[r].active ELSE u.active,
         version  |-> base[r].version + 1]

\* The requests that have read something and are not over.
Underway == {r \in Request : step[r] \in {"current", "read", "update", "history"}}

UpdateProvider(r) ==
    /\ step[r] = "update"
    /\ rows' = [rows EXCEPT ![Head(todo[r]).id] = Written(r)]
    /\ disturbed' = disturbed \cup (Underway \ {r})
    /\ Goto(r, "history")
    /\ UNCHANGED <<history, target, todo, base, faults>>

\* That version of the provider is in the history.
Recorded(p, v) == \E h \in history[p] : h.version = v

\* Slip: the end of the list is not noticed.
MoveOnForEver(r) ==
    /\ todo' = [todo EXCEPT ![r] = Tail(@)]
    /\ Goto(r, "read")

MoveOn(r) ==
    /\ todo' = [todo EXCEPT ![r] = Tail(@)]
    /\ Goto(r, IF Len(todo[r]) = 1 THEN "done" ELSE "read")

\* Slip: only the provider that is switched to gets a history row.
InsertTargetHistory(r) ==
    /\ step[r] = "history" /\ ~Recorded(Head(todo[r]).id, Written(r).version)
    /\ history' = [history EXCEPT ![Head(todo[r]).id] =
          IF target[r] \in {NoProvider, Head(todo[r]).id} THEN @ \cup {Written(r)} ELSE @]
    /\ MoveOn(r)
    /\ UNCHANGED <<rows, target, base, disturbed, faults>>

\* Slip: the history row is made from what was read, not from what was written.
InsertReadRow(r) ==
    /\ step[r] = "history" /\ ~Recorded(Head(todo[r]).id, Written(r).version)
    /\ history' = [history EXCEPT ![Head(todo[r]).id] =
          @ \cup {[base[r] EXCEPT !.version = @ + 1]}]
    /\ MoveOn(r)
    /\ UNCHANGED <<rows, target, base, disturbed, faults>>

InsertProviderHistory(r) ==
    /\ step[r] = "history" /\ ~Recorded(Head(todo[r]).id, Written(r).version)
    /\ history' = [history EXCEPT ![Head(todo[r]).id] = @ \cup {Written(r)}]
    /\ MoveOn(r)
    /\ UNCHANGED <<rows, target, base, disturbed, faults>>

\* The primary key of the history is (id, version): the row has been changed,
\* the request is answered with an error.
HistoryConflict(r) ==
    /\ step[r] = "history" /\ Recorded(Head(todo[r]).id, Written(r).version)
    /\ Goto(r, "failed")
    /\ UNCHANGED <<tables, target, todo, base, disturbed, faults>>

\* The next statement fails, or the process dies: what was done stays.
Fail(r) ==
    /\ step[r] \notin {"idle", "done", "failed"}
    /\ faults < MaxFaults /\ faults' = faults + 1
    /\ Goto(r, "failed")
    /\ UNCHANGED <<tables, target, todo, base, disturbed>>

Next ==
    \E r \in Request :
        \/ UpdateProviderByID(r)
        \/ ToggleSMSProvider(r)
        \/ ReadTarget(r) \/ ReadCurrent(r)
        \/ ReadRow(r) \/ UpdateProvider(r)
        \/ InsertProviderHistory(r) \/ HistoryConflict(r)
        \/ Fail(r)

Spec == Init /\ [][Next]_vars

-----------------------------------------------------------------------------
(* What remains true although nothing is done in a transaction.            *)

\* The updates of p whose history row is still to come.
Pending(p) == {r \in Request : step[r] = "history" /\ Head(todo[r]).id = p}

\* However requests overlap, each version that a row has had is in its history,
\* but for those whose history row is being written and one for each failure.
VersionsAreRecorded ==
    LET Missing(p) == {v \in 1 .. rows[p].version : ~Recorded(p, v)}
    IN  \A p \in Provider : Cardinality(Missing(p)) <= Cardinality(Pending(p)) + faults

\* A row differs from what its history says of it only when requests overlapped
\* or one failed half-way.
HistoryTellsRow ==
    \A p \in Provider :
        rows[p] \in history[p] \/ Pending(p) # {} \/ disturbed # {} \/ faults > 0

\* A switch during which nobody else wrote makes its target the current provider.
SwitchTakesEffect ==
    [][\A r \in Request \ disturbed :
         target[r] # NoProvider /\ step[r] = "history" /\ step'[r] = "done"
            => CurrentProvider' = target[r]]_vars

=============================================================================
