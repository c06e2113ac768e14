---------------------------- MODULE ServiceAuth -----------------------------
(***************************************************************************)
(* Authentication of requests to one service (middleware/auth.go,          *)
(* RequireAuth): a Redis copy of the service and its keys, filled by three *)
(* separate reads from a database replica and used for up to TTL, while    *)
(* the service is suspended, resumed and archived and its keys are created *)
(* and revoked on the primary.  Nobody invalidates the copy.               *)
(*                                                                         *)
(* Of a service only what decides is kept: whether it is active and which  *)
(* keys have not expired.  A key of another service, or one whose secret   *)
(* was never stored, is a key that is never created.  A request without a  *)
(* well-formed, unexpired credential is refused before any of this is      *)
(* looked at and does not occur here.                                      *)
(***************************************************************************)
EXTENDS Naturals, Sequences

CONSTANTS
    Key,
    Request,        \* the requests the API handles at a time
    TTL,            \* serviceAuthCacheTTL
    Lag,            \* what a read from the replica may be behind, 0 without one
    MaxTime,        \* bound on the clock
    MaxWrites,      \* bound on the changes of the service and its keys
    Nothing         \* no entry in Redis

ASSUME AuthAssumption ==
    TTL \in Nat /\ Lag \in Nat /\ MaxTime \in Nat /\ MaxWrites \in Nat

Data == [active : BOOLEAN, keys : SUBSET Key]

\* A state of the database, and when it was committed.
State == [active : BOOLEAN, keys : SUBSET Key, at : Nat]

\* A copy, when the reads it is made of began and when it was stored.
Entry == [data : Data, since : Nat, at : Nat]

\* Nothing is no entry.
ASSUME NothingAssumption == Nothing \notin Entry

VARIABLES
    now,
    log,        \* the states of the database, the newest last
    cache,      \* the entry in Redis, or Nothing
    request     \* request[r]: how far r has come and what it has read

vars == <<now, log, cache, request>>

Scheme == {"jwt", "apikey"}

Answer == {"accepted", "refused", "failed"}

\* A request is waiting for its next read, or answered; one that has not come
\* yet counts as answered.  No guard reads since,
\* when its first read was begun.
Waiting == [pc : {"lookup", "cache", "keys", "store"}, scheme : Scheme, key : Key,
            data : Data, since : Nat]
Answered == [pc : Answer]

TypeOK ==
    /\ now \in Nat
    /\ log \in Seq(State) \ {<< >>}
    /\ cache \in Entry \cup {Nothing}
    /\ cache # Nothing => cache.since <= cache.at /\ cache.at <= now
    /\ request \in [Request -> Waiting \cup Answered]

Init ==
    /\ now = 0
    /\ \E ks \in SUBSET Key : log = <<[active |-> TRUE, keys |-> ks, at |-> 0]>>
    /\ cache = Nothing
    /\ request = [r \in Request |-> [pc |-> "failed"]]

-----------------------------------------------------------------------------
(* The database.                                                           *)

Last == log[Len(log)]

\* What a read from the replica may see: a state that was the newest no longer
\* ago than Lag.
Visible == {log[i] : i \in {j \in 1 .. Len(log) : j = Len(log) \/ log[j + 1].at + Lag > now}}

Write(active, keys) ==
    /\ Len(log) <= MaxWrites
    /\ log' = Append(log, [active |-> active, keys |-> keys, at |-> now])
    /\ UNCHANGED <<now, cache, request>>

SuspendService == Last.active /\ Write(FALSE, Last.keys)

ResumeService == ~Last.active /\ Write(TRUE, Last.keys)

\* All keys are revoked in the transaction.
ArchiveService == (Last.active \/ Last.keys # {}) /\ Write(FALSE, {})

\* The id and the secret of a key are new.
CreateAPIKey(k) ==
    /\ \A i \in 1 .. Len(log) : k \notin log[i].keys
    /\ Write(Last.active, Last.keys \cup {k})

RevokeAPIKey(k) == k \in Last.keys /\ Write(Last.active, Last.keys \ {k})

-----------------------------------------------------------------------------
(* Redis.  A call that fails, an entry that was evicted and a cache that is *)
(* switched off look alike: there is no copy, or none is kept.              *)

\* Slip: the entry is stored without a time to live.
NeverExpires(e) == TRUE

Unexpired(e) == now < e.at + TTL

-----------------------------------------------------------------------------
(* One request.                                                            *)

Goto(r, pc) == request' = [request EXCEPT ![r].pc = pc]

\* The request goes on to its handler, or ends with 403.
Reply(r, answer) == request' = [request EXCEPT ![r] = [pc |-> answer]]

\* RequireAuth: a JWT names its service, which is loaded with its keys; an API
\* key is looked up itself, before its service is loaded.  Another request
\* takes the place of one that is answered.
RequireAuth(r, scheme, k) ==
    /\ request[r].pc \in Answer
    /\ request' = [request EXCEPT ![r] =
                      [pc     |-> IF scheme = "jwt" THEN "cache" ELSE "lookup",
                       scheme |-> scheme, key |-> k,
                       data   |-> [active |-> FALSE, keys |-> {}], since |-> now]]
    /\ UNCHANGED <<now, log, cache>>

\* GetAPIKeyBySecret for the secret as each of the configured secrets signs
\* it: at most one is stored, and not seen once it has expired.
LookUp(r) ==
    /\ request[r].pc = "lookup"
    /\ \E s \in Visible :
          IF request[r].key \in s.keys THEN Goto(r, "cache") ELSE Reply(r, "refused")
    /\ UNCHANGED <<now, log, cache>>

\* The service has to be active, for either kind of credential; a JWT has to
\* be signed by one of the keys that were loaded with it.
Granted(r, data) ==
    data.active /\ (request[r].scheme = "jwt" => request[r].key \in data.keys)

Decide(r, data) == Reply(r, IF Granted(r, data) THEN "accepted" ELSE "refused")

\* loadServiceAuth: there is a copy.
Hit(r) ==
    /\ request[r].pc = "cache"
    /\ cache # Nothing /\ Unexpired(cache)
    /\ Decide(r, cache.data)
    /\ UNCHANGED <<now, log, cache>>

\* There is none: GetServiceByIDWithAPIKeys reads the service, without its
\* keys.  The permissions, which are read next, decide nothing here.
ReadService(r) ==
    /\ request[r].pc = "cache"
    /\ \E s \in Visible :
          request' = [request EXCEPT ![r].pc = "keys", ![r].data.active = s.active,
                         ![r].since = IF request[r].scheme = "jwt" THEN now ELSE @]
    /\ UNCHANGED <<now, log, cache>>

\* GetAPIKeysByServiceID: those that have not expired.
ReadKeys(r) ==
    /\ request[r].pc = "keys"
    /\ \E s \in Visible :
          request' = [request EXCEPT ![r].pc = "store", ![r].data.keys = s.keys]
    /\ UNCHANGED <<now, log, cache>>

\* Slip: a list of keys that could not be read counts as empty.
ReadFailsQuietly(r) ==
    /\ request[r].pc \in {"lookup", "cache", "keys"}
    /\ IF request[r].pc = "keys" THEN Goto(r, "store") ELSE Reply(r, "failed")
    /\ UNCHANGED <<now, log, cache>>

\* A read that fails ends the request with 403.
ReadFails(r) ==
    /\ request[r].pc \in {"lookup", "cache", "keys"}
    /\ Reply(r, "failed")
    /\ UNCHANGED <<now, log, cache>>

\* The entry is stored, whatever was stored meanwhile, or Redis fails; the
\* request is answered from what it has read.
Store(r) ==
    /\ request[r].pc = "store"
    /\ \/ cache' = [data |-> request[r].data, since |-> request[r].since, at |-> now]
       \/ UNCHANGED cache
    /\ Decide(r, request[r].data)
    /\ UNCHANGED <<now, log>>

Tick ==
    /\ now < MaxTime
    /\ now' = now + 1
    /\ UNCHANGED <<log, cache, request>>

Next ==
    \/ SuspendService \/ ResumeService \/ ArchiveService
    \/ \E k \in Key : CreateAPIKey(k) \/ RevokeAPIKey(k)
    \/ \E r \in Request :
          \/ \E scheme \in Scheme, k \in Key : RequireAuth(r, scheme, k)
          \/ LookUp(r) \/ Hit(r) \/ ReadService(r) \/ ReadKeys(r) \/ ReadFails(r)
          \/ Store(r)
    \/ Tick

Spec == Init /\ [][Next]_vars

-----------------------------------------------------------------------------
(* What authentication promises.                                           *)

\* The states that were the newest at a moment less than Lag and stale ago.
Recent(stale) ==
    {log[i] : i \in {j \in 1 .. Len(log) : j = Len(log) \/ log[j + 1].at + Lag + stale >= now}}

ActiveRecently(stale) == \E s \in Recent(stale) : s.active
LiveRecently(k, stale) == \E s \in Recent(stale) : k \in s.keys

\* How long ago, plus Lag, r's first read may have been: a copy serves for TTL
\* after it is stored, and is as old as its first read then.
Own(r) == now - request[r].since
Stale(r) == IF request[r].pc = "cache" THEN TTL + (cache.at - cache.since) ELSE Own(r)

Replies(r, answer) == request[r].pc \notin Answer /\ request'[r] = [pc |-> answer]

\* auth.go:236: the copy may be stale, its parts are read apart, and a slow
\* fill may put an old one over a newer.  Even so a request is accepted only
\* if its service was active, and its key live, no longer ago than TTL, the
\* age of the copy when it was stored and the replica's lag; an API key,
\* which is looked up each time, within the request itself and that lag.
AcceptedWasAllowed ==
    [][\A r \in Request : Replies(r, "accepted") =>
          /\ ActiveRecently(Stale(r))
          /\ LiveRecently(request[r].key,
                          IF request[r].scheme = "jwt" THEN Stale(r) ELSE Own(r))]_vars

\* And a request that is refused although no read failed is one whose service
\* was suspended, or whose key did not exist or was revoked, as recently: the
\* copy that lets a revoked key in keeps a new one out no longer.
RefusedWasBarred ==
    [][\A r \in Request : Replies(r, "refused") =>
          \E s \in Recent(Stale(r)) : ~s.active \/ request[r].key \notin s.keys]_vars

=============================================================================
