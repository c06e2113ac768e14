------------------------- MODULE ServiceAuth_proofs -------------------------
(***************************************************************************)
(* Proofs about ServiceAuth, for any keys, requests, TTL, lag, length of   *)
(* the run and number of changes.                                          *)
(***************************************************************************)
EXTENDS ServiceAuth, TLAPS

\* The states that were the newest at a moment not before t - Lag.
Since(t) == {log[i] : i \in {j \in 1 .. Len(log) : j = Len(log) \/ log[j + 1].at + Lag >= t}}

\* Data was read, each part from some such state.
ActiveSeen(b, t) == \E s \in Since(t) : s.active = b
KeysSeen(ks, t) == \E s \in Since(t) : s.keys = ks

\* What a request has read so far.
RequestBacked(r) ==
    request[r].pc \notin Answer =>
        /\ request[r].since <= now
        /\ request[r].pc \in {"keys", "store"} =>
              ActiveSeen(request[r].data.active, request[r].since)
        /\ request[r].pc = "store" => KeysSeen(request[r].data.keys, request[r].since)
        /\ request[r].pc # "lookup" /\ request[r].scheme = "apikey" =>
              \E s \in Since(request[r].since) : request[r].key \in s.keys

CacheBacked ==
    cache # Nothing =>
        ActiveSeen(cache.data.active, cache.since) /\ KeysSeen(cache.data.keys, cache.since)

IInv == TypeOK /\ CacheBacked /\ \A r \in Request : RequestBacked(r)

-----------------------------------------------------------------------------
(* The log.                                                                *)

LEMMA TimesAreNat ==
    ASSUME TypeOK, NEW j \in 1 .. Len(log), j # Len(log)
    PROVE  log[j + 1].at \in Nat
<1>1. log \in Seq(State) /\ j + 1 \in 1 .. Len(log)
  BY DEF TypeOK
<1>2. log[j + 1] \in State
  BY <1>1
<1> QED
  BY <1>2 DEF State

\* A read from the replica sees a state that was the newest not before now - Lag.
LEMMA VisibleIsSince ==
    ASSUME TypeOK
    PROVE  Visible \subseteq Since(now)
<1>1. SUFFICES ASSUME NEW j \in 1 .. Len(log),
                      j = Len(log) \/ log[j + 1].at + Lag > now
               PROVE  log[j] \in Since(now)
  BY DEF Visible
<1>2. j = Len(log) \/ log[j + 1].at + Lag >= now
  BY <1>1, TimesAreNat, AuthAssumption DEF TypeOK
<1> QED
  BY <1>2 DEF Since

LEMMA LastIsSince ==
    ASSUME TypeOK, NEW t
    PROVE  log[Len(log)] \in Since(t)
  BY DEF TypeOK, Since

LEMMA SinceIsState ==
    ASSUME TypeOK, NEW t
    PROVE  Since(t) \subseteq State
  BY DEF TypeOK, Since

\* What was the newest since t stays so, whatever is committed and however
\* much time passes.
LEMMA SinceStays ==
    ASSUME TypeOK, NEW t \in Nat, t <= now,
           \/ UNCHANGED log
           \/ \E s \in State : s.at = now /\ log' = Append(log, s)
    PROVE  Since(t) \subseteq Since(t)'
<1>1. CASE UNCHANGED log
  BY <1>1 DEF Since
<1>2. CASE \E s \in State : s.at = now /\ log' = Append(log, s)
  <2>1. PICK s \in State : s.at = now /\ log' = Append(log, s)
    BY <1>2
  <2>2. SUFFICES ASSUME NEW i \in 1 .. Len(log),
                        i = Len(log) \/ log[i + 1].at + Lag >= t
                 PROVE  log[i] \in Since(t)'
    BY DEF Since
  <2>3. /\ i \in 1 .. Len(log') /\ log'[i] = log[i]
        /\ i = Len(log) => log'[i + 1] = s
        /\ i # Len(log) => log'[i + 1] = log[i + 1]
        /\ Len(log') = Len(log) + 1
    BY <2>1 DEF TypeOK
  <2>4. log'[i + 1].at + Lag >= t
    BY <2>1, <2>2, <2>3, AuthAssumption DEF TypeOK
  <2> QED
    BY <2>3, <2>4 DEF Since
<1> QED
  BY <1>1, <1>2

LEMMA SinceOfEarlier ==
    ASSUME TypeOK, NEW t \in Nat, NEW u \in Nat, t <= u
    PROVE  Since(u) \subseteq Since(t)
<1>1. SUFFICES ASSUME NEW j \in 1 .. Len(log),
                      j = Len(log) \/ log[j + 1].at + Lag >= u
               PROVE  log[j] \in Since(t)
  BY DEF Since
<1>2. j = Len(log) \/ log[j + 1].at + Lag >= t
  BY <1>1, TimesAreNat, AuthAssumption
<1> QED
  BY <1>2 DEF Since

\* How a state that was the newest since t is one of the last so many ticks.
LEMMA SinceIsRecent ==
    ASSUME TypeOK, NEW t \in Nat, NEW d \in Nat, t + d >= now
    PROVE  Since(t) \subseteq Recent(d)
<1>1. SUFFICES ASSUME NEW j \in 1 .. Len(log),
                      j = Len(log) \/ log[j + 1].at + Lag >= t
               PROVE  log[j] \in Recent(d)
  BY DEF Since
<1>2. j = Len(log) \/ log[j + 1].at + Lag + d >= now
  BY <1>1, TimesAreNat, AuthAssumption DEF TypeOK
<1> QED
  BY <1>2 DEF Recent

-----------------------------------------------------------------------------
(* Types.                                                                  *)

Change == SuspendService \/ ResumeService \/ ArchiveService
          \/ \E k \in Key : CreateAPIKey(k) \/ RevokeAPIKey(k)

\* A change commits a new state; whoever reads is left alone.
LEMMA ChangeAppends ==
    ASSUME TypeOK, Change
    PROVE  /\ \E s \in State : s.at = now /\ log' = Append(log, s)
           /\ UNCHANGED <<now, cache, request>>
<1>1. Last \in State
  BY DEF TypeOK, Last
<1>2. \E a \in BOOLEAN, ks \in SUBSET Key : Write(a, ks)
  <2>1. Last.active \in BOOLEAN /\ Last.keys \in SUBSET Key
    BY <1>1 DEF State
  <2>2. CASE SuspendService \/ ResumeService
    BY <2>1, <2>2 DEF SuspendService, ResumeService
  <2>3. CASE ArchiveService
    <3>1. Write(FALSE, {}) /\ {} \in SUBSET Key
      BY <2>3 DEF ArchiveService
    <3> QED
      BY <3>1
  <2>4. CASE \E k \in Key : CreateAPIKey(k)
    <3>1. PICK k \in Key : CreateAPIKey(k)
      BY <2>4
    <3>2. Last.keys \cup {k} \in SUBSET Key
      BY <2>1
    <3> QED
      BY <2>1, <3>1, <3>2 DEF CreateAPIKey
  <2>5. CASE \E k \in Key : RevokeAPIKey(k)
    <3>1. PICK k \in Key : RevokeAPIKey(k)
      BY <2>5
    <3>2. Last.keys \ {k} \in SUBSET Key
      BY <2>1
    <3> QED
      BY <2>1, <3>1, <3>2 DEF RevokeAPIKey
  <2> QED
    BY <2>2, <2>3, <2>4, <2>5 DEF Change
<1>3. PICK a \in BOOLEAN, ks \in SUBSET Key : Write(a, ks)
  BY <1>2
<1>4. [active |-> a, keys |-> ks, at |-> now] \in State
  BY DEF TypeOK, State
<1> QED
  BY <1>3, <1>4 DEF Write

LEMMA InitTypeOK == Init => TypeOK
<1> SUFFICES ASSUME Init PROVE TypeOK
  OBVIOUS
<1>1. PICK ks \in SUBSET Key : log = <<[active |-> TRUE, keys |-> ks, at |-> 0]>>
  BY DEF Init
<1>2. [active |-> TRUE, keys |-> ks, at |-> 0] \in State
  BY DEF State
<1>3. log \in Seq(State) \ {<< >>}
  BY <1>1, <1>2
<1> QED
  BY <1>3 DEF Init, TypeOK, Answered, Answer

\* Who answers leaves the place to another request.
LEMMA ReplyTypeOK ==
    ASSUME TypeOK, NEW r \in Request, NEW a \in Answer, Reply(r, a)
    PROVE  request' \in [Request -> Waiting \cup Answered]
  BY DEF TypeOK, Reply, Answered

\* Only a waiting request has somewhere to go on from.
LEMMA WaitingIsWaiting ==
    ASSUME TypeOK, NEW r \in Request, request[r].pc \notin Answer
    PROVE  request[r] \in Waiting
  BY DEF TypeOK, Answered

LEMMA DecideTypeOK ==
    ASSUME TypeOK, NEW r \in Request, NEW d, Decide(r, d)
    PROVE  request' \in [Request -> Waiting \cup Answered]
  BY ReplyTypeOK DEF Decide, Answer

LEMMA NextTypeOK == IInv /\ [Next]_vars => TypeOK'
<1> SUFFICES ASSUME TypeOK, \A r \in Request : RequestBacked(r), [Next]_vars PROVE TypeOK'
  BY DEF IInv
<1>1. CASE Change
  <2>1. PICK s \in State : s.at = now /\ log' = Append(log, s)
    BY <1>1, ChangeAppends
  <2>2. log' \in Seq(State) \ {<< >>}
    BY <2>1 DEF TypeOK
  <2> QED
    BY <1>1, <2>2, ChangeAppends DEF TypeOK
<1>2. ASSUME NEW r \in Request, NEW scheme \in Scheme, NEW k \in Key, RequireAuth(r, scheme, k)
      PROVE  TypeOK'
  <2>1. [pc |-> IF scheme = "jwt" THEN "cache" ELSE "lookup", scheme |-> scheme, key |-> k,
         data |-> [active |-> FALSE, keys |-> {}], since |-> now] \in Waiting
    BY DEF TypeOK, Waiting, Data
  <2> QED
    BY <1>2, <2>1 DEF RequireAuth, TypeOK
<1>3. ASSUME NEW r \in Request, LookUp(r)
      PROVE  TypeOK'
  <2>1. request[r] \in Waiting
    BY <1>3, WaitingIsWaiting DEF LookUp, Answer
  <2>2. Goto(r, "cache") => request' \in [Request -> Waiting \cup Answered]
    BY <2>1 DEF Goto, TypeOK, Waiting
  <2>3. Reply(r, "refused") => request' \in [Request -> Waiting \cup Answered]
    BY ReplyTypeOK DEF Answer
  <2> QED
    BY <1>3, <2>2, <2>3 DEF LookUp, TypeOK
<1>4. ASSUME NEW r \in Request, Hit(r)
      PROVE  TypeOK'
  BY <1>4, DecideTypeOK DEF Hit, TypeOK
<1>5. ASSUME NEW r \in Request, ReadService(r)
      PROVE  TypeOK'
  <2>1. request[r] \in Waiting
    BY <1>5, WaitingIsWaiting DEF ReadService, Answer
  <2>2. PICK s \in Visible :
          request' = [request EXCEPT ![r].pc = "keys", ![r].data.active = s.active,
                         ![r].since = IF request[r].scheme = "jwt" THEN now ELSE @]
    BY <1>5 DEF ReadService
  <2>3. s.active \in BOOLEAN
    BY VisibleIsSince, SinceIsState DEF State, TypeOK
  <2>4. [request[r] EXCEPT !.pc = "keys", !.data.active = s.active,
                           !.since = IF request[r].scheme = "jwt" THEN now ELSE @] \in Waiting
    BY <2>1, <2>3 DEF TypeOK, Waiting, Data
  <2>5. request' \in [Request -> Waiting \cup Answered]
    BY <2>2, <2>4 DEF TypeOK
  <2> QED
    BY <1>5, <2>5 DEF ReadService, TypeOK
<1>6. ASSUME NEW r \in Request, ReadKeys(r)
      PROVE  TypeOK'
  <2>1. request[r] \in Waiting
    BY <1>6, WaitingIsWaiting DEF ReadKeys, Answer
  <2>2. PICK s \in Visible :
          request' = [request EXCEPT ![r].pc = "store", ![r].data.keys = s.keys]
    BY <1>6 DEF ReadKeys
  <2>3. s.keys \in SUBSET Key
    BY VisibleIsSince, SinceIsState DEF State, TypeOK
  <2>4. [request[r] EXCEPT !.pc = "store", !.data.keys = s.keys] \in Waiting
    BY <2>1, <2>3 DEF Waiting, Data
  <2>5. request' \in [Request -> Waiting \cup Answered]
    BY <2>2, <2>4 DEF TypeOK
  <2> QED
    BY <1>6, <2>5 DEF ReadKeys, TypeOK
<1>7. ASSUME NEW r \in Request, ReadFails(r)
      PROVE  TypeOK'
  BY <1>7, ReplyTypeOK DEF ReadFails, TypeOK, Answer
<1>8. ASSUME NEW r \in Request, Store(r)
      PROVE  TypeOK'
  <2>1. request[r] \in Waiting /\ request[r].since <= now
    BY <1>8, WaitingIsWaiting DEF Store, Answer, RequestBacked
  <2>2. [data |-> request[r].data, since |-> request[r].since, at |-> now] \in Entry
    BY <2>1 DEF TypeOK, Waiting, Entry
  <2> QED
    BY <1>8, <2>1, <2>2, DecideTypeOK DEF Store, TypeOK
<1>9. CASE Tick
  BY <1>9 DEF Tick, TypeOK, Entry
<1>10. CASE UNCHANGED vars
  BY <1>10 DEF vars, TypeOK
<1> QED
  BY <1>1, <1>2, <1>3, <1>4, <1>5, <1>6, <1>7, <1>8, <1>9, <1>10 DEF Next, Change

-----------------------------------------------------------------------------
(* What was read stays backed.                                             *)

\* No step unsays what was seen.
LEMMA SeenStays ==
    ASSUME TypeOK, [Next]_vars, NEW t \in Nat, t <= now
    PROVE  Since(t) \subseteq Since(t)'
<1>1. UNCHANGED log \/ \E s \in State : s.at = now /\ log' = Append(log, s)
  BY ChangeAppends
     DEF Next, Change, vars, RequireAuth, LookUp, Hit, ReadService, ReadKeys, ReadFails, Store, Tick
<1> QED
  BY <1>1, SinceStays

LEMMA TimePasses ==
    ASSUME TypeOK, [Next]_vars
    PROVE  now' \in Nat /\ now <= now'
<1>1. now' = now \/ now' = now + 1
  BY ChangeAppends
     DEF Next, Change, vars, RequireAuth, LookUp, Hit, ReadService, ReadKeys, ReadFails, Store, Tick
<1> QED
  BY <1>1 DEF TypeOK

\* A request that no step touches stays backed, and so does one that is
\* answered.
LEMMA OthersStayBacked ==
    ASSUME IInv, [Next]_vars, NEW r \in Request,
           request'[r] = request[r] \/ request'[r].pc \in Answer
    PROVE  RequestBacked(r)'
<1>1. CASE request[r].pc \in Answer \/ request'[r].pc \in Answer
  BY <1>1 DEF RequestBacked
<1>2. CASE request[r].pc \notin Answer /\ request'[r] = request[r]
  <2>1. request[r] \in Waiting /\ request[r].since <= now
    BY <1>2, WaitingIsWaiting DEF IInv, RequestBacked
  <2>2. PICK t \in Nat : t = request[r].since
    BY <2>1 DEF Waiting
  <2>3. Since(t) \subseteq Since(t)'
    BY <2>1, <2>2, SeenStays DEF IInv
  <2>4. t <= now'
    BY <2>1, <2>2, TimePasses DEF IInv, TypeOK
  <2>5. Since(request[r].since) = Since(t) /\ Since(request[r].since)' = Since(t)'
    BY <1>2, <2>2 DEF Since
  <2> QED
    BY <1>2, <2>2, <2>3, <2>4, <2>5 DEF IInv, RequestBacked, ActiveSeen, KeysSeen
<1> QED
  BY <1>1, <1>2

\* A reply answers r and leaves the others alone.
LEMMA ReplyAnswers ==
    ASSUME TypeOK, NEW q \in Request, NEW a \in Answer, Reply(q, a), NEW r \in Request
    PROVE  request'[r] = request[r] \/ request'[r].pc \in Answer
  BY DEF Reply, TypeOK

LEMMA DecideAnswers ==
    ASSUME TypeOK, NEW q \in Request, NEW d, Decide(q, d), NEW r \in Request
    PROVE  request'[r] = request[r] \/ request'[r].pc \in Answer
  BY ReplyAnswers DEF Decide, Answer

LEMMA NextRequestBacked ==
    ASSUME IInv, [Next]_vars, NEW r \in Request
    PROVE  RequestBacked(r)'
<1> USE DEF IInv
<1>1. CASE Change \/ Tick \/ UNCHANGED vars
  <2>1. request' = request
    BY <1>1, ChangeAppends DEF Tick, vars
  <2> QED
    BY <2>1, OthersStayBacked
<1>2. ASSUME NEW q \in Request, NEW scheme \in Scheme, NEW k \in Key, RequireAuth(q, scheme, k)
      PROVE  RequestBacked(r)'
  <2>1. CASE q = r
    <3>1. /\ request'[r].pc \in {"cache", "lookup"} /\ request'[r].since = now
          /\ request'[r].scheme = "apikey" => request'[r].pc = "lookup"
          /\ now' = now
      BY <1>2, <2>1 DEF RequireAuth, TypeOK
    <3> QED
      BY <3>1 DEF RequestBacked, TypeOK
  <2>2. CASE q # r
    <3>1. request'[r] = request[r]
      BY <1>2, <2>2 DEF RequireAuth, TypeOK
    <3> QED
      BY <3>1, OthersStayBacked
  <2> QED
    BY <2>1, <2>2
<1>3. ASSUME NEW q \in Request, LookUp(q)
      PROVE  RequestBacked(r)'
  <2>1. CASE Reply(q, "refused")
    BY <2>1, ReplyAnswers, OthersStayBacked DEF Answer
  <2>2. CASE (\E s \in Visible : request[q].key \in s.keys) /\ Goto(q, "cache")
    <3>1. CASE q = r
      <4>1. /\ request[r] \in Waiting /\ request[r].since <= now
            /\ request'[r] = [request[r] EXCEPT !.pc = "cache"]
            /\ UNCHANGED <<now, log>>
        BY <1>3, <2>2, <3>1, WaitingIsWaiting DEF LookUp, Goto, TypeOK, Answer, RequestBacked
      <4>2. PICK s \in Visible : request[r].key \in s.keys
        BY <2>2, <3>1
      <4>3. s \in Since(request[r].since)
        BY <4>1, <4>2, VisibleIsSince, SinceOfEarlier DEF Waiting, TypeOK
      <4>4. request'[r].since = request[r].since
        BY <4>1 DEF Waiting
      <4>5. s \in Since(request[r].since)'
        BY <4>1, <4>3, <4>4 DEF Since
      <4> QED
        BY <4>1, <4>2, <4>4, <4>5 DEF RequestBacked, Waiting
    <3>2. CASE q # r
      <4>1. request'[r] = request[r]
        BY <2>2, <3>2 DEF Goto, TypeOK
      <4> QED
        BY <4>1, OthersStayBacked
    <3> QED
      BY <3>1, <3>2
  <2> QED
    BY <1>3, <2>1, <2>2 DEF LookUp
<1>4. ASSUME NEW q \in Request, Hit(q) \/ Store(q)
      PROVE  RequestBacked(r)'
  <2>1. \E d : Decide(q, d)
    BY <1>4 DEF Hit, Store
  <2> QED
    BY <2>1, DecideAnswers, OthersStayBacked
<1>5. ASSUME NEW q \in Request, ReadService(q)
      PROVE  RequestBacked(r)'
  <2>1. PICK s \in Visible :
          request' = [request EXCEPT ![q].pc = "keys", ![q].data.active = s.active,
                         ![q].since = IF request[q].scheme = "jwt" THEN now ELSE @]
    BY <1>5 DEF ReadService
  <2>2. CASE q = r
    <3>1. /\ request[r] \in Waiting /\ request[r].since <= now /\ request[r].pc = "cache"
          /\ UNCHANGED <<now, log>>
      BY <1>5, <2>2, WaitingIsWaiting DEF ReadService, Answer, RequestBacked
    <3>2. /\ request'[r].pc = "keys" /\ request'[r].data.active = s.active
          /\ request'[r].since \in {now, request[r].since}
          /\ request'[r].scheme = request[r].scheme /\ request'[r].key = request[r].key
          /\ request[r].scheme = "apikey" => request'[r].since = request[r].since
      BY <2>1, <2>2, <3>1 DEF TypeOK, Waiting, Data
    <3>3. request'[r].since \in Nat /\ request'[r].since <= now
      BY <3>1, <3>2 DEF TypeOK, Waiting
    <3>4. PICK t \in Nat : t = request'[r].since
      BY <3>3
    <3>5. s \in Since(t) /\ (request[r].scheme = "apikey" => Since(t) = Since(request[r].since))
      BY <2>1, <3>2, <3>3, <3>4, VisibleIsSince, SinceOfEarlier DEF TypeOK
    <3>6. Since(t) = Since(request[r].since)'
      BY <3>1, <3>4 DEF Since
    <3>7. request[r].scheme = "apikey" =>
             \E x \in Since(t) : request[r].key \in x.keys
      BY <3>1, <3>5 DEF RequestBacked, Answer
    <3> QED
      BY <3>1, <3>2, <3>3, <3>5, <3>6, <3>7 DEF RequestBacked, ActiveSeen
  <2>3. CASE q # r
    <3>1. request'[r] = request[r]
      BY <2>1, <2>3 DEF TypeOK
    <3> QED
      BY <3>1, OthersStayBacked
  <2> QED
    BY <2>2, <2>3
<1>6. ASSUME NEW q \in Request, ReadKeys(q)
      PROVE  RequestBacked(r)'
  <2>1. PICK s \in Visible :
          request' = [request EXCEPT ![q].pc = "store", ![q].data.keys = s.keys]
    BY <1>6 DEF ReadKeys
  <2>2. CASE q = r
    <3>1. /\ request[r] \in Waiting /\ request[r].since <= now /\ request[r].pc = "keys"
          /\ UNCHANGED <<now, log>>
      BY <1>6, <2>2, WaitingIsWaiting DEF ReadKeys, Answer, RequestBacked
    <3>2. /\ request'[r].pc = "store" /\ request'[r].data.active = request[r].data.active
          /\ request'[r].data.keys = s.keys
          /\ request'[r].since = request[r].since
          /\ request'[r].scheme = request[r].scheme /\ request'[r].key = request[r].key
      BY <2>1, <2>2, <3>1 DEF TypeOK, Waiting, Data
    <3>3. s \in Since(request[r].since)
      BY <2>1, <3>1, VisibleIsSince, SinceOfEarlier DEF TypeOK, Waiting
    <3>4. Since(request[r].since) = Since(request[r].since)'
      BY <3>1, <3>2 DEF Since
    <3> QED
      BY <3>1, <3>2, <3>3, <3>4 DEF RequestBacked, ActiveSeen, KeysSeen, Answer
  <2>3. CASE q # r
    <3>1. request'[r] = request[r]
      BY <2>1, <2>3 DEF TypeOK
    <3> QED
      BY <3>1, OthersStayBacked
  <2> QED
    BY <2>2, <2>3
<1>7. ASSUME NEW q \in Request, ReadFails(q)
      PROVE  RequestBacked(r)'
  BY <1>7, ReplyAnswers, OthersStayBacked DEF ReadFails, Answer
<1> QED
  BY <1>1, <1>2, <1>3, <1>4, <1>5, <1>6, <1>7 DEF Next, Change

LEMMA NextCacheBacked ==
    ASSUME IInv, [Next]_vars
    PROVE  CacheBacked'
<1>1. CASE cache' = cache
  <2>1. SUFFICES ASSUME cache # Nothing PROVE CacheBacked'
    BY <1>1 DEF CacheBacked
  <2>2. cache \in Entry /\ cache.since <= now
    BY <2>1 DEF IInv, TypeOK, Entry
  <2>3. PICK t \in Nat : t = cache.since
    BY <2>2 DEF Entry
  <2>4. Since(t) \subseteq Since(t)'
    BY <2>2, <2>3, SeenStays DEF IInv
  <2>5. Since(cache.since) = Since(t) /\ Since(cache.since)' = Since(t)'
    BY <1>1, <2>3 DEF Since
  <2> QED
    BY <1>1, <2>1, <2>4, <2>5 DEF IInv, CacheBacked, ActiveSeen, KeysSeen
<1>2. ASSUME NEW r \in Request, Store(r), cache' # cache
      PROVE  CacheBacked'
  <2>1. /\ cache' = [data |-> request[r].data, since |-> request[r].since, at |-> now]
        /\ request[r].pc = "store" /\ log' = log
    BY <1>2 DEF Store
  <2>2. /\ ActiveSeen(request[r].data.active, request[r].since)
        /\ KeysSeen(request[r].data.keys, request[r].since)
    BY <2>1 DEF IInv, RequestBacked, Answer
  <2>3. Since(request[r].since) = Since(cache.since)'
    BY <2>1 DEF Since
  <2> QED
    BY <2>1, <2>2, <2>3 DEF CacheBacked, ActiveSeen, KeysSeen
<1>3. cache' = cache \/ \E r \in Request : Store(r)
  BY ChangeAppends DEF IInv, Next, Change, vars, RequireAuth, LookUp, Hit, ReadService, ReadKeys,
                       ReadFails, Tick
<1> QED
  BY <1>1, <1>2, <1>3

LEMMA InitIInv == Init => IInv
<1> SUFFICES ASSUME Init PROVE IInv
  OBVIOUS
<1>1. \A r \in Request : request[r].pc \in Answer
  BY DEF Init, Answer
<1>2. cache = Nothing
  BY DEF Init
<1> QED
  BY <1>1, <1>2, InitTypeOK DEF IInv, CacheBacked, RequestBacked

LEMMA NextIInv == IInv /\ [Next]_vars => IInv'
  BY NextTypeOK, NextCacheBacked, NextRequestBacked DEF IInv

-----------------------------------------------------------------------------
(* The theorems.                                                           *)

\* Every copy and every request under way holds, for each of its parts, what
\* the database said at some moment since its first read.
THEOREM Backed == Spec => []IInv
  BY InitIInv, NextIInv, PTL DEF Spec

\* Types, and no copy dates from the future.
THEOREM TypeCorrect == Spec => []TypeOK
  BY Backed, PTL DEF IInv

\* A reply comes from a look-up that found no key, from a copy, or from what
\* the request has read itself.
LEMMA WhoReplies ==
    ASSUME TypeOK, Next, NEW r \in Request, NEW a \in {"accepted", "refused"}, Replies(r, a)
    PROVE  \/ LookUp(r) /\ a = "refused"
              /\ \E s \in Visible : request[r].key \notin s.keys
           \/ /\ request[r].pc = "cache" /\ cache # Nothing
              /\ Unexpired(cache) /\ (a = "accepted" <=> Granted(r, cache.data))
           \/ /\ request[r].pc = "store"
              /\ a = "accepted" <=> Granted(r, request[r].data)
<1>1. request'[r] # request[r] /\ request'[r] = [pc |-> a] /\ request'[r].pc = a
  BY DEF Replies, Answer
<1>2. a \in {"accepted", "refused"} /\ a \in Answer
  BY DEF Answer
<1>3. CASE Change \/ Tick
  BY <1>1, <1>3, ChangeAppends DEF Tick
<1>4. ASSUME NEW q \in Request, NEW scheme \in Scheme, NEW k \in Key, RequireAuth(q, scheme, k)
      PROVE  FALSE
  <2>1. request'[r] = request[r] \/ request'[r].pc \in {"cache", "lookup"}
    BY <1>4 DEF RequireAuth, TypeOK
  <2> QED
    BY <1>1, <1>2, <2>1
<1>5. ASSUME NEW q \in Request,
             LookUp(q) \/ Hit(q) \/ ReadService(q) \/ ReadKeys(q) \/ ReadFails(q) \/ Store(q)
      PROVE  q = r
  BY <1>1, <1>5 DEF TypeOK, LookUp, Hit, ReadService, ReadKeys, ReadFails, Store, Goto, Reply,
                    Decide
<1>6. CASE LookUp(r)
  <2>1. Goto(r, "cache") => request'[r].pc = "cache"
    BY DEF Goto, TypeOK, Replies, Answered
  <2>2. Reply(r, "refused") => request'[r].pc = "refused"
    BY DEF Reply, TypeOK
  <2> QED
    BY <1>1, <1>6, <2>1, <2>2 DEF LookUp
<1>7. ASSUME NEW d, Decide(r, d)
      PROVE  a = "accepted" <=> Granted(r, d)
  BY <1>1, <1>7 DEF Decide, Reply, TypeOK
<1>8. CASE Hit(r) \/ Store(r)
  BY <1>7, <1>8 DEF Hit, Store
<1>9. CASE ReadService(r) \/ ReadKeys(r)
  <2>1. request[r] \in Waiting
    BY <1>9, WaitingIsWaiting DEF ReadService, ReadKeys, Answer
  <2>2. ReadService(r) => request'[r].pc = "keys"
    BY <2>1 DEF ReadService, TypeOK, Waiting, Data
  <2>3. ReadKeys(r) => request'[r].pc = "store"
    BY <2>1 DEF ReadKeys, TypeOK, Waiting, Data
  <2> QED
    BY <1>1, <1>2, <1>9, <2>2, <2>3
<1>10. CASE ReadFails(r)
  BY <1>1, <1>10 DEF ReadFails, Reply, TypeOK
<1> QED
  BY <1>3, <1>4, <1>5, <1>6, <1>8, <1>9, <1>10 DEF Next, Change

LEMMA ReplyIsBacked ==
    ASSUME IInv, Next, NEW r \in Request, NEW a \in {"accepted", "refused"}, Replies(r, a),
           request[r].pc \in {"cache", "store"}
    PROVE  \E d \in Data : /\ a = "accepted" <=> Granted(r, d)
                           /\ Stale(r) \in Nat
                           /\ \E s \in Recent(Stale(r)) : s.active = d.active
                           /\ \E s \in Recent(Stale(r)) : s.keys = d.keys
<1> USE DEF IInv
<1>1. CASE request[r].pc = "cache"
  <2>1. cache # Nothing /\ Unexpired(cache) /\ (a = "accepted" <=> Granted(r, cache.data))
    BY <1>1, WhoReplies DEF LookUp
  <2>2. cache \in Entry /\ cache.since <= cache.at /\ cache.at <= now
    BY <2>1 DEF TypeOK
  <2>3. PICK t \in Nat : t = cache.since
    BY <2>2 DEF Entry
  <2>4. PICK d \in Nat : d = Stale(r)
    BY <1>1, <2>2, AuthAssumption DEF Stale, Entry
  <2>5. t + d >= now
    BY <1>1, <2>1, <2>2, <2>3, <2>4, AuthAssumption DEF Stale, Entry, Unexpired, TypeOK
  <2>6. Since(cache.since) \subseteq Recent(Stale(r))
    BY <2>3, <2>4, <2>5, SinceIsRecent
  <2> QED
    BY <2>1, <2>2, <2>4, <2>6 DEF CacheBacked, ActiveSeen, KeysSeen, Entry
<1>2. CASE request[r].pc = "store"
  <2>1. a = "accepted" <=> Granted(r, request[r].data)
    BY <1>2, WhoReplies DEF LookUp
  <2>2. request[r] \in Waiting /\ RequestBacked(r)
    BY <1>2, WaitingIsWaiting DEF Answer
  <2>3. PICK t \in Nat : t = request[r].since
    BY <2>2 DEF Waiting
  <2>4. t <= now /\ Stale(r) = now - t
    BY <1>2, <2>2, <2>3 DEF RequestBacked, Answer, Stale, Own
  <2>5. PICK d \in Nat : d = Stale(r) /\ t + d >= now
    BY <2>4 DEF TypeOK
  <2>6. Since(request[r].since) \subseteq Recent(Stale(r))
    BY <2>3, <2>5, SinceIsRecent
  <2> QED
    BY <1>2, <2>1, <2>2, <2>5, <2>6 DEF RequestBacked, ActiveSeen, KeysSeen, Waiting, Answer
<1> QED
  BY <1>1, <1>2

\* The key of an API-key request was found by the request's own look-up.
LEMMA OwnLookUp ==
    ASSUME IInv, NEW r \in Request, request[r].pc \in {"cache", "store"},
           request[r].scheme = "apikey"
    PROVE  LiveRecently(request[r].key, Own(r))
<1> USE DEF IInv
<1>1. request[r] \in Waiting /\ RequestBacked(r)
  BY WaitingIsWaiting DEF Answer
<1>2. PICK t \in Nat : t = request[r].since
  BY <1>1 DEF Waiting
<1>3. t <= now /\ Own(r) = now - t
  BY <1>1, <1>2 DEF RequestBacked, Answer, Own
<1>4. PICK d \in Nat : d = Own(r) /\ t + d >= now
  BY <1>3 DEF TypeOK
<1>5. Since(request[r].since) \subseteq Recent(Own(r))
  BY <1>2, <1>4, SinceIsRecent
<1> QED
  BY <1>1, <1>5 DEF RequestBacked, Answer, LiveRecently

\* Whoever is let in was allowed in recently, for any TTL, any lag, and fills
\* of any length that overlap in any way.
THEOREM AcceptanceIsRecent == Spec => AcceptedWasAllowed
<1>1. ASSUME IInv, Next, NEW r \in Request, Replies(r, "accepted")
      PROVE  /\ ActiveRecently(Stale(r))
             /\ LiveRecently(request[r].key,
                             IF request[r].scheme = "jwt" THEN Stale(r) ELSE Own(r))
  <2>1. request[r].pc \in {"cache", "store"}
    BY <1>1, WhoReplies DEF IInv
  <2>2. PICK d \in Data : /\ Granted(r, d)
                          /\ \E s \in Recent(Stale(r)) : s.active = d.active
                          /\ \E s \in Recent(Stale(r)) : s.keys = d.keys
    BY <1>1, <2>1, ReplyIsBacked
  <2>3. request[r] \in Waiting
    BY <2>1, <1>1, WaitingIsWaiting DEF IInv, Answer
  <2>4. ActiveRecently(Stale(r))
    <3>1. d.active = TRUE
      BY <2>2 DEF Granted, Data
    <3> QED
      BY <2>2, <3>1, Zenon DEF ActiveRecently
  <2>5. CASE request[r].scheme = "jwt"
    <3>1. request[r].key \in d.keys
      BY <2>2, <2>5 DEF Granted
    <3> QED
      BY <2>2, <2>4, <2>5, <3>1 DEF LiveRecently
  <2>6. CASE request[r].scheme = "apikey"
    BY <1>1, <2>1, <2>3, <2>4, <2>6, OwnLookUp
  <2> QED
    BY <2>3, <2>4, <2>5, <2>6 DEF Waiting, Scheme
<1>2. IInv /\ [Next]_vars =>
        [\A r \in Request : Replies(r, "accepted") =>
            /\ ActiveRecently(Stale(r))
            /\ LiveRecently(request[r].key,
                            IF request[r].scheme = "jwt" THEN Stale(r) ELSE Own(r))]_vars
  BY <1>1
<1> QED
  BY <1>2, Backed, PTL DEF Spec, AcceptedWasAllowed

\* And whoever is kept out was not allowed in recently.
THEOREM RefusalIsRecent == Spec => RefusedWasBarred
<1>1. ASSUME IInv, Next, NEW r \in Request, Replies(r, "refused")
      PROVE  \E s \in Recent(Stale(r)) : ~s.active \/ request[r].key \notin s.keys
  <2>1. CASE request[r].pc \in {"cache", "store"}
    <3>1. PICK d \in Data : /\ ~Granted(r, d)
                            /\ \E s \in Recent(Stale(r)) : s.active = d.active
                            /\ \E s \in Recent(Stale(r)) : s.keys = d.keys
      BY <1>1, <2>1, ReplyIsBacked
    <3> QED
      BY <3>1 DEF Granted
  <2>2. CASE LookUp(r) /\ \E s \in Visible : request[r].key \notin s.keys
    <3>1. request[r] \in Waiting /\ request[r].since <= now /\ request[r].pc = "lookup"
      BY <1>1, <2>2, WaitingIsWaiting DEF LookUp, IInv, RequestBacked, Answer
    <3>2. PICK d \in Nat : d = Stale(r)
      BY <1>1, <3>1 DEF Stale, Own, Waiting, IInv, TypeOK
    <3>3. now \in Nat /\ now + d >= now
      BY <1>1, <3>2 DEF IInv, TypeOK
    <3>4. Visible \subseteq Recent(Stale(r))
      BY <1>1, <3>2, <3>3, VisibleIsSince, SinceIsRecent DEF IInv
    <3> QED
      BY <2>2, <3>4
  <2> QED
    BY <1>1, <2>1, <2>2, WhoReplies DEF IInv
<1>2. IInv /\ [Next]_vars =>
        [\A r \in Request : Replies(r, "refused") =>
            \E s \in Recent(Stale(r)) : ~s.active \/ request[r].key \notin s.keys]_vars
  BY <1>1
<1> QED
  BY <1>2, Backed, PTL DEF Spec, RefusedWasBarred
=============================================================================
