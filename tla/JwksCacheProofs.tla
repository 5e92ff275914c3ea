---------------------------- MODULE JwksCacheProofs ----------------------------
(***************************************************************************)
(* The key cache keeps its promises for any keys, requests and limits that *)
(* CacheAssumption allows.                                                 *)
(***************************************************************************)
EXTENDS JwksCache, Integers, TLAPS

(* Ticks, limits and NULL are told apart. *)
LEMMA TimesAreNumbers ==
  /\ CacheTTL \in Nat /\ RefreshCooldown \in Nat /\ FetchTimeout \in Nat
  /\ FetchTimeout < RefreshCooldown /\ RefreshCooldown <= CacheTTL
  /\ NULL \notin Nat /\ NULL \notin Keys /\ NULL \notin Requests
  /\ NULL # "ok" /\ NULL # "refused"
BY CacheAssumption

(* Answering or cancelling a request leaves the others where they are. *)
LEMMA AnswerIsTyped ==
  ASSUME TypeOK, NEW r \in Requests, NEW a \in {"ok", "refused", NULL}, Answer(r, a)
  PROVE  /\ requests' \in [Requests -> Request]
         /\ requests'[r].at = "idle" /\ requests'[r].answer = a
         /\ \A q \in Requests \ {r} : requests'[q] = requests[q]
<1>1. [IdleRequest EXCEPT !.answer = a] \in Request
  BY DEF IdleRequest, Request, Stages
<1>2. /\ [IdleRequest EXCEPT !.answer = a].at = "idle"
      /\ [IdleRequest EXCEPT !.answer = a].answer = a
  BY DEF IdleRequest
<1> QED BY <1>1, <1>2 DEF TypeOK, Answer

-------------------------------------------------------------------------------
(***************************************************************************)
(* A step that only answers request r and drops its hold on the mutex.     *)
(***************************************************************************)
LEMMA LeavingKeepsInv ==
  ASSUME CacheInv, NEW r \in Requests, NEW a \in {"ok", "refused", NULL},
         Answer(r, a), holder' = holder \/ holder' = NULL,
         holder = r => holder' = NULL, holder' = NULL => holder \in {r, NULL},
         UNCHANGED <<now, provider, cache, begun>>
  PROVE  CacheInv'
<1> USE TimesAreNumbers DEF CacheInv
<1>1. /\ requests' \in [Requests -> Request] /\ requests'[r].at = "idle"
      /\ \A q \in Requests \ {r} : requests'[q] = requests[q]
  BY AnswerIsTyped
<1>2. UNCHANGED <<now, published, withdrawn, cache, begun>>
  BY DEF provider
<1>3. TypeOK'
  BY <1>1, <1>2 DEF TypeOK
<1>4. Past'
  BY <1>2 DEF Past
<1>5. OneFetch'
  BY <1>1, <1>2 DEF OneFetch, Fetching, TypeOK, Succeeded
<1>6. Seen'
  BY <1>1, <1>2 DEF Seen, OfferedSince, Offered, Succeeded
<1>7. Joined'
  BY <1>1, <1>2 DEF Joined, Waiting
<1> QED BY <1>3, <1>4, <1>5, <1>6, <1>7

LEMMA ProviderKeepsInv ==
  ASSUME CacheInv, NEW k \in Keys, Publish(k) \/ Withdraw(k)
  PROVE  CacheInv'
<1> USE TimesAreNumbers DEF CacheInv
<1>1. UNCHANGED <<now, cache, holder, requests, begun>>
  BY DEF Publish, Withdraw
<1>2. now \in Nat /\ published \in [Keys -> Time] /\ withdrawn \in [Keys -> Time]
  BY DEF TypeOK
<1>3. /\ published' \in [Keys -> Time] /\ withdrawn' \in [Keys -> Time]
      /\ \A j \in Keys : /\ published'[j] = published[j] \/ (published[j] = NULL /\ published'[j] = now)
                         /\ withdrawn'[j] = withdrawn[j]
                              \/ (j \in Offered /\ withdrawn'[j] = now)
  BY <1>2 DEF Publish, Withdraw, Time
<1>4. TypeOK'
  BY <1>1, <1>3 DEF TypeOK
<1>5. Past'
  BY <1>1, <1>2, <1>3 DEF Past, Offered, Time
<1>6. OneFetch' /\ Joined'
  BY <1>1 DEF OneFetch, Joined, Waiting, Fetching, Succeeded
<1>7. Seen'
  <2>1. /\ cache.last_attempt # NULL => cache.last_attempt \in Nat /\ cache.last_attempt <= now
        /\ cache.fetched_at # NULL => /\ cache.fetched_at \in Nat /\ cache.fetched_at <= now
                                      /\ cache.last_attempt # NULL
        /\ cache.keys \subseteq Keys
    BY DEF TypeOK, Cache, Time, Past
  <2>2. ASSUME NEW keys \in SUBSET Keys, cache.last_attempt # NULL,
               OfferedSince(keys, cache.last_attempt)
        PROVE  OfferedSince(keys, cache.last_attempt)'
    BY <1>1, <1>2, <1>3, <2>1, <2>2 DEF OfferedSince, Offered, Time
  <2>3. ASSUME NEW r \in Requests, requests[r].at = "received"
        PROVE  OfferedSince(requests[r].got, cache.last_attempt)'
    <3>1. requests[r].got \in SUBSET Keys /\ cache.last_attempt # NULL
      BY <2>3 DEF TypeOK, Request, OneFetch, Fetching
    <3> QED BY <1>1, <2>2, <2>3, <3>1 DEF Seen
  <2>4. ASSUME NEW j \in cache.keys, cache.fetched_at # NULL
        PROVE  /\ published'[j] # NULL
               /\ withdrawn'[j] # NULL => cache.fetched_at <= withdrawn'[j] + FetchTimeout
    BY <1>2, <1>3, <2>1, <2>4 DEF Seen, Time
  <2>5. Succeeded => OfferedSince(cache.keys, cache.last_attempt)'
    BY <1>1, <2>1, <2>2 DEF Seen, Succeeded
  <2> QED BY <1>1, <2>3, <2>4, <2>5 DEF Seen, Succeeded
<1> QED BY <1>4, <1>5, <1>6, <1>7

LEMMA TickKeepsInv ==
  ASSUME CacheInv, Tick
  PROVE  CacheInv'
<1> USE TimesAreNumbers DEF CacheInv
<1>1. now' = now + 1 /\ now \in Nat /\ UNCHANGED <<published, withdrawn, cache, holder, requests, begun>>
  BY DEF Tick, provider, TypeOK
<1>2. cache.last_attempt \in Time /\ cache.fetched_at \in Time
  BY DEF TypeOK, Cache
<1>3. TypeOK'
  BY <1>1 DEF TypeOK
<1>4. Past'
  BY <1>1, <1>2 DEF Past, TypeOK, Time
<1>5. holder # NULL => cache.last_attempt # NULL /\ now' <= cache.last_attempt + FetchTimeout
  BY <1>1, <1>2 DEF Tick, OneFetch, TypeOK, Time
<1>6. OneFetch'
  BY <1>1, <1>5 DEF OneFetch, Fetching, Succeeded
<1>7. Seen'
  BY <1>1 DEF Seen, OfferedSince, Offered, Succeeded
<1>8. Joined'
  <2> SUFFICES ASSUME NEW r \in Requests, Waiting(r)
               PROVE  /\ requests[r].asked <= now'
                      /\ \/ requests[r].asked = now'
                         \/ /\ cache.last_attempt # NULL
                            /\ cache.last_attempt <= requests[r].asked
                            /\ now' <= cache.last_attempt + FetchTimeout
    BY <1>1 DEF Joined, Waiting
  <2>1. requests[r].asked \in Nat /\ requests[r].asked <= now
    BY DEF TypeOK, Request, Joined
  <2>2. requests[r].at = "waiting" \/ Fetching(r)
    BY DEF TypeOK, Request, Stages, Waiting, Fetching
  <2>3. holder # NULL
    BY <2>2 DEF Tick, OneFetch
  <2>4. cache.last_attempt <= requests[r].asked
    BY <1>1, <1>2, <1>5, <2>1, <2>3 DEF Joined, Past, Time
  <2> QED BY <1>1, <1>5, <2>1, <2>3, <2>4
<1> QED BY <1>3, <1>4, <1>6, <1>7, <1>8

LEMMA AskKeepsInv ==
  ASSUME CacheInv, NEW r \in Requests, NEW k \in Keys, Ask(r, k)
  PROVE  CacheInv'
<1> USE TimesAreNumbers DEF CacheInv
<1> DEFINE new == [IdleRequest EXCEPT !.at = "waiting", !.key = k, !.asked = now]
<1>1. /\ requests[r].at = "idle" /\ requests' = [requests EXCEPT ![r] = new]
      /\ UNCHANGED <<now, published, withdrawn, cache, holder, begun>>
  BY DEF Ask, provider
<1>2. /\ new \in Request /\ new.at = "waiting" /\ new.key = k /\ new.asked = now
  BY DEF IdleRequest, Request, Stages, TypeOK
<1>3. /\ requests' \in [Requests -> Request] /\ requests'[r] = new
      /\ \A q \in Requests \ {r} : requests'[q] = requests[q]
  BY <1>1, <1>2 DEF TypeOK
<1> HIDE DEF new
<1>4. TypeOK'
  BY <1>1, <1>3 DEF TypeOK
<1>5. Past'
  BY <1>1 DEF Past
<1>6. OneFetch'
  BY <1>1, <1>2, <1>3 DEF OneFetch, Fetching, Succeeded
<1>7. Seen'
  BY <1>1, <1>2, <1>3 DEF Seen, OfferedSince, Offered, Succeeded
<1>8. Joined'
  BY <1>1, <1>2, <1>3 DEF Joined, Waiting, TypeOK
<1> QED BY <1>4, <1>5, <1>6, <1>7, <1>8

(* Only a clock past the cooldown starts a fetch, so every waiter is new.   *)
LEMMA LookKeepsInv ==
  ASSUME CacheInv, NEW r \in Requests, Look(r)
  PROVE  CacheInv'
<1> USE TimesAreNumbers DEF CacheInv
<1> DEFINE k == requests[r].key
<1>1. /\ requests[r].at = "waiting" /\ holder = NULL
      /\ UNCHANGED <<now, provider>>
  BY DEF Look
<1>2. CASE \E a \in {"ok", "refused"} : Answer(r, a) /\ UNCHANGED <<cache, holder, begun>>
  BY <1>1, <1>2, LeavingKeepsInv
<1>3. CASE ~Cooling /\ NoteAttempt /\ holder' = r /\ begun' = now
             /\ requests' = [requests EXCEPT ![r].at = "fetching"]
  <2>1. /\ UNCHANGED <<now, published, withdrawn>> /\ now \in Nat
        /\ cache' = [cache EXCEPT !.last_attempt = now]
        /\ cache \in Cache
    BY <1>1, <1>3 DEF NoteAttempt, provider, TypeOK
  <2>2. /\ cache' \in Cache /\ cache'.last_attempt = now
        /\ cache'.keys = cache.keys /\ cache'.fetched_at = cache.fetched_at
        /\ cache.last_attempt \in Time /\ cache.fetched_at \in Time
    BY <2>1 DEF Cache, Time
  <2>3. /\ requests' \in [Requests -> Request]
        /\ requests'[r].at = "fetching" /\ requests'[r].key = requests[r].key
        /\ requests'[r].asked = requests[r].asked
        /\ \A q \in Requests \ {r} : requests'[q] = requests[q]
    BY <1>3 DEF TypeOK, Request, Stages
  <2>4. cache.last_attempt # NULL => cache.last_attempt + RefreshCooldown <= now
    BY <1>3, <2>1, <2>2 DEF Cooling, Time
  <2>5. cache.fetched_at # NULL => cache.fetched_at < now
    BY <2>1, <2>2, <2>4 DEF Past, Time
  <2>6. TypeOK'
    BY <1>3, <2>1, <2>2, <2>3 DEF TypeOK, Time
  <2>7. Past'
    BY <1>3, <2>1, <2>2, <2>5 DEF Past, Time
  <2>8. ~Succeeded'
    BY <2>1, <2>2, <2>5 DEF Succeeded, Time
  <2>9. \A q \in Requests : ~Fetching(q)
    BY <1>1 DEF OneFetch
  <2>10. OneFetch'
    BY <1>1, <1>3, <2>1, <2>2, <2>3, <2>8, <2>9 DEF OneFetch, Fetching
  <2>11. Seen'
    BY <2>1, <2>2, <2>3, <2>8, <2>9 DEF Seen, Fetching
  <2>12. ASSUME NEW q \in Requests, Waiting(q)
         PROVE  requests[q].asked = now
    <3>1. requests[q].asked \in Nat
      BY DEF TypeOK, Request
    <3> QED BY <2>1, <2>2, <2>4, <2>12, <3>1 DEF Joined, Time
  <2>13. \A q \in Requests : Waiting(q)' => Waiting(q)
    BY <1>1, <2>3 DEF Waiting
  <2>14. \A q \in Requests : Waiting(q)' => requests'[q].asked = now
    BY <2>3, <2>12, <2>13
  <2>15. Joined'
    BY <2>1, <2>14 DEF Joined
  <2> QED BY <2>6, <2>7, <2>10, <2>11, <2>15
<1> QED BY <1>2, <1>3 DEF Look

(* The answer of the provider was on offer during the fetch.                *)
LEMMA RespondKeepsInv ==
  ASSUME CacheInv, NEW r \in Requests, Respond(r)
  PROVE  CacheInv'
<1> USE TimesAreNumbers DEF CacheInv
<1>1. /\ requests[r].at = "fetching"
      /\ requests' = [requests EXCEPT ![r].at = "received", ![r].got = Offered]
      /\ UNCHANGED <<now, published, withdrawn, cache, holder, begun>>
  BY DEF Respond, provider
<1>2. Offered \in SUBSET Keys
  BY DEF Offered
<1>3. /\ requests' \in [Requests -> Request]
      /\ requests'[r].at = "received" /\ requests'[r].got = Offered
      /\ requests'[r].key = requests[r].key /\ requests'[r].asked = requests[r].asked
      /\ \A q \in Requests \ {r} : requests'[q] = requests[q]
  BY <1>1, <1>2 DEF TypeOK, Request, Stages
<1>4. TypeOK'
  BY <1>1, <1>3 DEF TypeOK
<1>5. Past'
  BY <1>1 DEF Past
<1>6. OneFetch'
  BY <1>1, <1>3 DEF OneFetch, Fetching, Succeeded
<1>7. OfferedSince(Offered, cache.last_attempt)
  BY DEF OfferedSince, Offered
<1>8. Seen'
  <2>1. UNCHANGED <<Offered, Succeeded>>
    BY <1>1 DEF Offered, Succeeded
  <2>2. \A q \in Requests : requests'[q].at = "received" =>
          OfferedSince(requests'[q].got, cache.last_attempt)
    BY <1>3, <1>7 DEF Seen
  <2> QED BY <1>1, <2>1, <2>2 DEF Seen, OfferedSince
<1>9. Joined'
  BY <1>1, <1>3 DEF Joined, Waiting
<1> QED BY <1>4, <1>5, <1>6, <1>8, <1>9

(* The key set received replaces the cached one.                           *)
LEMMA ReceiveKeepsInv ==
  ASSUME CacheInv, NEW r \in Requests, Receive(r)
  PROVE  CacheInv'
<1> USE TimesAreNumbers DEF CacheInv
<1> DEFINE got == requests[r].got
<1>1. /\ requests[r].at = "received"
      /\ UNCHANGED <<now, published, withdrawn, begun>> /\ now \in Nat
      /\ cache' = [cache EXCEPT !.keys = got, !.fetched_at = now]
  BY DEF Receive, provider, TypeOK
<1>2. holder = r /\ holder' = NULL
  BY <1>1 DEF OneFetch, Fetching, Receive, Release
<1>3. got \in SUBSET Keys /\ cache \in Cache
  BY DEF TypeOK, Request
<1>4. /\ cache' \in Cache /\ cache'.keys = got /\ cache'.fetched_at = now
      /\ cache'.last_attempt = cache.last_attempt /\ cache.last_attempt \in Time
  BY <1>1, <1>3 DEF Cache, Time
<1>5. PICK a \in {"ok", "refused"} : Answer(r, a)
  BY DEF Receive
<1>6. /\ requests' \in [Requests -> Request] /\ requests'[r].at = "idle"
      /\ \A q \in Requests \ {r} : requests'[q] = requests[q]
  BY <1>5, AnswerIsTyped
<1>7. /\ cache.last_attempt \in Nat /\ cache.last_attempt <= now
      /\ now <= cache.last_attempt + FetchTimeout
  BY <1>2, <1>4 DEF OneFetch, Past, Time
<1>8. OfferedSince(got, cache.last_attempt)
  BY <1>1 DEF Seen
<1>9. TypeOK'
  BY <1>1, <1>2, <1>4, <1>6 DEF TypeOK
<1>10. Past'
  BY <1>1, <1>4, <1>7 DEF Past
<1>11. OneFetch'
  BY <1>2, <1>6 DEF OneFetch, Fetching
<1>12. Seen'
  <2>1. UNCHANGED Offered
    BY <1>1 DEF Offered
  <2>2. \A q \in Requests : requests'[q].at # "received"
    BY <1>2, <1>6 DEF OneFetch, Fetching
  <2>3. ASSUME NEW j \in got
        PROVE  /\ published[j] # NULL
               /\ withdrawn[j] # NULL => now <= withdrawn[j] + FetchTimeout
    <3>1. withdrawn[j] # NULL => withdrawn[j] \in Nat
      BY <1>3, <2>3 DEF TypeOK, Time
    <3>2. published[j] # NULL /\ (withdrawn[j] # NULL => cache.last_attempt <= withdrawn[j])
      BY <1>8, <2>3 DEF OfferedSince
    <3> HIDE DEF got
    <3> QED BY <1>1, <1>7, <3>1, <3>2
  <2>4. cache'.keys = got /\ OfferedSince(cache.keys, cache.last_attempt)'
    BY <1>1, <1>4, <1>8, <2>1 DEF OfferedSince
  <2> QED BY <1>1, <1>4, <2>2, <2>3, <2>4 DEF Seen
<1>13. Joined'
  BY <1>1, <1>4, <1>6 DEF Joined, Waiting
<1> QED BY <1>9, <1>10, <1>11, <1>12, <1>13

-------------------------------------------------------------------------------
(* Every step keeps the invariant. *)
LEMMA NextKeepsInv == CacheInv /\ [Next]_vars => CacheInv'
<1> SUFFICES ASSUME CacheInv, [Next]_vars PROVE CacheInv'
  OBVIOUS
<1>1. CASE Tick
  BY <1>1, TickKeepsInv
<1>2. CASE \E k \in Keys : Publish(k) \/ Withdraw(k)
  BY <1>2, ProviderKeepsInv
<1>3. ASSUME NEW r \in Requests, Handle(r)
      PROVE  CacheInv'
  <2>1. CASE FetchFails(r) \/ Cancel(r)
    <3>1. holder \in Requests \cup {NULL}
      BY DEF CacheInv, TypeOK
    <3>2. \E a \in {"ok", "refused", NULL} : Answer(r, a)
      BY <2>1 DEF FetchFails, Cancel
    <3>3. /\ Release(r) /\ UNCHANGED <<now, provider, cache, begun>>
      BY <2>1 DEF FetchFails, Cancel
    <3> QED BY <3>1, <3>2, <3>3, LeavingKeepsInv, TimesAreNumbers DEF Release
  <2> QED BY <1>3, <2>1, LookKeepsInv, RespondKeepsInv, ReceiveKeepsInv DEF Handle
<1>4. CASE \E r \in Requests, k \in Keys : Ask(r, k)
  BY <1>4, AskKeepsInv
<1>5. CASE UNCHANGED vars
  BY <1>5 DEF vars, provider, CacheInv, TypeOK, Past, OneFetch, Seen, Joined, Fetching,
       Succeeded, OfferedSince, Offered, Waiting
<1> QED BY <1>1, <1>2, <1>3, <1>4, <1>5 DEF Next

(* The cache begins empty. *)
LEMMA InitCacheInv == Init => CacheInv
<1> SUFFICES ASSUME Init PROVE CacheInv
  OBVIOUS
<1> USE TimesAreNumbers
<1>1. TypeOK
  BY DEF Init, TypeOK, EmptyCache, Cache, Time, IdleRequest, Request, Stages
<1>2. Past
  BY DEF Init, Past, EmptyCache
<1>3. OneFetch
  BY DEF Init, OneFetch, IdleRequest, Fetching
<1>4. Seen
  BY DEF Init, Seen, Succeeded, EmptyCache, IdleRequest
<1>5. Joined
  BY DEF Init, Joined, Waiting, IdleRequest
<1> QED BY <1>1, <1>2, <1>3, <1>4, <1>5 DEF CacheInv

(***************************************************************************)
(* The inductive invariant: one fetch at a time, by the holder of the      *)
(* mutex; cached keys were offered during their fetch; whoever waits came  *)
(* with this tick or during the latest fetch.                              *)
(***************************************************************************)
THEOREM CacheInductive == Spec => []CacheInv
BY InitCacheInv, NextKeepsInv, PTL DEF Spec

-------------------------------------------------------------------------------
(* A request that is answered has taken one of the steps of its handler.   *)
LEMMA AnswerIsHandled ==
  ASSUME CacheInv, Next, NEW r \in Requests,
         requests[r].at # "idle", requests'[r].at = "idle"
  PROVE  Look(r) \/ Receive(r) \/ FetchFails(r) \/ Cancel(r)
<1> USE TimesAreNumbers DEF CacheInv
<1>1. ASSUME NEW q \in Requests, Handle(q)
      PROVE  q = r /\ (Look(r) \/ Receive(r) \/ FetchFails(r) \/ Cancel(r))
  <2>1. \A p \in Requests \ {q} : requests'[p] = requests[p]
    <3>1. CASE \E a \in {"ok", "refused", NULL} : Answer(q, a)
      BY <3>1, AnswerIsTyped
    <3>2. CASE \E new : requests' = [requests EXCEPT ![q] = new]
      BY <3>2 DEF TypeOK
    <3> QED BY <1>1, <3>1, <3>2 DEF Handle, Look, Respond, Receive, FetchFails, Cancel
  <2>2. ~Respond(q) \/ requests'[q].at # "idle"
    BY DEF Respond, TypeOK, Request
  <2> QED BY <1>1, <2>1, <2>2 DEF Handle
<1>2. \A q \in Requests, k \in Keys : ~Ask(q, k)
  BY DEF Ask, TypeOK
<1> QED BY <1>1, <1>2 DEF Next, Tick, Publish, Withdraw

(* A request is let in by a cached key or by the key set it fetched.       *)
LEMMA AnswerSource ==
  ASSUME CacheInv, Next, NEW r \in Requests, requests[r].at # "idle",
         requests'[r].at = "idle", requests'[r].answer = "ok"
  PROVE  \/ Look(r) /\ Hit(requests[r].key)
         \/ Receive(r) /\ requests[r].key \in requests[r].got
<1> USE TimesAreNumbers DEF CacheInv
<1>1. \A a \in {"ok", "refused", NULL} : Answer(r, a) => a = "ok"
  BY AnswerIsTyped
<1>2. Look(r) \/ Receive(r)
  BY <1>1, AnswerIsHandled DEF FetchFails, Cancel
<1>3. requests' # [requests EXCEPT ![r].at = "fetching"]
  BY DEF TypeOK, Request
<1> QED BY <1>1, <1>2, <1>3 DEF Look, Receive

(* A request is refused in the cooldown, by a failed fetch or by a key set. *)
LEMMA RefusalSource ==
  ASSUME CacheInv, Next, NEW r \in Requests, requests[r].at # "idle",
         requests'[r].at = "idle", requests'[r].answer = "refused"
  PROVE  \/ Look(r) /\ ~Hit(requests[r].key) /\ Cooling /\ UNCHANGED cache
         \/ FetchFails(r)
         \/ Receive(r) /\ requests[r].key \notin requests[r].got
<1> USE TimesAreNumbers DEF CacheInv
<1>1. \A a \in {"ok", "refused", NULL} : Answer(r, a) => a = "refused"
  BY AnswerIsTyped
<1>2. Look(r) \/ Receive(r) \/ FetchFails(r)
  BY <1>1, AnswerIsHandled DEF Cancel
<1>3. requests' # [requests EXCEPT ![r].at = "fetching"]
  BY DEF TypeOK, Request
<1> QED BY <1>1, <1>2, <1>3 DEF Look, Receive

-------------------------------------------------------------------------------
(***************************************************************************)
(* A request waits for one fetch at most, however many came before it.     *)
(***************************************************************************)
THEOREM NobodyPilesUp == Spec => []NoPileUp
<1>1. CacheInv => NoPileUp
  <2> SUFFICES ASSUME CacheInv, NEW r \in Requests, Waiting(r)
               PROVE  now <= requests[r].asked + FetchTimeout
    BY DEF NoPileUp
  <2>1. now \in Nat /\ requests[r].asked \in Nat /\ cache.last_attempt \in Time
    BY DEF CacheInv, TypeOK, Request, Cache
  <2> QED BY <2>1, TimesAreNumbers DEF CacheInv, Joined, Time
<1> QED BY <1>1, CacheInductive, PTL

(***************************************************************************)
(* Fetches begin a cooldown apart, whatever the requests ask for and       *)
(* however their fetches end.                                              *)
(***************************************************************************)
THEOREM FetchesKeepApart == Spec => FetchesApart
<1> DEFINE A == \A r \in Requests :
                  requests[r].at = "waiting" /\ requests'[r].at = "fetching" =>
                    holder = NULL /\ (begun # NULL => begun + RefreshCooldown <= now)
<1>1. CacheInv /\ [Next]_vars => [A]_vars
  <2> SUFFICES ASSUME CacheInv, Next, NEW r \in Requests,
                      requests[r].at = "waiting", requests'[r].at = "fetching"
               PROVE  holder = NULL /\ (begun # NULL => begun + RefreshCooldown <= now)
    OBVIOUS
  <2> USE TimesAreNumbers DEF CacheInv
  <2>1. ASSUME NEW q \in Requests, NEW a \in {"ok", "refused", NULL}, Answer(q, a)
        PROVE  FALSE
    BY <2>1, AnswerIsTyped
  <2>2. \A q \in Requests : \E a \in {"ok", "refused", NULL} :
          Receive(q) \/ FetchFails(q) \/ Cancel(q) => Answer(q, a)
    BY DEF Receive, FetchFails, Cancel
  <2>3. \A q \in Requests : ~Respond(q)
    BY DEF Respond, TypeOK
  <2>4. \A q \in Requests, k \in Keys : ~Ask(q, k)
    BY DEF Ask, TypeOK, IdleRequest
  <2>5. requests' # requests
    OBVIOUS
  <2>6. PICK q \in Requests : Look(q)
    BY <2>1, <2>2, <2>3, <2>4, <2>5 DEF Next, Handle, Tick, Publish, Withdraw
  <2>7. holder = NULL /\ ~Cooling
    BY <2>1, <2>6 DEF Look
  <2>8. begun = cache.last_attempt /\ begun \in Time /\ now \in Nat
    BY DEF Past, TypeOK
  <2> QED BY <2>7, <2>8 DEF Cooling, Time
<1> QED BY <1>1, CacheInductive, PTL DEF Spec, FetchesApart

(* A key that is handed out was on offer not longer ago than cache and fetch last. *)
LEMMA KeyIsRecent ==
  ASSUME CacheInv, Next, NEW r \in Requests, Answers(r, "ok")
  PROVE  /\ requests[r].key \in Keys /\ published[requests[r].key] # NULL
         /\ withdrawn[requests[r].key] # NULL =>
              now < withdrawn[requests[r].key] + CacheTTL + FetchTimeout
<1> USE TimesAreNumbers DEF CacheInv
<1> DEFINE k == requests[r].key
<1>1. k \in Keys /\ now \in Nat /\ withdrawn[k] \in Time
      /\ cache.last_attempt \in Time /\ cache.fetched_at \in Time
  BY DEF OneFetch, TypeOK, Cache, Answers, Waiting
<1>2. requests[r].at # "idle" /\ requests'[r].at = "idle" /\ requests'[r].answer = "ok"
  BY DEF Answers, Waiting
<1>3. (Look(r) /\ Hit(k)) \/ (Receive(r) /\ k \in requests[r].got)
  BY <1>2, AnswerSource
<1>4. CASE Hit(k)
  <2>1. cache.fetched_at # NULL /\ now < cache.fetched_at + CacheTTL /\ k \in cache.keys
    BY <1>4 DEF Hit, Fresh
  <2>2. /\ published[k] # NULL
        /\ withdrawn[k] # NULL => cache.fetched_at <= withdrawn[k] + FetchTimeout
    BY <2>1 DEF Seen
  <2> HIDE DEF k
  <2> QED BY <1>1, <2>1, <2>2 DEF Time, k
<1>5. CASE Receive(r) /\ k \in requests[r].got
  <2>1. requests[r].at = "received" /\ holder = r
    BY <1>5 DEF Receive, OneFetch, Fetching
  <2>2. /\ published[k] # NULL
        /\ withdrawn[k] # NULL => cache.last_attempt <= withdrawn[k]
    BY <1>5, <2>1 DEF Seen, OfferedSince
  <2>3. cache.last_attempt # NULL /\ now <= cache.last_attempt + FetchTimeout
    BY <2>1 DEF OneFetch
  <2>4. CacheTTL > 0
    OBVIOUS
  <2> HIDE DEF k
  <2> QED BY <1>1, <2>2, <2>3, <2>4 DEF Time, k
<1> QED BY <1>3, <1>4, <1>5

(***************************************************************************)
(* A withdrawn key is accepted no longer than the cache and one fetch last. *)
(***************************************************************************)
THEOREM KeysFailClosed == Spec => ServedRecently
<1> DEFINE A == \A r \in Requests : Answers(r, "ok") =>
                  LET k == requests[r].key
                  IN published[k] # NULL /\ (withdrawn[k] # NULL => now < withdrawn[k] + CacheTTL + FetchTimeout)
<1>1. CacheInv /\ [Next]_vars => [A]_vars
  BY KeyIsRecent
<1> QED BY <1>1, CacheInductive, PTL DEF Spec, ServedRecently

(***************************************************************************)
(* A key on offer is refused only soon after it was published, or after a  *)
(* fetch that failed.                                                      *)
(***************************************************************************)
THEOREM RefusalsAreExplained == Spec => RefusalsExplained
<1> DEFINE A == \A r \in Requests :
                  Answers(r, "refused") /\ requests[r].key \in Offered =>
                    now < published[requests[r].key] + RefreshCooldown \/ ~Succeeded'
<1>1. CacheInv /\ [Next]_vars => [A]_vars
  <2> SUFFICES ASSUME CacheInv, Next, NEW r \in Requests, Answers(r, "refused"),
                      requests[r].key \in Offered, Succeeded'
               PROVE  now < published[requests[r].key] + RefreshCooldown
    OBVIOUS
  <2> USE TimesAreNumbers DEF CacheInv
  <2> DEFINE k == requests[r].key
  <2>1. k \in Keys /\ now \in Nat /\ published[k] \in Nat /\ cache \in Cache
        /\ cache.last_attempt \in Time /\ cache.fetched_at \in Time
    BY DEF Offered, TypeOK, Cache, Time
  <2>2. requests[r].at # "idle" /\ requests'[r].at = "idle" /\ requests'[r].answer = "refused"
    BY DEF Answers, Waiting
  <2>3. \/ Look(r) /\ ~Hit(k) /\ Cooling /\ UNCHANGED cache
        \/ FetchFails(r)
        \/ Receive(r) /\ k \notin requests[r].got
    BY <2>2, RefusalSource
  <2>4. CASE Look(r) /\ ~Hit(k) /\ Cooling /\ UNCHANGED cache
    <3>1. Succeeded
      BY <2>4 DEF Succeeded
    <3>2. Fresh
      BY <2>1, <2>4, <3>1 DEF Succeeded, Cooling, Fresh, Time
    <3>3. k \in Offered \ cache.keys
      BY <2>4, <3>2 DEF Hit
    <3>4. cache.last_attempt <= published[k]
      BY <3>1, <3>3 DEF Seen, OfferedSince
    <3>5. cache.last_attempt # NULL /\ now < cache.last_attempt + RefreshCooldown
      BY <2>4 DEF Cooling
    <3> HIDE DEF k
    <3> QED BY <2>1, <3>4, <3>5 DEF Time, k
  <2>5. CASE FetchFails(r)
    <3>1. ~Succeeded /\ cache' = cache
      BY <2>5 DEF FetchFails, OneFetch, Fetching
    <3> QED BY <3>1 DEF Succeeded
  <2>6. CASE Receive(r) /\ k \notin requests[r].got
    <3>1. requests[r].at = "received" /\ holder = r
      BY <2>6 DEF Receive, OneFetch, Fetching
    <3>2. cache.last_attempt <= published[k]
      BY <2>6, <3>1 DEF Seen, OfferedSince
    <3>3. cache.last_attempt # NULL /\ now <= cache.last_attempt + FetchTimeout
      BY <3>1 DEF OneFetch
    <3> HIDE DEF k
    <3> QED BY <2>1, <3>2, <3>3 DEF Time, k
  <2> QED BY <2>3, <2>4, <2>5, <2>6
<1> QED BY <1>1, CacheInductive, PTL DEF Spec, RefusalsExplained
===============================================================================
