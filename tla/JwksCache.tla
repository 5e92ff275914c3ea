------------------------------- MODULE JwksCache -------------------------------
(***************************************************************************)
(* The signing keys of the identity provider, cached by OAuthState: every  *)
(* request with an OAuth token asks for the key its token names, all under *)
(* one async mutex that is held across the fetch of a new key set.         *)
(*                                                                         *)
(* Time is counted in ticks of one monotonic clock.  Handlers take no time *)
(* between awaits: a request that can have the mutex has it before the     *)
(* clock moves.  A restarted server begins with an empty cache and a       *)
(* provider in any state, as Init does.                                    *)
(***************************************************************************)
EXTENDS Naturals

CONSTANTS
  Keys,              \* key ids, each with its algorithm
  Requests,          \* concurrent requests
  CacheTTL,          \* CACHE_TTL
  RefreshCooldown,   \* REFRESH_COOLDOWN
  FetchTimeout,      \* the timeout of the JWKS client
  MaxTime,           \* the last tick of the instance
  NULL

ASSUME CacheAssumption ==
  /\ CacheTTL \in Nat /\ RefreshCooldown \in Nat /\ FetchTimeout \in Nat /\ MaxTime \in Nat
  /\ FetchTimeout < RefreshCooldown /\ RefreshCooldown <= CacheTTL
  /\ NULL \notin Nat /\ NULL \notin Keys \cup Requests \cup {"ok", "refused"}

VARIABLES
  now,        \* the clock
  published,  \* key |-> when the provider published it, or NULL
  withdrawn,  \* key |-> when the provider withdrew it, or NULL
  cache,      \* the JwksCache record
  holder,     \* the request that holds the mutex across its fetch, or NULL
  requests,   \* request |-> the locals of its validation
  begun       \* when the latest fetch began, or NULL

provider == <<published, withdrawn>>
vars == <<now, provider, cache, holder, requests, begun>>

-------------------------------------------------------------------------------
Time == Nat \cup {NULL}

Offered == {k \in Keys : published[k] # NULL /\ withdrawn[k] = NULL}

Cache == [keys : SUBSET Keys, fetched_at : Time, last_attempt : Time]

EmptyCache == [keys |-> {}, fetched_at |-> NULL, last_attempt |-> NULL]

Stages == {"idle", "waiting", "fetching", "received"}

(* `got' is the key set in a response under way. *)
Request == [at : Stages, key : Keys \cup {NULL}, asked : Nat, got : SUBSET Keys,
            answer : {"ok", "refused", NULL}]

IdleRequest == [at |-> "idle", key |-> NULL, asked |-> 0, got |-> {}, answer |-> NULL]

FaultyFresh == cache.fetched_at # NULL /\ now < cache.last_attempt + CacheTTL

Fresh == cache.fetched_at # NULL /\ now < cache.fetched_at + CacheTTL

(***************************************************************************)
(* The bound on failed fetches and on unknown keys alike.                  *)
(***************************************************************************)
Cooling == cache.last_attempt # NULL /\ now < cache.last_attempt + RefreshCooldown

FaultyHit(k) == Fresh /\ k \in cache.keys /\ ~Cooling

Hit(k) == Fresh /\ k \in cache.keys

-------------------------------------------------------------------------------
(* The provider and the clock *)

Publish(k) ==
  /\ published[k] = NULL
  /\ published' = [published EXCEPT ![k] = now]
  /\ UNCHANGED <<now, withdrawn, cache, holder, requests, begun>>

Withdraw(k) ==
  /\ k \in Offered
  /\ withdrawn' = [withdrawn EXCEPT ![k] = now]
  /\ UNCHANGED <<now, published, cache, holder, requests, begun>>

Fetching(r) == requests[r].at \in {"fetching", "received"}

(***************************************************************************)
(* The client's timeout ends a fetch; nobody waits for a free mutex.       *)
(***************************************************************************)
Tick ==
  /\ now < MaxTime
  /\ \A r \in Requests : Fetching(r) => now < cache.last_attempt + FetchTimeout
  /\ holder = NULL => \A r \in Requests : requests[r].at # "waiting"
  /\ now' = now + 1
  /\ UNCHANGED <<provider, cache, holder, requests, begun>>

-------------------------------------------------------------------------------
(* A request *)

Ask(r, k) ==
  /\ requests[r].at = "idle"
  /\ requests' = [requests EXCEPT ![r] = [IdleRequest EXCEPT !.at = "waiting",
                                            !.key = k, !.asked = now]]
  /\ UNCHANGED <<now, provider, cache, holder, begun>>

Answer(r, answer) == requests' = [requests EXCEPT ![r] = [IdleRequest EXCEPT !.answer = answer]]

(* The attempt is noted before its outcome is known. *)
NoteAttempt == cache' = [cache EXCEPT !.last_attempt = now]

(***************************************************************************)
(* With the mutex: a cached key, a refusal, or the start of a fetch that   *)
(* keeps the mutex.                                                        *)
(***************************************************************************)
Look(r) ==
  LET k == requests[r].key
  IN /\ requests[r].at = "waiting" /\ holder = NULL
     /\ \/ Hit(k) /\ Answer(r, "ok") /\ UNCHANGED <<cache, holder, begun>>
        \/ ~Hit(k) /\ Cooling /\ Answer(r, "refused") /\ UNCHANGED <<cache, holder, begun>>
        \/ /\ ~Hit(k) /\ ~Cooling
           /\ NoteAttempt
           /\ holder' = r /\ begun' = now
           /\ requests' = [requests EXCEPT ![r].at = "fetching"]
     /\ UNCHANGED <<now, provider>>

(***************************************************************************)
(* The provider answers with the keys it offers at this moment; the answer *)
(* takes its time to arrive.                                               *)
(***************************************************************************)
Respond(r) ==
  /\ requests[r].at = "fetching"
  /\ requests' = [requests EXCEPT ![r].at = "received", ![r].got = Offered]
  /\ UNCHANGED <<now, provider, cache, holder, begun>>

FaultyRelease(r) == UNCHANGED holder

(* The mutex guard is dropped on every way out. *)
Release(r) == holder' = IF holder = r THEN NULL ELSE holder

(***************************************************************************)
(* A key set without usable keys is an error.                              *)
(***************************************************************************)
Receive(r) ==
  /\ requests[r].at = "received" /\ requests[r].got # {}
  /\ cache' = [cache EXCEPT !.keys = requests[r].got, !.fetched_at = now]
  /\ Answer(r, IF requests[r].key \in requests[r].got THEN "ok" ELSE "refused")
  /\ Release(r)
  /\ UNCHANGED <<now, provider, begun>>

FaultyFetchFails(r) ==
  /\ requests[r].at \in {"fetching", "received"}
  /\ cache' = [cache EXCEPT !.last_attempt = NULL]
  /\ Answer(r, "refused")
  /\ Release(r)
  /\ UNCHANGED <<now, provider, begun>>

FetchFails(r) ==
  /\ requests[r].at \in {"fetching", "received"}
  /\ Answer(r, "refused")
  /\ Release(r)
  /\ UNCHANGED <<now, provider, cache, begun>>

(***************************************************************************)
(* The client hangs up and the request's future is dropped, mid-fetch too. *)
(***************************************************************************)
Cancel(r) ==
  /\ requests[r].at # "idle"
  /\ Answer(r, NULL)
  /\ Release(r)
  /\ UNCHANGED <<now, provider, cache, begun>>

-------------------------------------------------------------------------------
Init ==
  /\ now = 0
  /\ published \in [Keys -> {0, NULL}]
  /\ withdrawn = [k \in Keys |-> NULL]
  /\ cache = EmptyCache
  /\ holder = NULL
  /\ requests = [r \in Requests |-> IdleRequest]
  /\ begun = NULL

Handle(r) == Look(r) \/ Respond(r) \/ Receive(r) \/ FetchFails(r) \/ Cancel(r)

Next ==
  \/ Tick
  \/ \E k \in Keys : Publish(k) \/ Withdraw(k)
  \/ \E r \in Requests : Handle(r) \/ \E k \in Keys : Ask(r, k)

Spec == Init /\ [][Next]_vars

-------------------------------------------------------------------------------
TypeOK ==
  /\ now \in Nat /\ begun \in Time
  /\ published \in [Keys -> Time] /\ withdrawn \in [Keys -> Time]
  /\ cache \in Cache
  /\ holder \in Requests \cup {NULL}
  /\ requests \in [Requests -> Request]

(* Nothing is dated in the future, and a fetch ends in time. *)
Past ==
  /\ \A k \in Keys : /\ published[k] # NULL => published[k] <= now
                     /\ withdrawn[k] # NULL => withdrawn[k] <= now /\ published[k] # NULL
  /\ cache.fetched_at # NULL =>
       /\ cache.last_attempt # NULL /\ cache.fetched_at <= now
       /\ cache.fetched_at <= cache.last_attempt + FetchTimeout
  /\ cache.last_attempt # NULL => cache.last_attempt <= now
  /\ begun = cache.last_attempt

(* The latest fetch brought the keys in the cache. *)
Succeeded == cache.fetched_at # NULL /\ cache.last_attempt <= cache.fetched_at

(* Only the holder fetches, and it began with the last attempt. *)
OneFetch ==
  /\ \A r \in Requests : /\ Fetching(r) <=> holder = r
                         /\ requests[r].at # "idle" => requests[r].key \in Keys
  /\ holder # NULL => /\ ~Succeeded
                      /\ cache.last_attempt # NULL
                      /\ now <= cache.last_attempt + FetchTimeout

(***************************************************************************)
(* A set of keys offered at one moment not earlier than `from': none was   *)
(* withdrawn before, and a key on offer now that is missing was published  *)
(* since.                                                                  *)
(***************************************************************************)
OfferedSince(keys, from) ==
  /\ \A k \in keys : published[k] # NULL /\ (withdrawn[k] # NULL => from <= withdrawn[k])
  /\ \A k \in Offered \ keys : from <= published[k]

(* A key set in hand, or in the cache, was offered during its fetch. *)
Seen ==
  /\ \A r \in Requests :
       requests[r].at = "received" => OfferedSince(requests[r].got, cache.last_attempt)
  /\ cache.fetched_at # NULL =>
       \A k \in cache.keys :
         /\ published[k] # NULL
         /\ withdrawn[k] # NULL => cache.fetched_at <= withdrawn[k] + FetchTimeout
  /\ Succeeded => OfferedSince(cache.keys, cache.last_attempt)

Waiting(r) == requests[r].at # "idle"

(* Whoever waits came with this tick or during the fetch under way or just over. *)
Joined ==
  \A r \in Requests : Waiting(r) =>
    /\ requests[r].asked <= now
    /\ \/ requests[r].asked = now
       \/ /\ cache.last_attempt # NULL
          /\ cache.last_attempt <= requests[r].asked
          /\ now <= cache.last_attempt + FetchTimeout

(***************************************************************************)
(* However many requests came before it, and whichever of them fail or are *)
(* cancelled, a request waits for one fetch at most: the waiters behind a  *)
(* slow provider do not each start a fetch of their own.                   *)
(***************************************************************************)
NoPileUp ==
  \A r \in Requests : Waiting(r) => now <= requests[r].asked + FetchTimeout

CacheInv == TypeOK /\ Past /\ OneFetch /\ Seen /\ Joined

-------------------------------------------------------------------------------
(* Properties of steps *)

Answers(r, answer) ==
  Waiting(r) /\ requests'[r].at = "idle" /\ requests'[r].answer = answer

(***************************************************************************)
(* "A bounded refresh rather than a JWKS fetch storm": fetches begin a     *)
(* cooldown apart, also when they fail, are cancelled or are for keys      *)
(* nobody publishes.                                                       *)
(***************************************************************************)
FetchesApart ==
  [][\A r \in Requests : requests[r].at = "waiting" /\ requests'[r].at = "fetching" =>
       holder = NULL /\ (begun # NULL => begun + RefreshCooldown <= now)]_vars

(***************************************************************************)
(* "Stale keys fail closed": a key the provider withdrew is accepted no    *)
(* longer than the cache lasts plus the time its last fetch took,          *)
(* whatever later fetches failed.                                          *)
(***************************************************************************)
ServedRecently ==
  [][\A r \in Requests : Answers(r, "ok") =>
       LET k == requests[r].key
       IN published[k] # NULL /\ (withdrawn[k] # NULL => now < withdrawn[k] + CacheTTL + FetchTimeout)]_vars

(***************************************************************************)
(* A key on offer is refused only in the cooldown after it was published,  *)
(* or because the latest fetch failed or was cancelled.                    *)
(***************************************************************************)
RefusalsExplained ==
  [][\A r \in Requests : Answers(r, "refused") /\ requests[r].key \in Offered =>
       now < published[requests[r].key] + RefreshCooldown \/ ~Succeeded']_vars
===============================================================================
