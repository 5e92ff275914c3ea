------------------------------ MODULE AccessProofs -----------------------------
(***************************************************************************)
(* Credentials do what their configuration says, for any configurations,   *)
(* tokens and limits: the start-up checks make every look-up unambiguous,  *)
(* and a token that is admitted is in force at that moment.                *)
(***************************************************************************)
EXTENDS Access, JwksCacheProofs

-------------------------------------------------------------------------------
(* Access runs the key cache *)

LEMMA AccessSteps ==
  ASSUME [AccessNext]_accessVars
  PROVE  [Next]_vars
<1>1. CASE Environment
  BY <1>1 DEF Environment, Next
<1>2. ASSUME NEW c \in Configs, Start(c)
      PROVE  UNCHANGED vars
  BY <1>2 DEF Start
<1>3. ASSUME NEW r \in Requests, Validate(r)
      PROVE  Next
  BY <1>3 DEF Validate, Next
<1>4. ASSUME NEW r \in Requests, NEW j \in Jwts, Arrive(r, j)
      PROVE  Next
  <2>1. j.key \in Keys
    BY AccessAssumption DEF Jwt
  <2> QED BY <1>4, <2>1 DEF Arrive, Next
<1>5. CASE UNCHANGED accessVars
  BY <1>5 DEF accessVars
<1> QED BY <1>1, <1>2, <1>3, <1>4, <1>5 DEF AccessNext

(***************************************************************************)
(* Every behaviour of Access is one of the key cache, so all that is       *)
(* proved of the cache holds with tokens, claims and configurations.       *)
(***************************************************************************)
THEOREM AccessRefinesCache == AccessSpec => Spec
<1>1. AccessInit => Init
  BY DEF AccessInit
<1>2. [AccessNext]_accessVars => [Next]_vars
  BY AccessSteps
<1> QED BY <1>1, <1>2, PTL DEF AccessSpec, Spec

THEOREM CacheHoldsInAccess == AccessSpec => []CacheInv
BY AccessRefinesCache, CacheInductive, PTL

-------------------------------------------------------------------------------
(* What the start-up checks make of the look-ups *)

LEMMA FirstOfOne ==
  ASSUME NEW list, NEW i \in Nat
  PROVE  First(list, {i}) = list[i]
<1>1. (CHOOSE n \in {i} : \A m \in {i} : n <= m) = i
  OBVIOUS
<1> QED BY <1>1 DEF First

LEMMA ConfigTyped ==
  ASSUME NEW c \in Configs
  PROVE  /\ DOMAIN c.machines \subseteq Nat /\ DOMAIN c.agents \subseteq Nat
         /\ c.oauth # NULL => DOMAIN c.oauth.bindings \subseteq Nat
         /\ \A i \in DOMAIN c.machines : c.machines[i] \in Machine
         /\ \A i \in DOMAIN c.agents : c.agents[i] \in Agent
         /\ c.main \in Secrets \cup {NULL}
<1>1. c \in Config
  BY AccessAssumption
<1>2. c.machines \in Seq(Machine) /\ c.agents \in Seq(Agent) /\ c.oauth \in OAuth \cup {NULL}
      /\ c.main \in Secrets \cup {NULL}
  BY <1>1 DEF Config
<1>3. c.oauth # NULL => c.oauth.bindings \in Seq(Binding)
  BY <1>2 DEF OAuth
<1> QED BY <1>2, <1>3

(* A secret stands once, in one list. *)
LEMMA SecretStandsOnce ==
  ASSUME NEW c \in Configs, StartsUp(c)
  PROVE  /\ \A i \in DOMAIN c.machines :
              /\ Holding(c.machines, c.machines[i].secret) = {i}
              /\ c.machines[i].secret # c.main
         /\ \A i \in DOMAIN c.agents :
              /\ Holding(c.agents, c.agents[i].secret) = {i}
              /\ Holding(c.machines, c.agents[i].secret) = {}
              /\ c.agents[i].secret # c.main
<1>1. MachinesParse(c) /\ AgentsParse(c) /\ Distinct(c.machines) /\ Distinct(c.agents)
  BY DEF StartsUp, MachinesParse, AgentsParse
<1>2. ASSUME NEW i \in DOMAIN c.machines
      PROVE  Holding(c.machines, c.machines[i].secret) = {i}
  <2>1. \A j \in DOMAIN c.machines : c.machines[j].secret = c.machines[i].secret => j = i
    BY <1>1, ConfigTyped DEF Distinct
  <2> QED BY <2>1 DEF Holding
<1>3. ASSUME NEW i \in DOMAIN c.agents
      PROVE  Holding(c.agents, c.agents[i].secret) = {i}
  <2>1. \A j \in DOMAIN c.agents : c.agents[j].secret = c.agents[i].secret => j = i
    BY <1>1, ConfigTyped DEF Distinct
  <2> QED BY <2>1 DEF Holding
<1>4. ASSUME NEW i \in DOMAIN c.agents
      PROVE  Holding(c.machines, c.agents[i].secret) = {} /\ c.agents[i].secret # c.main
  BY <1>1 DEF AgentsParse, Holding
<1>5. \A i \in DOMAIN c.machines : c.machines[i].secret # c.main
  BY <1>1 DEF MachinesParse
<1> QED BY <1>2, <1>3, <1>4, <1>5

(* Scoped credentials and OAuth come with a main token. *)
LEMMA ScopedNeedsMain ==
  ASSUME NEW c \in Configs, StartsUp(c)
  PROVE  /\ \A i \in DOMAIN c.machines : c.main # NULL
         /\ \A i \in DOMAIN c.agents : c.main # NULL
         /\ c.oauth # NULL => c.main # NULL
BY DEF StartsUp, OAuthParses

(* What a refusal is not. *)
LEMMA Refused ==
  ASSUME NEW status
  PROVE  /\ Rejected(status).status = status /\ Rejected(status).as = NULL
         /\ Validated.status = "validated" /\ Validated.as = NULL
         /\ Runs("public", NULL).as = "public" /\ NULL # "Full"
BY AccessAssumption DEF Rejected, Validated, Runs

LEMMA MachineGate ==
  ASSUME NEW c \in Configs, StartsUp(c), NEW i \in DOMAIN c.machines,
         NEW q \in Static, q.secret = c.machines[i].secret, ~Public(c, q)
  PROVE  \/ Gate(c, q).status # "runs" /\ Gate(c, q).as = NULL
         \/ Gate(c, q) = Runs("Machine", c.machines[i]) /\ q.endpoint \in c.machines[i].scopes
<1> DEFINE m == c.machines[i]
<1>1. /\ Holding(c.machines, q.secret) = {i} /\ c.main \notin {NULL, q.secret}
      /\ First(c.machines, {i}) = m
  BY SecretStandsOnce, ScopedNeedsMain, FirstOfOne, ConfigTyped
<1>2. q.endpoint # "probe" /\ (c.oauth # NULL => q.endpoint # "metadata")
  BY DEF Public
<1>3. BearerAuth(c, q) = IF q.endpoint \in m.scopes THEN Runs("Machine", m) ELSE Rejected("forbidden")
  BY <1>1, <1>2 DEF BearerAuth
<1>4. IsStatic(c, q.secret)
  BY <1>1 DEF IsStatic
<1>5. Gate(c, q) = BearerAuth(c, q) \/ Gate(c, q) = Rejected("unauthorized")
  BY <1>1, <1>2, <1>4 DEF Gate
<1> QED BY <1>3, <1>5, Refused

LEMMA AgentGate ==
  ASSUME NEW c \in Configs, StartsUp(c), NEW i \in DOMAIN c.agents,
         NEW q \in Static, q.secret = c.agents[i].secret, ~Public(c, q)
  PROVE  \/ Gate(c, q).status # "runs"
         \/ Gate(c, q) = Runs("Agent", c.agents[i]) /\ q.endpoint = "mcp"
<1> DEFINE a == c.agents[i]
<1>1. /\ Holding(c.agents, q.secret) = {i} /\ Holding(c.machines, q.secret) = {}
      /\ c.main \notin {NULL, q.secret} /\ First(c.agents, {i}) = a
  <2>1. Holding(c.agents, q.secret) = {i} /\ Holding(c.machines, q.secret) = {}
        /\ c.main # q.secret
    BY SecretStandsOnce
  <2>2. c.main # NULL
    BY ScopedNeedsMain
  <2>3. First(c.agents, {i}) = a
    BY FirstOfOne, ConfigTyped
  <2> QED BY <2>1, <2>2, <2>3
<1>2. q.endpoint # "probe" /\ (c.oauth # NULL => q.endpoint # "metadata")
  BY DEF Public
<1>3. BearerAuth(c, q) = IF q.endpoint = "mcp" THEN Runs("Agent", a) ELSE Rejected("forbidden")
  BY <1>1, <1>2 DEF BearerAuth
<1>4. IsStatic(c, q.secret)
  BY <1>1 DEF IsStatic
<1>5. Gate(c, q) = BearerAuth(c, q) \/ Gate(c, q) = Rejected("unauthorized")
  BY <1>1, <1>2, <1>4 DEF Gate
<1> QED BY <1>3, <1>5, Refused

LEMMA MachineIsKept ==
  ASSUME NEW c \in Configs, StartsUp(c), NEW i \in DOMAIN c.machines
  PROVE  MachineKept(c, c.machines[i])
<1> DEFINE m == c.machines[i]
<1> SUFFICES ASSUME NEW q \in Static, q.secret = m.secret
             PROVE  /\ Opens(c, q, "Machine", m, m.scopes)
                    /\ FilesAs(c, q) # {} => FilesAs(c, q) = {m.from} /\ q.to \in m.agents
                    /\ MayPoll(c, q) => q.to \in m.agents
  BY DEF MachineKept
<1>1. Opens(c, q, "Machine", m, m.scopes)
  BY MachineGate DEF Opens
<1>2. q.endpoint \in {"create", "read"} => ~Public(c, q)
  BY DEF Public
<1>3. ASSUME NEW slug \in FilesAs(c, q)
      PROVE  slug = m.from /\ q.to \in m.agents
  <2>1. q.endpoint = "create" /\ Gate(c, q).status = "runs"
    BY <1>3 DEF FilesAs
  <2>2. Gate(c, q) = Runs("Machine", m)
    BY <1>2, <2>1, MachineGate
  <2>3. Gate(c, q).as = "Machine" /\ Gate(c, q).entry = m
    BY <2>2 DEF Runs
  <2> QED BY <1>3, <2>3 DEF FilesAs
<1>4. ASSUME MayPoll(c, q)
      PROVE  q.to \in m.agents
  <2>1. q.endpoint = "read" /\ Gate(c, q).status = "runs"
    BY <1>4 DEF MayPoll
  <2>2. Gate(c, q) = Runs("Machine", m)
    BY <1>2, <2>1, MachineGate
  <2>3. Gate(c, q).as = "Machine" /\ Gate(c, q).entry = m
    BY <2>2 DEF Runs
  <2> QED BY <1>4, <2>3 DEF MayPoll
<1> HIDE DEF m
<1> QED BY <1>1, <1>3, <1>4

LEMMA FullIsKept ==
  ASSUME NEW c \in Configs, StartsUp(c)
  PROVE  FullKept(c)
<1> SUFFICES ASSUME NEW q \in Static, Gate(c, q).as = "Full"
             PROVE  \/ q.secret = c.main /\ c.main # NULL
                    \/ c.machines = <<>> /\ c.agents = <<>> /\ c.oauth = NULL
  BY DEF FullKept
<1>1. CASE c.main = NULL
  BY <1>1 DEF StartsUp, OAuthParses
<1>2. CASE c.main # NULL
  <2>1. Gate(c, q) \notin {Rejected("unavailable"), Rejected("unauthorized"), Validated,
                           Runs("public", NULL)}
    BY Refused
  <2>2. Gate(c, q) = BearerAuth(c, q)
    BY <2>1 DEF Gate
  <2>3. BearerAuth(c, q).as = "Full"
    BY <2>2
  <2>4. Runs("Machine", First(c.machines, Holding(c.machines, q.secret))).as # "Full"
        /\ Runs("Agent", First(c.agents, Holding(c.agents, q.secret))).as # "Full"
    BY DEF Runs
  <2>5. c.main \in {NULL, q.secret}
    BY <2>3, <2>4, Refused DEF BearerAuth
  <2> QED BY <1>2, <2>5
<1> QED BY <1>1, <1>2

(***************************************************************************)
(* Whatever the server starts with, each secret opens what stands next to  *)
(* it in the configuration and nothing else.                               *)
(***************************************************************************)
THEOREM SecretsStayApart == AccessSpec => ClassesApart
<1> DEFINE Kept(c) ==
      /\ \A i \in DOMAIN c.machines : MachineKept(c, c.machines[i])
      /\ \A i \in DOMAIN c.agents : AgentKept(c, c.agents[i])
      /\ FullKept(c)
<1>1. ASSUME NEW c \in Configs, StartsUp(c)
      PROVE  Kept(c)
  <2>1. ASSUME NEW i \in DOMAIN c.agents
        PROVE  AgentKept(c, c.agents[i])
    BY <1>1, AgentGate DEF AgentKept, Opens
  <2> QED BY <1>1, <2>1, MachineIsKept, FullIsKept
<1>2. ASSUME AccessNext, config' # config
      PROVE  \E c \in Configs : StartsUp(c) /\ config' = c
  BY <1>2 DEF AccessNext, Environment, Validate, Arrive, Start
<1>3. [AccessNext]_accessVars => [config' # config => Kept(config')]_accessVars
  BY <1>1, <1>2
<1> QED BY <1>3, PTL DEF AccessSpec, ClassesApart

-------------------------------------------------------------------------------
(* The inductive invariant of validation *)

(* The server runs only what it checked. *)
Configured == config # NULL => config \in Configs /\ StartsUp(config)

(* Who waits for a key presented a token that names it. *)
Presented ==
  /\ jwt \in [Requests -> Jwts \cup {NULL}]
  /\ \A r \in Requests : Waiting(r) =>
       config # NULL /\ config.oauth # NULL /\ jwt[r] \in Jwts /\ requests[r].key = jwt[r].key

(* An admission was decided under the configuration that is still in place. *)
Judged ==
  verdict # NULL /\ verdict.outcome = "admitted" =>
    /\ config # NULL /\ config.oauth # NULL /\ verdict.jwt \in Jwts
    /\ Covering(verdict.jwt) # {}
    /\ verdict.agent = First(config.oauth.bindings, Covering(verdict.jwt)).from

AccessInv == CacheInv /\ Configured /\ Presented /\ Judged /\ AdmittedInForce

(* What a step of a validation leaves alone. *)
LEMMA HandleLocal ==
  ASSUME TypeOK, NEW r \in Requests, Handle(r)
  PROVE  /\ Waiting(r) /\ UNCHANGED <<now, provider>>
         /\ requests'[r].at # "idle" => requests'[r].key = requests[r].key
         /\ \A s \in Requests \ {r} : requests'[s] = requests[s]
<1> USE DEF TypeOK, Waiting, Answer, IdleRequest, Request, Stages
<1>1. CASE Look(r)
  BY <1>1 DEF Look
<1>2. CASE Respond(r)
  BY <1>2 DEF Respond
<1>3. CASE Receive(r)
  BY <1>3 DEF Receive
<1>4. CASE FetchFails(r)
  BY <1>4 DEF FetchFails
<1>5. CASE Cancel(r)
  BY <1>5 DEF Cancel
<1> QED BY <1>1, <1>2, <1>3, <1>4, <1>5 DEF Handle

(* A new admission is of a token whose claims hold, by a key that was obtained. *)
LEMMA AdmissionJudged ==
  ASSUME NEW r \in Requests, Validate(r), verdict' # NULL, verdict'.outcome = "admitted"
  PROVE  /\ requests'[r].at = "idle" /\ requests'[r].answer = "ok" /\ ClaimsHold(r)
         /\ verdict'.jwt = jwt[r] /\ Covering(jwt[r]) # {}
         /\ config.oauth.scopes \subseteq jwt[r].scopes
         /\ verdict'.agent = First(config.oauth.bindings, Covering(jwt[r])).from
<1>1. requests'[r].at = "idle" /\ verdict' = Judge(r, requests'[r].answer)
  BY DEF Validate
<1>2. Judge(r, requests'[r].answer).outcome = "admitted"
  BY <1>1
<1>3. /\ requests'[r].answer = "ok" /\ ClaimsHold(r) /\ Covering(jwt[r]) # {}
      /\ config.oauth.scopes \subseteq jwt[r].scopes
  BY <1>2 DEF Judge
<1>4. Judge(r, requests'[r].answer) =
        [jwt |-> jwt[r], outcome |-> "admitted",
         agent |-> First(config.oauth.bindings, Covering(jwt[r])).from]
  BY <1>3 DEF Judge
<1> QED BY <1>1, <1>3, <1>4

LEMMA StartKeepsAccess ==
  ASSUME AccessInv, NEW c \in Configs, Start(c)
  PROVE  (Configured /\ Presented /\ Judged /\ AdmittedInForce)'
<1>1. /\ config = NULL /\ StartsUp(c) /\ config' = c
      /\ UNCHANGED <<vars, jwt, verdict>>
  BY DEF Start
<1>2. Configured'
  BY <1>1 DEF Configured
<1>3. Presented'
  BY <1>1 DEF AccessInv, Presented, Waiting, vars
<1>4. ~(verdict # NULL /\ verdict.outcome = "admitted")
  BY <1>1 DEF AccessInv, Judged
<1> QED BY <1>1, <1>2, <1>3, <1>4 DEF Judged, AdmittedInForce

LEMMA ArriveKeepsAccess ==
  ASSUME AccessInv, NEW r \in Requests, NEW j \in Jwts, Arrive(r, j)
  PROVE  (Configured /\ Presented /\ Judged /\ AdmittedInForce)'
<1>1. /\ config # NULL /\ config.oauth # NULL /\ config' = config
      /\ jwt' = [jwt EXCEPT ![r] = j] /\ verdict' = NULL
      /\ requests' = [requests EXCEPT ![r] = [IdleRequest EXCEPT !.at = "waiting",
                                                !.key = j.key, !.asked = now]]
  BY DEF Arrive, Ask
<1>2. requests'[r].key = j.key /\ \A s \in Requests \ {r} : requests'[s] = requests[s]
  BY <1>1 DEF AccessInv, CacheInv, TypeOK, IdleRequest
<1>3. jwt' \in [Requests -> Jwts \cup {NULL}]
  BY <1>1 DEF AccessInv, Presented
<1>4. jwt'[r] = j /\ \A s \in Requests \ {r} : jwt'[s] = jwt[s]
  BY <1>1 DEF AccessInv, Presented
<1>5. Presented'
  BY <1>1, <1>2, <1>3, <1>4 DEF AccessInv, Presented, Waiting
<1> QED BY <1>1, <1>5 DEF AccessInv, Configured, Judged, AdmittedInForce

LEMMA ValidateKeepsAccess ==
  ASSUME AccessInv, NEW r \in Requests, Validate(r)
  PROVE  (Configured /\ Presented /\ Judged /\ AdmittedInForce)'
<1>1. CacheInv /\ TypeOK /\ Next
  BY DEF AccessInv, CacheInv, Validate, Next
<1>2. /\ Waiting(r) /\ UNCHANGED <<now, provider, config>>
      /\ requests'[r].at # "idle" => requests'[r].key = requests[r].key
      /\ \A s \in Requests \ {r} : requests'[s] = requests[s]
  BY <1>1, HandleLocal DEF Validate
<1>3. /\ config # NULL /\ config.oauth # NULL /\ jwt[r] \in Jwts
      /\ requests[r].key = jwt[r].key /\ jwt \in [Requests -> Jwts \cup {NULL}]
  BY <1>2 DEF AccessInv, Presented
<1>4. Presented'
  <2>1. CASE requests'[r].at # "idle"
    BY <1>2, <1>3, <2>1 DEF AccessInv, Presented, Waiting, Validate
  <2>2. CASE requests'[r].at = "idle"
    <3>1. jwt' = [jwt EXCEPT ![r] = NULL]
      BY <2>2 DEF Validate
    <3>2. jwt' \in [Requests -> Jwts \cup {NULL}] /\ \A s \in Requests \ {r} : jwt'[s] = jwt[s]
      BY <1>3, <3>1
    <3> QED BY <1>2, <2>2, <3>2 DEF AccessInv, Presented, Waiting
  <2> QED BY <2>1, <2>2
<1>5. ASSUME verdict' # NULL, verdict'.outcome = "admitted"
      PROVE  Judged' /\ AdmittedInForce'
  <2>1. /\ requests'[r].at = "idle" /\ requests'[r].answer = "ok" /\ ClaimsHold(r)
        /\ verdict'.jwt = jwt[r] /\ Covering(jwt[r]) # {}
        /\ config.oauth.scopes \subseteq jwt[r].scopes
        /\ verdict'.agent = First(config.oauth.bindings, Covering(jwt[r])).from
    BY <1>5, AdmissionJudged
  <2>2. Answers(r, "ok")
    BY <1>2, <2>1 DEF Answers
  <2>3. /\ published[jwt[r].key] # NULL
        /\ withdrawn[jwt[r].key] # NULL =>
             now < withdrawn[jwt[r].key] + CacheTTL + FetchTimeout
    BY <1>1, <1>3, <2>2, KeyIsRecent
  <2>4. jwt[r].verified /\ jwt[r].iat <= now /\ now < jwt[r].exp
    BY <2>1 DEF ClaimsHold
  <2>5. AdmittedInForce'
    BY <1>2, <2>1, <2>3, <2>4 DEF AdmittedInForce, provider
  <2>6. Judged'
    BY <1>2, <1>3, <2>1 DEF Judged, Covering
  <2> QED BY <2>5, <2>6
<1>6. (verdict' = NULL \/ verdict'.outcome # "admitted") => Judged' /\ AdmittedInForce'
  BY DEF Judged, AdmittedInForce
<1>7. Configured'
  BY <1>2 DEF AccessInv, Configured
<1> QED BY <1>4, <1>5, <1>6, <1>7

(***************************************************************************)
(* Behind every admission stand a checked configuration, a token that      *)
(* waited for its own key, and claims that hold at this moment.            *)
(***************************************************************************)
THEOREM AccessInductive == AccessSpec => []AccessInv
<1>1. AccessInit => Init /\ Configured /\ Presented /\ Judged /\ AdmittedInForce
  BY DEF AccessInit, Init, Configured, Presented, Judged, AdmittedInForce, Waiting, IdleRequest
<1>2. AccessInit => AccessInv
  BY <1>1, InitCacheInv DEF AccessInv
<1>3. ASSUME AccessInv, [AccessNext]_accessVars
      PROVE  AccessInv'
  <2>1. CacheInv'
    BY <1>3, AccessSteps, NextKeepsInv DEF AccessInv
  <2>2. ASSUME Environment
        PROVE  (Configured /\ Presented /\ Judged /\ AdmittedInForce)'
    <3>1. UNCHANGED <<config, jwt, requests>> /\ verdict' = NULL
      BY <2>2 DEF Environment, Tick, Publish, Withdraw
    <3> QED BY <1>3, <3>1 DEF AccessInv, Configured, Presented, Judged, AdmittedInForce, Waiting
  <2>3. ASSUME UNCHANGED accessVars
        PROVE  (Configured /\ Presented /\ Judged /\ AdmittedInForce)'
    BY <1>3, <2>3 DEF AccessInv, accessVars, vars, provider, Configured, Presented, Judged,
                      AdmittedInForce, Waiting, Covering
  <2>4. (Configured /\ Presented /\ Judged /\ AdmittedInForce)'
    BY <1>3, <2>2, <2>3, StartKeepsAccess, ArriveKeepsAccess, ValidateKeepsAccess DEF AccessNext
  <2> QED BY <2>1, <2>4 DEF AccessInv
<1> QED BY <1>2, <1>3, PTL DEF AccessSpec

(***************************************************************************)
(* A token is in force when it is admitted, however long its key took.     *)
(***************************************************************************)
THEOREM TokensAdmittedInForce == AccessSpec => []AdmittedInForce
BY AccessInductive, PTL DEF AccessInv

(* No two bindings of a checked configuration cover one token. *)
LEMMA CoveringIsSingle ==
  ASSUME Configured, config # NULL, config.oauth # NULL, NEW j,
         NEW i \in Covering(j)
  PROVE  Covering(j) = {i}
<1> DEFINE b == config.oauth.bindings
<1>1. DOMAIN b \subseteq Nat /\ \A m, n \in DOMAIN b : m < n => ~Overlap(b[m], b[n])
  BY ConfigTyped DEF Configured, StartsUp, OAuthParses, BindingsParse
<1>2. ASSUME NEW m \in Covering(j), NEW n \in Covering(j)
      PROVE  Overlap(b[m], b[n])
  BY <1>2 DEF Covering, Binds, Overlap
<1>3. ASSUME NEW n \in Covering(j)
      PROVE  n = i
  <2>1. ~(n < i) /\ ~(i < n) /\ n \in Nat /\ i \in Nat
    BY <1>1, <1>2 DEF Covering
  <2> QED BY <2>1
<1> QED BY <1>3

(***************************************************************************)
(* Every binding that covers an admitted token names the agent it became.  *)
(***************************************************************************)
THEOREM OneBindingHolds == AccessSpec => []OneBinding
<1>1. ASSUME AccessInv
      PROVE  OneBinding
  <2> SUFFICES ASSUME verdict # NULL, verdict.outcome = "admitted",
                      NEW i \in Covering(verdict.jwt)
               PROVE  config.oauth.bindings[i].from = verdict.agent
    BY DEF OneBinding
  <2>1. /\ config # NULL /\ config.oauth # NULL
        /\ verdict.agent = First(config.oauth.bindings, Covering(verdict.jwt)).from
    BY <1>1 DEF AccessInv, Judged
  <2>2. Covering(verdict.jwt) = {i}
    BY <1>1, <2>1, CoveringIsSingle DEF AccessInv
  <2>3. i \in Nat
    BY <1>1, <2>1, ConfigTyped DEF AccessInv, Configured, Covering
  <2> QED BY <2>1, <2>2, <2>3, FirstOfOne
<1> QED BY <1>1, AccessInductive, PTL
===============================================================================
