--------------------------------- MODULE Access --------------------------------
(***************************************************************************)
(* Who gets in: the configured credentials, the middleware that decides    *)
(* what each may reach, and the validation of OAuth access tokens against  *)
(* the cached signing keys of JwksCache.                                   *)
(*                                                                         *)
(* A request with a static credential is decided in one go and changes     *)
(* nothing in the server: Gate is that decision, for every request.  A     *)
(* request with an OAuth token waits for the key its header names, and its *)
(* claims are judged in the step that obtains the key: the code awaits     *)
(* nothing in between.  The wall clock runs with the monotonic one.        *)
(*                                                                         *)
(* Slugs stand for themselves up to case and surrounding white space.      *)
(***************************************************************************)
EXTENDS JwksCache, Sequences

CONSTANTS
  Secrets,    \* static bearer secrets
  Minted,     \* those of at least MIN_TOKEN_LEN bytes
  Slugs,      \* valid agent names, and the families `<base>-*' of agent tokens
  Subjects,   \* OAuth subjects that are not blank
  Clients,    \* OAuth client ids that are not blank
  Scopes,     \* valid OAuth scope tokens
  Bad,        \* a name, subject, client id or scope that its parser refuses
  Jwts,       \* OAuth access tokens
  Configs     \* configurations the operator may start the server with

MachineScopes == {"create", "read"}

(***************************************************************************)
(* `create' is POST /api/handoff and `read' GET /api/pending, named by the *)
(* scope they take; `probe' is /health and /ready, `metadata' the OAuth    *)
(* resource metadata.                                                      *)
(***************************************************************************)
Endpoints == {"probe", "metadata", "mcp", "create", "read", "briefing"}

(* A second Authorization header, and what the REST handlers take from the body. *)
Static == [endpoint : Endpoints, secret : Secrets \cup {NULL}, twice : BOOLEAN,
           from : Slugs \cup {NULL}, to : Slugs \cup {NULL}]

(***************************************************************************)
(* `header' says that the header names a key and nothing the server does   *)
(* not implement; `verified' that the signature is by that key, and that   *)
(* issuer, audience and the other claims fit.                              *)
(***************************************************************************)
Jwt == [key : Keys, header : BOOLEAN, verified : BOOLEAN, iat : Nat, exp : Nat,
        subject : Subjects, client : Clients, scopes : SUBSET Scopes]

(***************************************************************************)
(* What the operator writes: `from' is a from_agent and `agents' of a      *)
(* machine its allowlist.                                                  *)
(***************************************************************************)
Machine == [secret : Secrets, from : Slugs \cup {Bad}, agents : SUBSET (Slugs \cup {Bad}),
            scopes : SUBSET (MachineScopes \cup {Bad})]
Agent == [secret : Secrets, from : Slugs \cup {Bad}]
Binding == [subject : Subjects \cup {Bad}, client : Clients \cup {Bad, NULL},
            from : Slugs \cup {Bad}]
OAuth == [bindings : Seq(Binding), scopes : SUBSET (Scopes \cup {Bad})]

Config == [main : Secrets \cup {NULL}, dev_no_auth : BOOLEAN, machines : Seq(Machine),
           agents : Seq(Agent), oauth : OAuth \cup {NULL}, resource : BOOLEAN]

ASSUME AccessAssumption ==
  /\ Minted \subseteq Secrets /\ Jwts \subseteq Jwt /\ Configs \subseteq Config
  /\ NULL \notin Secrets \cup Slugs \cup Clients \cup Jwts \cup Configs \cup OAuth \cup {"Full"}
  /\ Bad \notin Slugs \cup Subjects \cup Clients \cup Scopes \cup MachineScopes

-------------------------------------------------------------------------------
(* Starting the server *)

Distinct(tokens) ==
  \A i, j \in DOMAIN tokens : i < j => tokens[i].secret # tokens[j].secret

(* parse_machine_tokens *)
MachinesParse(c) ==
  /\ \A i \in DOMAIN c.machines :
       LET m == c.machines[i]
       IN /\ m.secret \in Minted /\ m.secret # c.main
          /\ m.from \in Slugs
          /\ m.agents # {} /\ m.agents \subseteq Slugs
          /\ m.scopes # {} /\ m.scopes \subseteq MachineScopes
  /\ Distinct(c.machines)

FaultyAgentsParse(c) ==
  /\ \A i \in DOMAIN c.agents :
       c.agents[i].secret \in Minted /\ c.agents[i].secret # c.main /\ c.agents[i].from \in Slugs
  /\ Distinct(c.agents)

(* parse_agent_tokens *)
AgentsParse(c) ==
  /\ \A i \in DOMAIN c.agents :
       LET a == c.agents[i]
       IN /\ a.secret \in Minted /\ a.secret # c.main
          /\ \A j \in DOMAIN c.machines : a.secret # c.machines[j].secret
          /\ a.from \in Slugs
  /\ Distinct(c.agents)

FaultyOverlap(left, right) == left.subject = right.subject /\ left.client = right.client

(* A binding without a client id covers every client of its subject. *)
Overlap(left, right) ==
  /\ left.subject = right.subject
  /\ left.client = NULL \/ right.client = NULL \/ left.client = right.client

(* OAuthState::from_json *)
BindingsParse(bindings) ==
  /\ bindings # <<>>
  /\ \A i \in DOMAIN bindings :
       /\ bindings[i].subject \in Subjects /\ bindings[i].client \in Clients \cup {NULL}
       /\ bindings[i].from \in Slugs
  /\ \A i, j \in DOMAIN bindings : i < j => ~Overlap(bindings[i], bindings[j])

(* configured_state: both settings or neither, and never without operator authentication. *)
OAuthParses(c) ==
  /\ c.oauth = NULL <=> ~c.resource
  /\ c.oauth # NULL =>
       c.main # NULL /\ BindingsParse(c.oauth.bindings) /\ c.oauth.scopes \subseteq Scopes

StartsUp(c) ==
  /\ c.main # NULL \/ c.dev_no_auth
  /\ MachinesParse(c) /\ AgentsParse(c)
  /\ c.main = NULL => c.machines = <<>> /\ c.agents = <<>>
  /\ OAuthParses(c)

-------------------------------------------------------------------------------
(* The middleware *)

Holding(tokens, secret) == {i \in DOMAIN tokens : tokens[i].secret = secret}

(* find: the first of the entries that match. *)
First(list, found) == list[CHOOSE i \in found : \A j \in found : i <= j]

(***************************************************************************)
(* What becomes of a request: it runs as the class `as' with `entry', is   *)
(* rejected, or is validated as an OAuth token.                            *)
(***************************************************************************)
Runs(as, entry) == [status |-> "runs", as |-> as, entry |-> entry]
Rejected(status) == [status |-> status, as |-> NULL, entry |-> NULL]
Validated == [status |-> "validated", as |-> NULL, entry |-> NULL]

(***************************************************************************)
(* bearer_auth.  Without a main token the server is open, by --dev-no-auth.*)
(***************************************************************************)
BearerAuth(c, q) ==
  LET machines == Holding(c.machines, q.secret)
      agents == Holding(c.agents, q.secret)
      machine == First(c.machines, machines)
      agent == First(c.agents, agents)
  IN IF q.endpoint = "probe" THEN Runs("public", NULL)
     ELSE IF c.main \in {NULL, q.secret} THEN Runs("Full", NULL)
     ELSE IF machines # {} THEN
       IF q.endpoint \in machine.scopes THEN Runs("Machine", machine) ELSE Rejected("forbidden")
     ELSE IF agents # {} THEN
       IF q.endpoint = "mcp" THEN Runs("Agent", agent) ELSE Rejected("forbidden")
     ELSE Rejected("unauthorized")

IsStatic(c, secret) ==
  secret = c.main \/ Holding(c.agents, secret) # {} \/ Holding(c.machines, secret) # {}

(***************************************************************************)
(* oauth_bearer_auth.  Without OAuth the first of several headers counts.  *)
(***************************************************************************)
Gate(c, q) ==
  IF c.oauth = NULL THEN BearerAuth(c, q)
  ELSE IF q.endpoint \in {"metadata", "probe"} THEN Runs("public", NULL)
  ELSE IF c.main = NULL THEN Rejected("unavailable")
  ELSE IF q.twice THEN Rejected("unauthorized")
  ELSE IF q.secret # NULL /\ ~IsStatic(c, q.secret) /\ q.endpoint = "mcp" THEN Validated
  ELSE BearerAuth(c, q)

-------------------------------------------------------------------------------
(* The REST handlers: whom a request files as, and whether it may poll. *)

(* create_handoff *)
FilesAs(c, q) ==
  LET caller == Gate(c, q)
  IN {slug \in Slugs :
        /\ q.endpoint = "create" /\ caller.status = "runs" /\ q.to # NULL
        /\ CASE caller.as = "Machine" ->
                  /\ slug = caller.entry.from /\ q.from \in {NULL, slug}
                  /\ q.to \in caller.entry.agents
             [] caller.as = "Full" -> slug = q.from
             [] OTHER -> FALSE}

(* list_pending *)
MayPoll(c, q) ==
  LET caller == Gate(c, q)
  IN /\ q.endpoint = "read" /\ caller.status = "runs" /\ q.to # NULL
     /\ caller.as = "Machine" => q.to \in caller.entry.agents

-------------------------------------------------------------------------------
(* OAuth tokens *)

VARIABLES
  config,   \* the configuration the server runs with, or NULL before its start
  jwt,      \* request |-> the OAuth token it presented, while it is validated
  verdict   \* the validation the last step ended, or NULL

accessVars == <<vars, config, jwt, verdict>>

(***************************************************************************)
(* An OAuth token enters validation only at /mcp, like any credential that *)
(* is no static one; a faulty header is refused before anything is awaited.*)
(***************************************************************************)
Arrive(r, j) ==
  /\ config # NULL /\ config.oauth # NULL /\ j.header
  /\ Ask(r, j.key)
  /\ jwt' = [jwt EXCEPT ![r] = j]
  /\ verdict' = NULL
  /\ UNCHANGED config

FaultyClaimsHold(r) ==
  LET j == jwt[r]
  IN j.verified /\ requests[r].asked < j.exp /\ j.iat <= requests[r].asked /\ j.iat < j.exp

(* No leeway. *)
ClaimsHold(r) ==
  LET j == jwt[r]
  IN j.verified /\ now < j.exp /\ j.iat <= now /\ j.iat < j.exp

Binds(b, j) == b.subject = j.subject /\ b.client \in {NULL, j.client}

Covering(j) == {i \in DOMAIN config.oauth.bindings : Binds(config.oauth.bindings[i], j)}

(***************************************************************************)
(* validate, once it has the key or has been refused it.                   *)
(***************************************************************************)
Judge(r, answer) ==
  LET j == jwt[r]
      Is(outcome, agent) == [jwt |-> j, outcome |-> outcome, agent |-> agent]
  IN IF answer # "ok" \/ ~ClaimsHold(r) THEN Is("invalid_token", NULL)
     ELSE IF Covering(j) = {} THEN Is("unmapped", NULL)
     ELSE IF ~(config.oauth.scopes \subseteq j.scopes) THEN Is("insufficient_scope", NULL)
     ELSE Is("admitted", First(config.oauth.bindings, Covering(j)).from)

Validate(r) ==
  /\ Handle(r)
  /\ IF requests'[r].at # "idle"
     THEN UNCHANGED jwt /\ verdict' = NULL
     ELSE /\ jwt' = [jwt EXCEPT ![r] = NULL]
          /\ verdict' = IF requests'[r].answer = NULL THEN NULL ELSE Judge(r, requests'[r].answer)
  /\ UNCHANGED config

(***************************************************************************)
(* The server refuses to start on a configuration with any fault.          *)
(***************************************************************************)
Start(c) ==
  /\ config = NULL /\ StartsUp(c)
  /\ config' = c
  /\ UNCHANGED <<vars, jwt, verdict>>

Environment ==
  /\ Tick \/ \E k \in Keys : Publish(k) \/ Withdraw(k)
  /\ verdict' = NULL
  /\ UNCHANGED <<config, jwt>>

-------------------------------------------------------------------------------
AccessInit ==
  /\ Init
  /\ config = NULL
  /\ jwt = [r \in Requests |-> NULL]
  /\ verdict = NULL

AccessNext ==
  \/ Environment
  \/ \E c \in Configs : Start(c)
  \/ \E r \in Requests : Validate(r) \/ \E j \in Jwts : Arrive(r, j)

AccessSpec == AccessInit /\ [][AccessNext]_accessVars

-------------------------------------------------------------------------------
Public(c, q) == q.endpoint = "probe" \/ (q.endpoint = "metadata" /\ c.oauth # NULL)

Opens(c, q, as, entry, endpoints) ==
  Gate(c, q).status = "runs" /\ ~Public(c, q) =>
    Gate(c, q) = Runs(as, entry) /\ q.endpoint \in endpoints

MachineKept(c, m) ==
  \A q \in Static : q.secret = m.secret =>
    /\ Opens(c, q, "Machine", m, m.scopes)
    /\ FilesAs(c, q) # {} => FilesAs(c, q) = {m.from} /\ q.to \in m.agents
    /\ MayPoll(c, q) => q.to \in m.agents

AgentKept(c, a) ==
  \A q \in Static : q.secret = a.secret => Opens(c, q, "Agent", a, {"mcp"})

FullKept(c) ==
  \A q \in Static : Gate(c, q).as = "Full" =>
    \/ q.secret = c.main /\ c.main # NULL
    \/ c.machines = <<>> /\ c.agents = <<>> /\ c.oauth = NULL

(***************************************************************************)
(* On every configuration the server starts with, a secret opens what the  *)
(* operator wrote next to it and nothing else, wherever it stands in       *)
(* whichever list: a machine's secret the endpoints of its scopes, in its  *)
(* own name and for the agents of its allowlist; an agent's secret /mcp as *)
(* that agent.  Only the main bearer is unbound, and an open server has no *)
(* scoped credential whose bounds it drops.                                *)
(***************************************************************************)
ClassesApart ==
  [][config' # config =>
       /\ \A i \in DOMAIN config'.machines : MachineKept(config', config'.machines[i])
       /\ \A i \in DOMAIN config'.agents : AgentKept(config', config'.agents[i])
       /\ FullKept(config')]_accessVars

(***************************************************************************)
(* Whom an OAuth token is admitted as does not hang on the order in which  *)
(* the operator wrote the bindings: every binding that covers the token    *)
(* names the same agent.                                                   *)
(***************************************************************************)
OneBinding ==
  verdict # NULL /\ verdict.outcome = "admitted" =>
    \A i \in Covering(verdict.jwt) : config.oauth.bindings[i].from = verdict.agent

(***************************************************************************)
(* However long a request waited for the key, its token is still in force  *)
(* when it is admitted, covers the required scopes, and is signed by a key *)
(* the provider has not long withdrawn.                                    *)
(***************************************************************************)
AdmittedInForce ==
  verdict # NULL /\ verdict.outcome = "admitted" =>
    LET j == verdict.jwt
    IN /\ j.verified /\ j.iat <= now /\ now < j.exp
       /\ config.oauth.scopes \subseteq j.scopes
       /\ published[j.key] # NULL
       /\ withdrawn[j.key] # NULL => now < withdrawn[j.key] + CacheTTL + FetchTimeout
===============================================================================
