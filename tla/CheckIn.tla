------------------------------- MODULE CheckIn -------------------------------
(***************************************************************************)
(* check_in, the query an agent starts a session with, against a bus that  *)
(* keeps moving.  It answers from three statements, the action page, the   *)
(* count of self-claims and the notify page, and what other calls commit   *)
(* between them shows in the later ones only.                              *)
(*                                                                         *)
(* The notify page's seven-day horizon is left out: every notify handoff  *)
(* is recent.  A page that is full holds any ActionLimit of its rows.      *)
(***************************************************************************)
EXTENDS HandoffBus

CONSTANTS
  Readers,       \* concurrent check_in calls
  ActionLimit,   \* ACTION_LIMIT
  NotifyLimit    \* NOTIFICATION_LIMIT

ASSUME ReaderAssumption ==
  ActionLimit \in Nat \ {0} /\ NotifyLimit \in Nat \ {0} /\ NULL \notin Nat

VARIABLES
  reads,         \* reader |-> the handler's locals
  stayed         \* reader |-> the addressed action handoffs open ever since it began

readVars == <<reads, stayed>>
allVars == <<vars, readVars>>

-------------------------------------------------------------------------------
(* Whose queue a handoff is in *)

(* NOT_SELF_CLAIM: a row its sender filed to itself and accepted is a lock. *)
SelfClaim(row) ==
  row.status = "accepted" /\ row.to_agent # NULL /\ row.from_agent = row.to_agent

FaultyInQueueForgetsHolder(row, agent) ==
  \/ row.to_agent = agent
  \/ IsBroadcast(row) /\ row.status = "pending" /\ row.from_agent # agent

(***************************************************************************)
(* A pending broadcast is in everyone's queue but its sender's; claimed,   *)
(* it is in its acceptor's only.                                           *)
(***************************************************************************)
InQueue(row, agent) ==
  \/ row.to_agent = agent
  \/ IsBroadcast(row) /\ row.status = "pending" /\ row.from_agent # agent
  \/ IsBroadcast(row) /\ row.status = "accepted" /\ row.accepted_by = agent

OpenAction(row) == row.status \in Open /\ row.category = "action"

Visible(t) == {i \in DOMAIN handoffs : CanSee(t, handoffs[i].from_agent, handoffs[i].to_agent)}

ActionQueue(agent, t) ==
  {i \in Visible(t) :
     OpenAction(handoffs[i]) /\ InQueue(handoffs[i], agent) /\ ~SelfClaim(handoffs[i])}

NotifyQueue(agent, t) ==
  {i \in Visible(t) :
     /\ handoffs[i].status \in Open /\ handoffs[i].category = "notify"
     /\ InQueue(handoffs[i], agent)}

SelfClaims(agent) ==
  {i \in DOMAIN handoffs :
     /\ OpenAction(handoffs[i]) /\ SelfClaim(handoffs[i])
     /\ handoffs[i].to_agent = agent}

(***************************************************************************)
(* One page of a query and whether a row was left out.                     *)
(***************************************************************************)
Pages(rows, limit) ==
  IF Cardinality(rows) <= limit THEN {[items |-> rows, has_more |-> FALSE]}
  ELSE {[items |-> s, has_more |-> TRUE] : s \in {s \in SUBSET rows : Cardinality(s) = limit}}

-------------------------------------------------------------------------------
(* The statements of a check_in *)

FaultyOrder == [first |-> "claims", claims |-> "action", action |-> "notify", notify |-> "answered"]

(* The first statement, and what comes after each. *)
Order == [first |-> "action", action |-> "claims", claims |-> "notify", notify |-> "answered"]

Page == [items : SUBSET Ids, has_more : BOOLEAN]
NoPage == [items |-> {}, has_more |-> FALSE]

Querying == {"action", "claims", "notify"}

Read == [at : {"idle", "answered"} \cup Querying,
         agent : Agents \cup {NULL}, token : Tokens \cup {NULL},
         action : Page, claims : Nat \cup {NULL}, notify : Page,
         answer : {"ok", "db_error", NULL}]

IdleRead == [at |-> "idle", agent |-> NULL, token |-> NULL, action |-> NoPage,
             claims |-> NULL, notify |-> NoPage, answer |-> NULL]

AddressedOpen(agent) ==
  {i \in DOMAIN handoffs : OpenAction(handoffs[i]) /\ handoffs[i].to_agent = agent}

(***************************************************************************)
(* A token that excludes client data reads its own queue only              *)
(* (check_own_queue); anyone else may look at a peer's.                    *)
(***************************************************************************)
Begin(r) ==
  /\ reads[r].at \in {"idle", "answered"}
  /\ \E t \in Tokens, a \in Agents :
       /\ t \in Restricted => a \in BoundTo[t]
       /\ reads' = [reads EXCEPT ![r] =
                      [IdleRead EXCEPT !.at = Order.first, !.agent = a, !.token = t]]
       /\ stayed' = [stayed EXCEPT ![r] = AddressedOpen(a)]
  /\ UNCHANGED vars

Fail(r) == reads' = [reads EXCEPT ![r].at = "answered", ![r].answer = "db_error"]

ActionPage(r) ==
  /\ reads[r].at = "action"
  /\ \/ \E page \in Pages(ActionQueue(reads[r].agent, reads[r].token), ActionLimit) :
          reads' = [reads EXCEPT ![r].action = page, ![r].at = Order.action]
     \/ Fail(r)
  /\ UNCHANGED <<vars, stayed>>

(***************************************************************************)
(* The count is decoration: if it fails the answer says null.              *)
(***************************************************************************)
CountClaims(r) ==
  /\ reads[r].at = "claims"
  /\ \E n \in {Cardinality(SelfClaims(reads[r].agent)), NULL} :
       reads' = [reads EXCEPT ![r].claims = n, ![r].at = Order.claims]
  /\ UNCHANGED <<vars, stayed>>

NotifyPage(r) ==
  /\ reads[r].at = "notify"
  /\ \/ \E page \in Pages(NotifyQueue(reads[r].agent, reads[r].token), NotifyLimit) :
          reads' = [reads EXCEPT ![r].notify = page, ![r].at = Order.notify, ![r].answer = "ok"]
     \/ Fail(r)
  /\ UNCHANGED <<vars, stayed>>

AbandonRead(r) ==
  /\ reads[r].at \in Querying
  /\ reads' = [reads EXCEPT ![r] = IdleRead]
  /\ UNCHANGED <<vars, stayed>>

-------------------------------------------------------------------------------
ReadInit ==
  /\ Init
  /\ reads = [r \in Readers |-> IdleRead]
  /\ stayed = [r \in Readers |-> {}]

(* The bus moves; `stayed' forgets what is no longer open. *)
BusStep ==
  /\ Next
  /\ stayed' = [r \in Readers |->
                  {i \in stayed[r] : i \in DOMAIN handoffs' /\ handoffs'[i].status \in Open}]
  /\ UNCHANGED reads

ReadStep(r) == Begin(r) \/ ActionPage(r) \/ CountClaims(r) \/ NotifyPage(r) \/ AbandonRead(r)

ReadNext == BusStep \/ \E r \in Readers : ReadStep(r)

ReadSpec == ReadInit /\ [][ReadNext]_allVars

-------------------------------------------------------------------------------
(***************************************************************************)
(* A handoff to the reader that was open from the first statement to the   *)
(* last is accounted for in the answer although it may have turned from    *)
(* work into a self-claim in between: it is in the action page, or the     *)
(* page says has_more, or the self-claim count covers it (or is null).     *)
(***************************************************************************)
NothingMissed ==
  \A r \in Readers :
    LET read == reads[r]
    IN read.answer = "ok" /\ ~read.action.has_more /\ read.claims # NULL =>
         Cardinality(stayed[r] \ read.action.items) <= read.claims

(* How a read accounts for the handoffs that stayed, statement by statement. *)
Accounts(r) ==
  LET read == reads[r]
      rest == stayed[r] \ read.action.items
  IN /\ read.at # "idle" =>
          /\ read.agent \in Agents /\ read.token \in Tokens
          /\ read.token \in Restricted => read.agent \in BoundTo[read.token]
          /\ stayed[r] \subseteq AddressedOpen(read.agent)
     /\ read.at = "claims" /\ ~read.action.has_more => rest \subseteq SelfClaims(read.agent)
     /\ read.claims # NULL => read.at \in {"notify", "answered"}
     /\ ~read.action.has_more /\ read.claims # NULL => Cardinality(rest) <= read.claims

ReadInv ==
  /\ reads \in [Readers -> Read]
  /\ stayed \in [Readers -> SUBSET Ids]
  /\ \A r \in Readers : Accounts(r)

(***************************************************************************)
(* check_in's page is "open action handoffs addressed to you or to nobody  *)
(* in particular": at any time every open action handoff is in the queue   *)
(* of some agent or is counted among that agent's self-claims, a broadcast *)
(* in particular whoever claimed it and however.                           *)
(***************************************************************************)
SeenBySomebody ==
  \A i \in DOMAIN handoffs :
    OpenAction(handoffs[i]) =>
      \E a \in Agents : \/ InQueue(handoffs[i], a) /\ ~SelfClaim(handoffs[i])
                        \/ i \in SelfClaims(a)

(***************************************************************************)
(* create_handoff takes a category of "Action" for "action", as            *)
(* validate_required does, and check_in shows "open action handoffs        *)
(* addressed to you": whatever its case, an open action handoff is in some *)
(* queue or among some agent's self-claims.                                *)
(***************************************************************************)
EverySpellingSeen ==
  \A i \in DOMAIN handoffs :
    handoffs[i].status \in Open /\ Lower(handoffs[i].category) = "action" =>
      \E a \in Agents, t \in Tokens : i \in ActionQueue(a, t) \cup SelfClaims(a)
===============================================================================
