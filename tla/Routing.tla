-------------------------------- MODULE Routing --------------------------------
(***************************************************************************)
(* Who sees which handoff: the bus with concrete slugs.  Which slugs a     *)
(* token may write as follows from its binding; what it may get is decided *)
(* in Rust and what its lists contain in SQL; and a machine's filing has   *)
(* to show up in the wake poll of its recipient.                           *)
(*                                                                         *)
(* The wake shim of one agent polls GET /api/pending with a `since' cursor.*)
(* A poll is one statement and moves the cursor past all it could see; the *)
(* clocks, lost polls and full pages are OperatorNotify's subject.         *)
(***************************************************************************)
EXTENDS HandoffBusInv, Slugs

CONSTANTS
  Binding,   \* token |-> its from_agent as configured; NULL for the main bearer
  Watched    \* the agent whose shim polls

ASSUME RoutingAssumption ==
  /\ Agents \subseteq Seq(Chars) /\ Watched \in Agents
  /\ \A a \in Agents : ValidSlug(a)
  /\ \A a, b \in Agents : SameSlug(a, b) => a = b
  /\ \A t \in Tokens :
       \/ Binding[t] = NULL /\ BoundTo[t] = {}
       \/ /\ Binding[t] \in Seq(Chars) /\ ValidBinding(Binding[t])
          /\ BoundTo[t] = {a \in Agents : SlugMatches(Binding[t], a)}
          /\ t \in Families <=> IsFamily(Binding[t])

VARIABLES
  touched,   \* the rows with updated_at after the cursor of the shim
  filed      \* the rows that took an action filing to Watched since its last poll

wakeVars == <<touched, filed>>
routingVars == <<vars, wakeVars>>

-------------------------------------------------------------------------------
(* Reads of a token that excludes client data *)

(* get_handoff, and ensure_handoff_visible before a write: slug_matches decides. *)
CanGet(t) ==
  {i \in DOMAIN handoffs : CanSee(t, handoffs[i].from_agent, handoffs[i].to_agent)}

(* The slugs that party_clause lets through. *)
PartyOf == [t \in Restricted |-> {a \in Agents : PartyMatches(Binding[t], a)}]

PartyClause(t, row) == row.from_agent \in PartyOf[t] \/ row.to_agent \in PartyOf[t]

(***************************************************************************)
(* list_handoffs, with no filter of its own and notify rows included, page *)
(* after page, within the seven days that it shows a notify row.           *)
(***************************************************************************)
Listed(t) == {i \in DOMAIN handoffs : PartyClause(t, handoffs[i])}

(* check_own_queue *)
MayQuery(t, agent) == agent \in BoundTo[t]

(* list_replies_to_me *)
Replies(t, agent) ==
  {i \in Listed(t) :
     LET parent == handoffs[i].in_reply_to
     IN parent # NULL /\ Exists(parent) /\ handoffs[parent].from_agent = agent}

-------------------------------------------------------------------------------
(* The wake poll *)

(***************************************************************************)
(* list_pending_for_agent: an accepted broadcast is in its acceptor's poll *)
(* and a lock record is in nobody's.                                       *)
(***************************************************************************)
Wakes(row) ==
  /\ row.status \in Open /\ row.category = "action"
  /\ \/ row.to_agent = Watched
     \/ IsBroadcast(row) /\ row.status = "accepted" /\ row.accepted_by = Watched
  /\ ~(row.status = "accepted" /\ row.from_agent = row.to_agent)

WakePage == {i \in touched : Wakes(handoffs[i])}

(* The rows this step inserts or updates. *)
Changed == {i \in DOMAIN handoffs' : ~Exists(i) \/ handoffs'[i] # handoffs[i]}

FaultyStamped ==
  {i \in Changed : ~Exists(i) \/ handoffs'[i].repeat_count = handoffs[i].repeat_count}

(* A trigger stamps updated_at on every UPDATE; the upsert also does itself. *)
Stamped == Changed

Stamp(rows) == touched' = (touched \cup rows) \cap DOMAIN handoffs'

(* A call of an MCP tool takes a step. *)
Tool(p) ==
  /\ Ask(p) \/ Statement(p) \/ DatabaseError(p) \/ Abandon(p)
  /\ Stamp(Stamped)
  /\ UNCHANGED filed

(***************************************************************************)
(* embed_and_store: storing the embedding is an UPDATE of the row, and it  *)
(* may fail.                                                               *)
(***************************************************************************)
StoreEmbedding(p) ==
  /\ Embedded(p)
  /\ Stamp({}) \/ Stamp({calls[p].id})
  /\ UNCHANGED filed

(* POST /api/handoff *)
Post(from, to, cat, key) ==
  /\ Filing \subseteq Ops
  /\ FileMachine(from, to, Lower(cat), key)
  /\ Stamp(Stamped)
  /\ filed' = IF to = Watched /\ Lower(cat) = "action"
              THEN filed \cup Changed
              ELSE filed

(* GET /api/pending *)
Poll ==
  /\ touched' = {} /\ filed' = {}
  /\ UNCHANGED vars

-------------------------------------------------------------------------------
RoutingInit == Init /\ touched = {} /\ filed = {}

RoutingNext ==
  \/ \E p \in Calls : Tool(p) \/ StoreEmbedding(p)
  \/ \E from, to \in Agents, cat \in FilingCategories, key \in Keys \cup {NULL} :
       Post(from, to, cat, key)
  \/ Poll

RoutingSpec == RoutingInit /\ [][RoutingNext]_routingVars

-------------------------------------------------------------------------------
(***************************************************************************)
(* A row with a dedupe key came from a producer; a row that took a filing  *)
(* is the recipient's and was stamped since the last poll.                 *)
(***************************************************************************)
WakeInv ==
  /\ touched \subseteq DOMAIN handoffs /\ filed \subseteq drawn
  /\ \A p \in Calls : Inserting(p) => calls[p].id \notin filed
  /\ \A i \in DOMAIN handoffs :
       handoffs[i].dedupe_key # NULL => handoffs[i].category \in {"action", "notify"}
  /\ \A i \in filed : Exists(i) =>
       /\ i \in touched
       /\ handoffs[i].to_agent = Watched
       /\ handoffs[i].category \in {"action", "notify"}

(* A token files in the names it is bound to, and its row keeps that name. *)
Sent(p) ==
  LET c == calls[p]
  IN c.op = "create" =>
       /\ c.agent \in Senders(c.token)
       /\ (c.at = "embed" \/ c.answer = "ok") /\ Exists(c.id) => handoffs[c.id].from_agent = c.agent

Traced == WakeInv /\ \A p \in Calls : Sent(p)

RoutingInv == TypeOK /\ Traced

(***************************************************************************)
(* What a token that excludes client data may get by id is what its lists  *)
(* contain, no more and no less, although one is decided in Rust and the   *)
(* other in SQL.  What it filed itself is in its lists, and so is every    *)
(* reply sent back to an agent whose queue it may query.                   *)
(***************************************************************************)
ReadsAgree ==
  \A t \in Restricted :
    /\ Listed(t) = CanGet(t)
    /\ \A p \in Calls : calls[p].token = t /\ Won(p, "create") /\ Exists(calls[p].id) =>
         calls[p].id \in Listed(t)
    /\ \A i \in DOMAIN handoffs, a \in Agents :
         /\ handoffs[i].to_agent = a /\ MayQuery(t, a)
         /\ handoffs[i].in_reply_to # NULL
         /\ handoffs[handoffs[i].in_reply_to].from_agent = a
         => i \in Replies(t, a)

(***************************************************************************)
(* "File `action' when the recipient must be woken": an action filing is   *)
(* in its recipient's next poll, also one that was suppressed into a row   *)
(* the last poll had passed already, unless that row was closed, is a lock *)
(* its sender took, or was filed as notify.                                *)
(***************************************************************************)
FilingHeard ==
  \A i \in filed : Exists(i) /\ handoffs[i].status \in Open =>
    \/ i \in WakePage
    \/ handoffs[i].status = "accepted" /\ handoffs[i].from_agent = handoffs[i].to_agent
    \/ handoffs[i].category = "notify"
===============================================================================
