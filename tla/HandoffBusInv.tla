---------------------------- MODULE HandoffBusInv ----------------------------
(***************************************************************************)
(* The inductive invariant behind HandoffBus's safety properties: what     *)
(* each stage of a handler may rely on although other calls ran since its  *)
(* last statement.                                                         *)
(***************************************************************************)
EXTENDS HandoffBus

(* What a call of each kind has filled in, and where it can be. *)
WellFormed ==
  {c \in Call :
     /\ c.at = "idle" <=> c.op = NULL
     /\ IF c.op = NULL THEN c.id = NULL ELSE c.token \in Tokens /\ c.id \in Ids
     /\ c.at = "answered" <=> c.answer # NULL
     /\ c.op = "create" => c.agent \in Agents /\ c.category \in Spellings
     /\ c.op = "merge" => c.commit \in Commits
     /\ c.at = "visible" => c.token \in Restricted
     /\ c.at = "broadcast" => c.op = "accept" /\ c.agent = NULL
     /\ c.at = "precheck" => c.op = "merge"
     /\ c.at = "embed" => c.op = "create"
     /\ c.at = "reread" \/ c.answer = "lost" => c.op \in {"accept", "complete", "merge"}}

CallShape == calls \in [Calls -> WellFormed]

(* Ids are drawn before they are used. *)
IdsDrawn ==
  /\ DOMAIN handoffs \subseteq drawn
  /\ \A n \in DOMAIN audit : audit[n].id \in drawn
  /\ \A p \in Calls : calls[p].op # NULL => calls[p].id \in drawn

(* The id of a create that has not inserted its row is nobody else's. *)
Inserting(p) == calls[p].op = "create" /\ calls[p].at \in {"visible", "write"}

Reserved ==
  \A p \in Calls : Inserting(p) =>
    /\ ~Exists(calls[p].id) /\ ~Tombstoned(calls[p].id)
    /\ \A q \in Calls \ {p} : calls[q].id # calls[p].id

(* An accept that names nobody reaches its UPDATE only for an addressed row. *)
ClaimReady(p) ==
  At(p, "accept", "write") /\ calls[p].agent = NULL /\ Exists(calls[p].id) =>
    ~IsBroadcast(handoffs[calls[p].id])

(* A merge reaches its UPDATE only for work that is completed with a commit, *)
(* and other calls can only have merged it since.                            *)
MergeReady(p) ==
  At(p, "merge", "write") /\ Exists(calls[p].id) =>
    /\ handoffs[calls[p].id].status \in {"completed", "merged"}
    /\ handoffs[calls[p].id].commit_hash \in Commits

(* An UPDATE that matched nothing would match nothing now. *)
RereadReady(p) ==
  calls[p].at = "reread" /\ Exists(calls[p].id) =>
    handoffs[calls[p].id].status \in Final(calls[p].op)

(* Once past the visibility check a restricted call stays within its party, *)
(* and so does what its deletion leaves behind.                             *)
PartyReady(p) ==
  LET c == calls[p]
  IN c.token \in Restricted /\ c.op \notin {NULL, "create"} /\ c.at # "visible" =>
       /\ c.answer \notin {"not_found", "db_error"} /\ Exists(c.id) =>
            CanSee(c.token, handoffs[c.id].from_agent, handoffs[c.id].to_agent)
       /\ c.op = "delete" /\ c.answer = "ok" => BuriedWithinParty(c)

Shape == TypeOK /\ CallShape /\ IdsDrawn /\ Reserved

CallInv(p) ==
  /\ ClaimReady(p) /\ MergeReady(p) /\ RereadReady(p) /\ PartyReady(p)
  /\ Stands(p) /\ LearnsWhy(p)

RowInv ==
  /\ ClaimHasHolder /\ MergedHasWork /\ OneTombstone /\ NoDanglingReply
  /\ OneOpenRowPerKey

IInv == Shape /\ (\A p \in Calls : CallInv(p)) /\ RowInv /\ OneWinner

-------------------------------------------------------------------------------
(* What a call still has before it *)

(***************************************************************************)
(* The steps a handler takes at most from a stage on: a statement each, or *)
(* the wait for the embedding endpoint together with the reads behind the  *)
(* warning of an unknown recipient.                                        *)
(***************************************************************************)
StatementsLeft(stage) ==
  CASE stage = "visible" -> 4
    [] stage \in {"broadcast", "precheck"} -> 3
    [] stage = "write" -> 2
    [] stage \in {"reread", "embed"} -> 1
    [] OTHER -> 0

(***************************************************************************)
(* No step of any call ever sends a handler back: whatever happens to the  *)
(* record of a call in flight brings that call closer to its answer, so a  *)
(* lost race costs one more read and never a retry, and nothing but a new  *)
(* request starts it again.                                                *)
(***************************************************************************)
NeverBack ==
  [][\A p \in Calls : calls[p].at \in InFlight /\ calls'[p] # calls[p] =>
       StatementsLeft(calls'[p].at) < StatementsLeft(calls[p].at)]_vars
===============================================================================
