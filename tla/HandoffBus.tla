------------------------------ MODULE HandoffBus ------------------------------
(***************************************************************************)
(* The handoff bus: the `handoffs' table, the audit log that records       *)
(* deletions, and the MCP calls in flight against them.                    *)
(*                                                                         *)
(* Every handler is a chain of SQL statements, each its own autocommit     *)
(* transaction on a pooled connection, with an await between them.  One    *)
(* statement is one action here, and between two statements of a call any  *)
(* number of statements of other calls may run.  The server keeps no state *)
(* of its own about a call beyond the handler's locals, so a crash, a      *)
(* restart or a dropped connection is a call that stops after any          *)
(* statement (Abandon).                                                    *)
(*                                                                         *)
(* Agent slugs are compared ignoring case everywhere in the code; Agents   *)
(* holds one value per slug up to case.                                    *)
(***************************************************************************)
EXTENDS Naturals, Sequences, FiniteSets

CONSTANTS
  Agents,      \* agent slugs
  Ids,         \* handoff ids (UUIDv7): bounds how many handoffs are ever filed
  Calls,       \* concurrent MCP calls
  Tokens,      \* credentials that reach /mcp
  BoundTo,     \* token |-> the slugs it may write as; {} for the main bearer
  Families,    \* tokens bound to a slug family `<base>-*'
  Restricted,  \* tokens with exclude_client_data
  Commits,     \* commit references with at least one non-blank character
  Blank,       \* a commit reference of white space only
  Keys,        \* dedupe keys of machine producers
  Categories,  \* the category strings the callers of this instance pass
  FilingCategories,  \* and those its machine producers pass
  Ops,         \* the operations the callers of this instance use
  MaxRepeat,   \* the largest repeat_count the int4 column holds
  NULL

Operations == {"create", "accept", "complete", "merge", "delete"}
Filing == {"file"}   \* the machine producers' REST path, which is no MCP call

Statuses == {"pending", "accepted", "completed", "merged"}
Open == {"pending", "accepted"}

(***************************************************************************)
(* validate_required accepts a category in any case, and create_handoff    *)
(* stores it as it came; the REST path stores it in lower case.            *)
(***************************************************************************)
Spellings == {"action", "Action", "notify", "Notify"}
Lower(cat) == IF cat \in {"action", "Action"} THEN "action" ELSE "notify"

(***************************************************************************)
(* Answers: "ok" the handler returned the row; "lost" its UPDATE matched   *)
(* no row and the re-read found the handoff in status `saw'; "refused" a   *)
(* precondition read said no; "db_error" a statement failed, or committed  *)
(* and its acknowledgement was lost.                                       *)
(***************************************************************************)
Answers == {"ok", "lost", "refused", "not_found", "db_error"}

ASSUME BusAssumption ==
  /\ BoundTo \in [Tokens -> SUBSET Agents]
  /\ Families \subseteq Tokens /\ Restricted \subseteq Tokens
  /\ \A t \in Families \cup Restricted : BoundTo[t] # {}
  /\ \A t \in Tokens \ Families : BoundTo[t] = {} \/ \E a \in Agents : BoundTo[t] = {a}
  /\ NULL \notin Agents \cup Ids \cup Commits \cup Keys \cup {Blank}
  /\ NULL \notin Operations \cup Statuses \cup Answers
  /\ Blank \notin Commits
  /\ Ops \subseteq Operations \cup Filing
  /\ Categories \cup FilingCategories \subseteq Spellings
  /\ MaxRepeat \in Nat

VARIABLES
  handoffs,   \* the handoffs table: id |-> row, for the rows that exist
  audit,      \* audit_log: the tombstones of deleted handoffs, oldest first
  drawn,      \* the ids Uuid::now_v7() has returned so far
  calls       \* call |-> the handler's locals

vars == <<handoffs, audit, drawn, calls>>
table == <<handoffs, audit, drawn>>

-------------------------------------------------------------------------------
(* Rows, tombstones and calls *)

Row == [from_agent : Agents, to_agent : Agents \cup {NULL},
        status : Statuses, accepted_by : Agents \cup {NULL},
        category : Spellings, in_reply_to : Ids \cup {NULL},
        commit_hash : Commits \cup {Blank, NULL}, merge_commit : Commits \cup {NULL},
        dedupe_key : Keys \cup {NULL}, repeat_count : 0 .. MaxRepeat]

Tombstone == [id : Ids, from_agent : Agents, to_agent : Agents \cup {NULL},
              status : Statuses]

Stages == {"idle", "visible", "broadcast", "precheck", "write", "reread",
           "embed", "answered"}
InFlight == Stages \ {"idle", "answered"}

(***************************************************************************)
(* `agent' is the acceptor of an accept and the sender of a create.        *)
(***************************************************************************)
Call == [op : Operations \cup {NULL}, at : Stages, token : Tokens \cup {NULL},
         id : Ids \cup {NULL}, agent : Agents \cup {NULL}, to : Agents \cup {NULL},
         parent : Ids \cup {NULL}, category : Spellings \cup {NULL},
         commit : Commits \cup {Blank, NULL},
         answer : Answers \cup {NULL}, saw : Statuses \cup {NULL}]

Idle == [op |-> NULL, at |-> "idle", token |-> NULL, id |-> NULL, agent |-> NULL,
         to |-> NULL, parent |-> NULL, category |-> NULL, commit |-> NULL,
         answer |-> NULL, saw |-> NULL]

Exists(i) == i \in DOMAIN handoffs
Tombstoned(i) == \E n \in DOMAIN audit : audit[n].id = i

(***************************************************************************)
(* The ids a client can name: those of handoffs that exist or once did.    *)
(***************************************************************************)
Known == {i \in Ids : Exists(i) \/ Tombstoned(i)}

Coalesce(x, y) == IF x = NULL THEN y ELSE x

(***************************************************************************)
(* What the INSERTs and the SET clauses of the UPDATEs make of a row.      *)
(***************************************************************************)
PendingRow(from, to, category, parent, key) ==
  [from_agent |-> from, to_agent |-> to, status |-> "pending", accepted_by |-> NULL,
   category |-> category, in_reply_to |-> parent, commit_hash |-> NULL,
   merge_commit |-> NULL, dedupe_key |-> key, repeat_count |-> 0]

AcceptedRow(row, agent) ==
  [row EXCEPT !.status = "accepted", !.accepted_by = Coalesce(agent, row.to_agent)]

CompletedRow(row, commit) ==
  [row EXCEPT !.status = "completed", !.commit_hash = Coalesce(commit, row.commit_hash)]

MergedRow(row, commit) == [row EXCEPT !.status = "merged", !.merge_commit = commit]

RepeatedRow(row) == [row EXCEPT !.repeat_count = @ + 1]

Update(i, row) == handoffs' = [handoffs EXCEPT ![i] = row]

Insert(i, row) ==
  handoffs' = [j \in DOMAIN handoffs \cup {i} |-> IF j = i THEN row ELSE handoffs[j]]

FaultyRemoveLeavesRow(i) == UNCHANGED handoffs

(***************************************************************************)
(* ON DELETE SET NULL on in_reply_to: the replies outlive their parent.    *)
(***************************************************************************)
Remove(i) ==
  handoffs' = [j \in DOMAIN handoffs \ {i} |->
                 IF handoffs[j].in_reply_to = i
                 THEN [handoffs[j] EXCEPT !.in_reply_to = NULL]
                 ELSE handoffs[j]]

-------------------------------------------------------------------------------
(* Preconditions of the statements *)

(***************************************************************************)
(* The operators named Faulty... are mistakes this code could have made.   *)
(* No specification uses them: PROJECT.json puts each in the place of the  *)
(* definition that follows it, to see that a property notices.             *)
(***************************************************************************)
FaultyAcceptableWhileOpen(row) == row.status \in Open
FaultyAcceptableIfAddressed(row) == row.status = "pending" /\ row.to_agent # NULL
Acceptable(row) == row.status = "pending"
FaultyCompletableUntilMerged(row) == row.status # "merged"
Completable(row) == row.status \in Open
Mergeable(row) == row.status = "completed"
FaultyCarriesWorkUntrimmed(row) == row.commit_hash # NULL
CarriesWork(row) == row.commit_hash \notin {NULL, Blank}
IsBroadcast(row) == row.to_agent = NULL

CanSee(t, from, to) ==
  t \in Restricted => from \in BoundTo[t] \/ to \in BoundTo[t]

(***************************************************************************)
(* Whom an accept may record: a plain token its own slug, a family token   *)
(* the member it names, the main bearer whomever it names, or nobody.      *)
(***************************************************************************)
Acceptors(t) == IF BoundTo[t] = {} THEN Agents \cup {NULL} ELSE BoundTo[t]

(***************************************************************************)
(* Whom a create may name as sender (check_bound_identity).                *)
(***************************************************************************)
Senders(t) == IF BoundTo[t] = {} THEN Agents ELSE BoundTo[t]

-------------------------------------------------------------------------------
(* Starting a call.  Requests a handler refuses before its first statement *)
(* leave no trace and are not modelled.                                    *)

Ready(p, op) == op \in Ops /\ calls[p].at \notin InFlight

Start(p, call) == calls' = [calls EXCEPT ![p] = call]

FaultyGateSkipped(t, next) == next

(***************************************************************************)
(* ensure_handoff_visible costs a read only for a restricted token.        *)
(***************************************************************************)
Gate(t, next) == IF t \in Restricted THEN "visible" ELSE next

FaultyFirstStageUnchecked(op, agent) == IF op = "merge" THEN "precheck" ELSE "write"

FirstStage(op, agent) ==
  CASE op = "merge" -> "precheck"
    [] op = "accept" /\ agent = NULL -> "broadcast"
    [] OTHER -> "write"

AskAccept(p) ==
  /\ Ready(p, "accept")
  /\ \E t \in Tokens, i \in Known : \E a \in Acceptors(t) :
       Start(p, [Idle EXCEPT !.op = "accept", !.token = t, !.id = i, !.agent = a,
                             !.at = Gate(t, FirstStage("accept", a))])
  /\ UNCHANGED table

AskComplete(p) ==
  /\ Ready(p, "complete")
  /\ \E t \in Tokens, i \in Known, c \in Commits \cup {Blank, NULL} :
       Start(p, [Idle EXCEPT !.op = "complete", !.token = t, !.id = i, !.commit = c,
                             !.at = Gate(t, FirstStage("complete", NULL))])
  /\ UNCHANGED table

AskMerge(p) ==
  /\ Ready(p, "merge")
  /\ \E t \in Tokens, i \in Known, c \in Commits :
       Start(p, [Idle EXCEPT !.op = "merge", !.token = t, !.id = i, !.commit = c,
                             !.at = Gate(t, FirstStage("merge", NULL))])
  /\ UNCHANGED table

AskDelete(p) ==
  /\ Ready(p, "delete")
  /\ \E t \in Tokens, i \in Known :
       Start(p, [Idle EXCEPT !.op = "delete", !.token = t, !.id = i,
                             !.at = Gate(t, FirstStage("delete", NULL))])
  /\ UNCHANGED table

(***************************************************************************)
(* The id is drawn by the server before the INSERT; no client learns it    *)
(* before the row exists.                                                  *)
(***************************************************************************)
AskCreate(p) ==
  /\ Ready(p, "create")
  /\ \E t \in Tokens, i \in Ids \ drawn, to \in Agents \cup {NULL},
        parent \in Known \cup {NULL}, cat \in Categories :
       \E a \in Senders(t) :
         /\ Start(p, [Idle EXCEPT !.op = "create", !.token = t, !.id = i, !.agent = a,
                        !.to = to, !.parent = parent, !.category = cat,
                        !.at = IF parent = NULL THEN "write" ELSE Gate(t, "write")])
         /\ drawn' = drawn \cup {i}
  /\ UNCHANGED <<handoffs, audit>>

-------------------------------------------------------------------------------
(* The statements of a call *)

At(p, op, stage) == calls[p].op = op /\ calls[p].at = stage

Goto(p, stage) == calls' = [calls EXCEPT ![p].at = stage]

Answer(p, answer, saw) ==
  calls' = [calls EXCEPT ![p].at = "answered", ![p].answer = answer, ![p].saw = saw]

(***************************************************************************)
(* A write that took effect is acknowledged, unless the connection broke   *)
(* after the commit and the handler saw an error instead.                  *)
(***************************************************************************)
Committed(p) == \E answer \in {"ok", "db_error"} : Answer(p, answer, NULL)

(***************************************************************************)
(* ensure_handoff_visible: for a create, of the parent it replies to.      *)
(***************************************************************************)
CheckVisible(p) ==
  LET c == calls[p]
      i == IF c.op = "create" THEN c.parent ELSE c.id
  IN /\ c.at = "visible"
     /\ IF Exists(i) /\ CanSee(c.token, handoffs[i].from_agent, handoffs[i].to_agent)
        THEN Goto(p, FirstStage(c.op, c.agent))
        ELSE Answer(p, "not_found", NULL)
     /\ UNCHANGED table

(***************************************************************************)
(* An unbound accept that names nobody: a broadcast has no recipient to    *)
(* fall back on, so it is refused; a row that is missing falls through.    *)
(***************************************************************************)
CheckBroadcast(p) ==
  LET i == calls[p].id
  IN /\ At(p, "accept", "broadcast")
     /\ IF Exists(i) /\ IsBroadcast(handoffs[i])
        THEN Answer(p, "refused", NULL)
        ELSE Goto(p, "write")
     /\ UNCHANGED table

Accept(p) ==
  LET i == calls[p].id
  IN /\ At(p, "accept", "write")
     /\ IF Exists(i) /\ Acceptable(handoffs[i])
        THEN Update(i, AcceptedRow(handoffs[i], calls[p].agent)) /\ Committed(p)
        ELSE Goto(p, "reread") /\ UNCHANGED handoffs
     /\ UNCHANGED <<audit, drawn>>

Complete(p) ==
  LET i == calls[p].id
  IN /\ At(p, "complete", "write")
     /\ IF Exists(i) /\ Completable(handoffs[i])
        THEN Update(i, CompletedRow(handoffs[i], calls[p].commit)) /\ Committed(p)
        ELSE Goto(p, "reread") /\ UNCHANGED handoffs
     /\ UNCHANGED <<audit, drawn>>

(***************************************************************************)
(* mark_merged's first read: an idempotent repeat is answered here, and    *)
(* only completed work with a commit goes on to the write.                 *)
(***************************************************************************)
CheckMerge(p) ==
  LET i == calls[p].id
  IN /\ At(p, "merge", "precheck")
     /\ IF ~Exists(i) THEN Answer(p, "not_found", NULL)
        ELSE IF handoffs[i].status = "merged"
             THEN IF handoffs[i].merge_commit = calls[p].commit
                  THEN Answer(p, "ok", NULL)
                  ELSE Answer(p, "refused", "merged")
        ELSE IF Mergeable(handoffs[i]) /\ CarriesWork(handoffs[i])
             THEN Goto(p, "write")
             ELSE Answer(p, "refused", handoffs[i].status)
     /\ UNCHANGED table

Merge(p) ==
  LET i == calls[p].id
  IN /\ At(p, "merge", "write")
     /\ IF Exists(i) /\ Mergeable(handoffs[i])
        THEN Update(i, MergedRow(handoffs[i], calls[p].commit)) /\ Committed(p)
        ELSE Goto(p, "reread") /\ UNCHANGED handoffs
     /\ UNCHANGED <<audit, drawn>>

FaultyRereadRetries(p) == calls[p].at = "reread" /\ Goto(p, "write") /\ UNCHANGED table

(***************************************************************************)
(* After an UPDATE that matched no row the handler reads the row again to  *)
(* say why.  A merge that lost to the same merge commit reports success.   *)
(***************************************************************************)
Reread(p) ==
  LET c == calls[p]
  IN /\ c.at = "reread"
     /\ IF ~Exists(c.id) THEN Answer(p, "not_found", NULL)
        ELSE IF /\ c.op = "merge" /\ handoffs[c.id].status = "merged"
                /\ handoffs[c.id].merge_commit = c.commit
             THEN Answer(p, "ok", NULL)
             ELSE Answer(p, "lost", handoffs[c.id].status)
     /\ UNCHANGED table

(***************************************************************************)
(* One statement deletes the row and writes its tombstone.                 *)
(***************************************************************************)
TombstoneOf(i) == [id |-> i, from_agent |-> handoffs[i].from_agent,
                   to_agent |-> handoffs[i].to_agent, status |-> handoffs[i].status]

Bury(i) == audit' = Append(audit, TombstoneOf(i))

Delete(p) ==
  LET i == calls[p].id
  IN /\ At(p, "delete", "write")
     /\ IF Exists(i)
        THEN Remove(i) /\ Bury(i) /\ Committed(p)
        ELSE Answer(p, "not_found", NULL) /\ UNCHANGED <<handoffs, audit>>
     /\ UNCHANGED drawn

FaultyParentUnchecked(parent) == TRUE

(***************************************************************************)
(* The foreign key on in_reply_to refuses a parent that is gone by now.    *)
(***************************************************************************)
ParentHolds(parent) == parent = NULL \/ Exists(parent)

Create(p) ==
  LET c == calls[p]
  IN /\ At(p, "create", "write")
     /\ IF ParentHolds(c.parent)
        THEN /\ Insert(c.id, PendingRow(c.agent, c.to, c.category, c.parent, NULL))
             /\ \/ Goto(p, "embed")
                \/ Answer(p, "db_error", NULL)
        ELSE Answer(p, "db_error", NULL) /\ UNCHANGED handoffs
     /\ UNCHANGED <<audit, drawn>>

(***************************************************************************)
(* create_handoff answers only after the embedding endpoint did.  The      *)
(* reads behind its warning of an unknown recipient come in between; they  *)
(* change nothing and are part of this step.                               *)
(***************************************************************************)
Embedded(p) ==
  /\ At(p, "create", "embed")
  /\ Answer(p, "ok", NULL)
  /\ UNCHANGED table

(***************************************************************************)
(* A statement fails before it takes effect: no pooled connection within   *)
(* the acquire timeout, or the connection broke.                           *)
(***************************************************************************)
DatabaseError(p) ==
  /\ calls[p].at \in InFlight \ {"embed"}
  /\ Answer(p, "db_error", NULL)
  /\ UNCHANGED table

(***************************************************************************)
(* The server stops, or the client goes away, between two statements.      *)
(***************************************************************************)
Abandon(p) ==
  /\ calls[p].at \in InFlight
  /\ calls' = [calls EXCEPT ![p] = Idle]
  /\ UNCHANGED table

-------------------------------------------------------------------------------
(* The machine producers' REST path: one upsert. *)

FaultySuppressesPending(row, to, key) ==
  key # NULL /\ row.dedupe_key = key /\ row.to_agent = to /\ row.status = "pending"

(* ON CONFLICT (dedupe_key) alone *)
FaultySuppressesByKey(row, to, key) ==
  key # NULL /\ row.dedupe_key = key /\ row.status \in Open

Suppresses(row, to, key) ==
  /\ key # NULL
  /\ row.dedupe_key = key /\ row.to_agent = to
  /\ row.status \in Open

(***************************************************************************)
(* repeat_count is an int4: PostgreSQL fails the upsert at the limit of    *)
(* the column and changes nothing.                                         *)
(***************************************************************************)
RepeatFits(row) == row.repeat_count < MaxRepeat

FileMachine(from, to, cat, key) ==
  LET same == {i \in DOMAIN handoffs : Suppresses(handoffs[i], to, key)}
  IN /\ IF same # {}
        THEN \E i \in same :
               /\ RepeatFits(handoffs[i])
               /\ Update(i, RepeatedRow(handoffs[i]))
               /\ UNCHANGED drawn
        ELSE \E i \in Ids \ drawn :
               /\ Insert(i, PendingRow(from, to, cat, NULL, key))
               /\ drawn' = drawn \cup {i}
     /\ UNCHANGED <<audit, calls>>

-------------------------------------------------------------------------------
Init ==
  /\ handoffs = [i \in {} |-> NULL]
  /\ audit = <<>>
  /\ drawn = {}
  /\ calls = [p \in Calls |-> Idle]

Ask(p) == AskAccept(p) \/ AskComplete(p) \/ AskMerge(p) \/ AskDelete(p) \/ AskCreate(p)

Statement(p) ==
  \/ CheckVisible(p) \/ CheckBroadcast(p) \/ CheckMerge(p)
  \/ Accept(p) \/ Complete(p) \/ Merge(p) \/ Reread(p)
  \/ Delete(p) \/ Create(p)

Ingest ==
  /\ Filing \subseteq Ops
  /\ \E from, to \in Agents, cat \in FilingCategories, key \in Keys \cup {NULL} :
       FileMachine(from, to, Lower(cat), key)

Next ==
  \/ \E p \in Calls : Ask(p) \/ Statement(p) \/ Embedded(p) \/ DatabaseError(p) \/ Abandon(p)
  \/ Ingest

Spec == Init /\ [][Next]_vars

-------------------------------------------------------------------------------
(* Fairness *)

(***************************************************************************)
(* The runtime drives every handler on and each SQL statement returns or   *)
(* fails, the pool's acquire timeout included.                             *)
(***************************************************************************)
ServerFairness == \A p \in Calls : WF_vars(Statement(p) \/ DatabaseError(p))

(***************************************************************************)
(* The embedding endpoint is an external service behind a client without a *)
(* timeout: that it answers is an assumption of its own.                   *)
(***************************************************************************)
EndpointFairness == \A p \in Calls : WF_vars(Embedded(p))

ServerSpec == Spec /\ ServerFairness
FairSpec == ServerSpec /\ EndpointFairness

-------------------------------------------------------------------------------
(* Invariants *)

(* The types of the four variables. *)
TypeOK ==
  /\ DOMAIN handoffs \subseteq Ids
  /\ handoffs \in [DOMAIN handoffs -> Row]
  /\ audit \in Seq(Tombstone)
  /\ drawn \subseteq Ids
  /\ calls \in [Calls -> Call]

Won(p, op) == calls[p].op = op /\ calls[p].answer = "ok"

(***************************************************************************)
(* Of any number of calls racing to accept, complete or delete one         *)
(* handoff at most one is told it succeeded; two merges may both be told   *)
(* so only if they named the same merge commit.                            *)
(***************************************************************************)
OneWinner ==
  \A p, q \in Calls : p # q /\ calls[p].id = calls[q].id =>
    /\ \A op \in {"accept", "complete", "delete"} : ~(Won(p, op) /\ Won(q, op))
    /\ Won(p, "merge") /\ Won(q, "merge") => calls[p].commit = calls[q].commit

Stands(p) ==
  LET c == calls[p]
      row == handoffs[c.id]
  IN /\ Won(p, "delete") => ~Exists(c.id)
     /\ Exists(c.id) =>
          /\ Won(p, "accept") =>
               /\ row.status # "pending"
               /\ row.accepted_by = Coalesce(c.agent, row.to_agent)
          /\ Won(p, "complete") =>
               /\ row.status \in {"completed", "merged"}
               /\ c.commit # NULL => row.commit_hash = c.commit
          /\ Won(p, "merge") => row.status = "merged" /\ row.merge_commit = c.commit

(***************************************************************************)
(* What a call was told it did stays done, whatever other calls do next:   *)
(* while the handoff exists it shows the acknowledged acceptor, commit or  *)
(* merge commit, and a handoff reported deleted does not come back.        *)
(***************************************************************************)
AcknowledgedStands == \A p \in Calls : Stands(p)

Final(op) == CASE op = "accept" -> Statuses \ {"pending"}
               [] op = "complete" -> {"completed", "merged"}
               [] OTHER -> {"merged"}

LearnsWhy(p) == calls[p].answer = "lost" => calls[p].saw \in Final(calls[p].op)

(***************************************************************************)
(* A call whose UPDATE matched nothing never reports a status its own      *)
(* operation would have accepted: the re-read runs later than the UPDATE,  *)
(* but no handoff goes back to a status it left.                           *)
(***************************************************************************)
LoserLearnsWhy == \A p \in Calls : LearnsWhy(p)

(***************************************************************************)
(* A claimed handoff has a holder, a claimed broadcast in particular, even *)
(* though the caller may name nobody and the broadcast test is an earlier  *)
(* statement than the claim.                                               *)
(***************************************************************************)
ClaimHasHolder ==
  \A i \in DOMAIN handoffs : handoffs[i].status = "accepted" => handoffs[i].accepted_by # NULL

(***************************************************************************)
(* Merged work carries the commit that was merged and the merge commit,    *)
(* even though the commit is tested by an earlier statement than the merge.*)
(***************************************************************************)
MergedHasWork ==
  \A i \in DOMAIN handoffs : handoffs[i].status = "merged" =>
    handoffs[i].commit_hash \in Commits /\ handoffs[i].merge_commit \in Commits

(***************************************************************************)
(* However many calls delete a handoff at once, it leaves one tombstone,   *)
(* and no tombstone stands for a handoff that is still there.              *)
(***************************************************************************)
OneTombstone ==
  /\ \A m, n \in DOMAIN audit : m # n => audit[m].id # audit[n].id
  /\ \A n \in DOMAIN audit : ~Exists(audit[n].id)

BuriedWithinParty(c) ==
  \E n \in DOMAIN audit :
    audit[n].id = c.id /\ CanSee(c.token, audit[n].from_agent, audit[n].to_agent)

(***************************************************************************)
(* A token that excludes client data changes only handoffs its own agent   *)
(* sent or received, although that is checked by an earlier statement than *)
(* the write.                                                              *)
(***************************************************************************)
WithinParty ==
  \A p \in Calls :
    LET c == calls[p]
    IN c.token \in Restricted /\ c.answer = "ok" =>
         /\ c.op # "create" /\ Exists(c.id) =>
              CanSee(c.token, handoffs[c.id].from_agent, handoffs[c.id].to_agent)
         /\ c.op = "delete" => BuriedWithinParty(c)

(***************************************************************************)
(* A reply never points at a handoff that is gone, whichever of the reply  *)
(* and the deletion of its parent comes first.                             *)
(***************************************************************************)
NoDanglingReply ==
  \A i \in DOMAIN handoffs : handoffs[i].in_reply_to # NULL => Exists(handoffs[i].in_reply_to)

(***************************************************************************)
(* Among open handoffs to one agent a dedupe key occurs once: a monitor    *)
(* that keeps firing while its handoff is pending or accepted never opens  *)
(* a second one.                                                           *)
(***************************************************************************)
OneOpenRowPerKey ==
  \A i, j \in DOMAIN handoffs :
    /\ i # j
    /\ handoffs[i].dedupe_key # NULL /\ handoffs[i].dedupe_key = handoffs[j].dedupe_key
    /\ handoffs[i].to_agent = handoffs[j].to_agent
    => ~(handoffs[i].status \in Open /\ handoffs[j].status \in Open)

-------------------------------------------------------------------------------
(* The bus implements the life cycle of HandoffLifecycle *)

LifeOf(i) ==
  IF Exists(i)
  THEN [phase |-> handoffs[i].status, holder |-> handoffs[i].accepted_by,
        work |-> handoffs[i].commit_hash, merge |-> handoffs[i].merge_commit]
  ELSE [phase |-> IF Tombstoned(i) THEN "deleted" ELSE "unfiled",
        holder |-> NULL, work |-> NULL, merge |-> NULL]

Lifecycle == INSTANCE HandoffLifecycle WITH life <- [i \in Ids |-> LifeOf(i)]

(***************************************************************************)
(* Seen from outside, every interleaving of the handlers' statements moves *)
(* each handoff through its life cycle one legal step at a time: nothing   *)
(* is claimed twice, reopened, merged without work, or lost without a      *)
(* tombstone.                                                              *)
(***************************************************************************)
Implements == Lifecycle!Spec

-------------------------------------------------------------------------------
(* Liveness *)

(***************************************************************************)
(* Every call that is not abandoned is answered in the end, whatever the   *)
(* other calls do meanwhile: losing a race costs one more read, not a      *)
(* retry.                                                                  *)
(***************************************************************************)
Answered == \A p \in Calls : calls[p].at \in InFlight ~> calls[p].at \notin InFlight

(***************************************************************************)
(* shared.rs says of embed_and_store that it "never blocks the caller": a  *)
(* created handoff is answered without waiting on the embedding endpoint.  *)
(***************************************************************************)
CreateNotBlocked == \A p \in Calls : At(p, "create", "embed") ~> calls[p].at # "embed"
===============================================================================
