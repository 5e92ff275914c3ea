--------------------------- MODULE HandoffBusProofs ---------------------------
(***************************************************************************)
(* Proofs about HandoffBus, for any number of agents, tokens, handoffs and *)
(* calls.  The order: what each statement does to a call record and to a   *)
(* row; that rows only ever evolve forward; the inductive invariant; the   *)
(* properties as its consequences.                                         *)
(***************************************************************************)
EXTENDS HandoffBusInv, TLAPS

-------------------------------------------------------------------------------
(* Call records *)

(***************************************************************************)
(* A call that has been asked for and has run no statement yet.            *)
(***************************************************************************)
Asked(c) ==
  /\ c \in WellFormed
  /\ c.op # NULL
  /\ c.at \in {"visible", "broadcast", "precheck", "write"}
  /\ c.at = "write" => c.op # "merge" /\ (c.op = "accept" => c.agent # NULL)
  /\ c.at # "visible" /\ c.op # "create" => c.token \notin Restricted
  /\ c.answer = NULL

LEMMA GateStage ==
  ASSUME NEW t, NEW op, NEW a
  PROVE  /\ Gate(t, FirstStage(op, a)) \in {"visible", "broadcast", "precheck", "write"}
         /\ Gate(t, FirstStage(op, a)) = "visible" <=> t \in Restricted
         /\ Gate(t, FirstStage(op, a)) = "broadcast" => op = "accept" /\ a = NULL
         /\ Gate(t, FirstStage(op, a)) = "precheck" => op = "merge"
         /\ Gate(t, FirstStage(op, a)) = "write" => op # "merge" /\ ~(op = "accept" /\ a = NULL)
BY DEF Gate, FirstStage

(***************************************************************************)
(* Asking starts a call on a known handoff, or reserves an unused id.      *)
(***************************************************************************)
Asks(p, new) ==
  /\ Asked(new) /\ Start(p, new) /\ UNCHANGED <<handoffs, audit>>
  /\ \/ new.op # "create" /\ new.id \in Known /\ UNCHANGED drawn
     \/ new.op = "create" /\ new.id \in Ids \ drawn /\ drawn' = drawn \cup {new.id}

LEMMA AskAsks ==
  ASSUME NEW p \in Calls, Ask(p)
  PROVE  \E new : Asks(p, new)
<1> USE BusAssumption
<1>1. CASE AskAccept(p)
  <2>1. PICK t \in Tokens, i \in Known : \E a \in Acceptors(t) :
          Start(p, [Idle EXCEPT !.op = "accept", !.token = t, !.id = i, !.agent = a, !.at = Gate(t, FirstStage("accept", a))])
    BY <1>1 DEF AskAccept
  <2>2. PICK a \in Acceptors(t) :
          Start(p, [Idle EXCEPT !.op = "accept", !.token = t, !.id = i, !.agent = a, !.at = Gate(t, FirstStage("accept", a))])
    BY <2>1
  <2> DEFINE new == [Idle EXCEPT !.op = "accept", !.token = t, !.id = i, !.agent = a, !.at = Gate(t, FirstStage("accept", a))]
  <2>3. i \in Ids /\ a \in Agents \cup {NULL}
    BY DEF Known, Acceptors
  <2>4. new \in Call
    BY <2>3, GateStage DEF Idle, Call, Operations, Stages
  <2>5. new.op = "accept" /\ new.token = t /\ new.id = i /\ new.agent = a /\ new.at = Gate(t, FirstStage("accept", a)) /\ new.answer = NULL
    BY DEF Idle
  <2>6. Start(p, new)
    BY <2>2
  <2> HIDE DEF new
  <2>7. Asked(new)
    BY <2>3, <2>4, <2>5, GateStage DEF Asked, WellFormed, Operations
  <2> QED BY <1>1, <2>3, <2>5, <2>6, <2>7 DEF AskAccept, Asks, table
<1>2. CASE AskComplete(p)
  <2>2. PICK t \in Tokens, i \in Known, c \in Commits \cup {Blank, NULL} :
          Start(p, [Idle EXCEPT !.op = "complete", !.token = t, !.id = i, !.commit = c, !.at = Gate(t, FirstStage("complete", NULL))])
    BY <1>2 DEF AskComplete
  <2> DEFINE new == [Idle EXCEPT !.op = "complete", !.token = t, !.id = i, !.commit = c, !.at = Gate(t, FirstStage("complete", NULL))]
  <2>3. i \in Ids
    BY DEF Known
  <2>4. new \in Call
    BY <2>3, GateStage DEF Idle, Call, Operations, Stages
  <2>5. new.op = "complete" /\ new.token = t /\ new.id = i /\ new.commit = c /\ new.at = Gate(t, FirstStage("complete", NULL)) /\ new.answer = NULL
    BY DEF Idle
  <2>6. Start(p, new)
    BY <2>2
  <2> HIDE DEF new
  <2>7. Asked(new)
    BY <2>3, <2>4, <2>5, GateStage DEF Asked, WellFormed, Operations
  <2> QED BY <1>2, <2>3, <2>5, <2>6, <2>7 DEF AskComplete, Asks, table
<1>3. CASE AskMerge(p)
  <2>2. PICK t \in Tokens, i \in Known, c \in Commits :
          Start(p, [Idle EXCEPT !.op = "merge", !.token = t, !.id = i, !.commit = c, !.at = Gate(t, FirstStage("merge", NULL))])
    BY <1>3 DEF AskMerge
  <2> DEFINE new == [Idle EXCEPT !.op = "merge", !.token = t, !.id = i, !.commit = c, !.at = Gate(t, FirstStage("merge", NULL))]
  <2>3. i \in Ids
    BY DEF Known
  <2>4. new \in Call
    BY <2>3, GateStage DEF Idle, Call, Operations, Stages
  <2>5. new.op = "merge" /\ new.token = t /\ new.id = i /\ new.commit = c /\ new.at = Gate(t, FirstStage("merge", NULL)) /\ new.answer = NULL
    BY DEF Idle
  <2>6. Start(p, new)
    BY <2>2
  <2> HIDE DEF new
  <2>7. Asked(new)
    BY <2>3, <2>4, <2>5, GateStage DEF Asked, WellFormed, Operations
  <2> QED BY <1>3, <2>3, <2>5, <2>6, <2>7 DEF AskMerge, Asks, table
<1>4. CASE AskDelete(p)
  <2>2. PICK t \in Tokens, i \in Known :
          Start(p, [Idle EXCEPT !.op = "delete", !.token = t, !.id = i, !.at = Gate(t, FirstStage("delete", NULL))])
    BY <1>4 DEF AskDelete
  <2> DEFINE new == [Idle EXCEPT !.op = "delete", !.token = t, !.id = i, !.at = Gate(t, FirstStage("delete", NULL))]
  <2>3. i \in Ids
    BY DEF Known
  <2>4. new \in Call
    BY <2>3, GateStage DEF Idle, Call, Operations, Stages
  <2>5. new.op = "delete" /\ new.token = t /\ new.id = i /\ new.at = Gate(t, FirstStage("delete", NULL)) /\ new.answer = NULL
    BY DEF Idle
  <2>6. Start(p, new)
    BY <2>2
  <2> HIDE DEF new
  <2>7. Asked(new)
    BY <2>3, <2>4, <2>5, GateStage DEF Asked, WellFormed, Operations, Answers
  <2> QED BY <1>4, <2>3, <2>5, <2>6, <2>7 DEF AskDelete, Asks, table
<1>5. CASE AskCreate(p)
  <2> DEFINE rec(t, i, to, parent, cat, a) ==
        [Idle EXCEPT !.op = "create", !.token = t, !.id = i, !.agent = a, !.to = to,
           !.parent = parent, !.category = cat,
           !.at = IF parent = NULL THEN "write" ELSE Gate(t, "write")]
  <2>1. PICK t \in Tokens, i \in Ids \ drawn, to \in Agents \cup {NULL},
             parent \in Known \cup {NULL}, cat \in Categories :
          \E a \in Senders(t) : Start(p, rec(t, i, to, parent, cat, a)) /\ drawn' = drawn \cup {i}
    BY <1>5 DEF AskCreate
  <2>2. PICK a \in Senders(t) : Start(p, rec(t, i, to, parent, cat, a)) /\ drawn' = drawn \cup {i}
    BY <2>1
  <2> DEFINE new == rec(t, i, to, parent, cat, a)
  <2>3. a \in Agents /\ parent \in Ids \cup {NULL} /\ cat \in Spellings
    BY BusAssumption DEF Known, Senders
  <2>4. new \in Call
    BY <2>3 DEF Idle, Call, Operations, Stages, Gate
  <2>5. /\ new.op = "create" /\ new.token = t /\ new.id = i /\ new.agent = a
        /\ new.category = cat /\ new.answer = NULL
        /\ new.at \in {"visible", "write"} /\ (new.at = "visible" => t \in Restricted)
    BY DEF Idle, Gate
  <2>6. Start(p, new)
    BY <2>2
  <2> HIDE DEF new
  <2>7. Asked(new)
    BY <2>3, <2>4, <2>5 DEF Asked, WellFormed, Operations, Answers
  <2> QED BY <1>5, <2>2, <2>5, <2>6, <2>7 DEF AskCreate, Asks
<1> QED BY <1>1, <1>2, <1>3, <1>4, <1>5 DEF Ask

(***************************************************************************)
(* A call in flight that goes on without changing what was asked.          *)
(***************************************************************************)
Advances(p) ==
  /\ calls' \in [Calls -> WellFormed]
  /\ \A q \in Calls \ {p} : calls'[q] = calls[q]
  /\ calls'[p].op = calls[p].op /\ calls'[p].token = calls[p].token
  /\ calls'[p].id = calls[p].id /\ calls'[p].agent = calls[p].agent
  /\ calls'[p].commit = calls[p].commit

LEMMA GotoAdvances ==
  ASSUME CallShape, NEW p \in Calls, calls[p].at \in InFlight,
         NEW stage \in {"broadcast", "precheck", "write", "reread", "embed"},
         Goto(p, stage),
         stage = "broadcast" => calls[p].op = "accept" /\ calls[p].agent = NULL,
         stage = "precheck" => calls[p].op = "merge",
         stage = "embed" => calls[p].op = "create",
         stage = "reread" => calls[p].op \in {"accept", "complete", "merge"}
  PROVE  Advances(p) /\ calls'[p].at = stage /\ calls'[p].answer = NULL
<1> DEFINE new == [calls[p] EXCEPT !.at = stage]
<1>1. calls[p] \in WellFormed /\ calls[p] \in Call
  BY DEF CallShape, WellFormed
<1>2. new \in Call
  BY <1>1 DEF Call, Stages
<1>3. /\ new.at = stage /\ new.op = calls[p].op /\ new.token = calls[p].token
      /\ new.id = calls[p].id /\ new.agent = calls[p].agent /\ new.commit = calls[p].commit
      /\ new.category = calls[p].category /\ new.answer = calls[p].answer
  BY <1>1 DEF Call
<1>4. calls' = [calls EXCEPT ![p] = new]
  BY DEF Goto, CallShape
<1> HIDE DEF new
<1>5. new \in WellFormed /\ new.answer = NULL
  BY <1>1, <1>2, <1>3 DEF WellFormed, InFlight, Stages
<1> QED BY <1>3, <1>4, <1>5 DEF Advances, CallShape

LEMMA AnswerAdvances ==
  ASSUME CallShape, NEW p \in Calls, calls[p].at \in InFlight,
         NEW answer \in Answers, NEW saw \in Statuses \cup {NULL},
         Answer(p, answer, saw),
         answer = "lost" => calls[p].op \in {"accept", "complete", "merge"}
  PROVE  /\ Advances(p)
         /\ calls'[p].at = "answered" /\ calls'[p].answer = answer /\ calls'[p].saw = saw
<1> DEFINE new == [calls[p] EXCEPT !.at = "answered", !.answer = answer, !.saw = saw]
<1>1. calls[p] \in WellFormed /\ calls[p] \in Call
  BY DEF CallShape, WellFormed
<1>2. new \in Call
  <2>1. "answered" \in Stages /\ answer \in Answers \cup {NULL}
    BY DEF Stages
  <2> QED BY <1>1, <2>1 DEF Call
<1>3. /\ new.at = "answered" /\ new.op = calls[p].op /\ new.token = calls[p].token
      /\ new.id = calls[p].id /\ new.agent = calls[p].agent /\ new.commit = calls[p].commit
      /\ new.category = calls[p].category /\ new.answer = answer /\ new.saw = saw
  BY <1>1 DEF Call
<1>4. calls' = [calls EXCEPT ![p] = new]
  BY DEF Answer, CallShape
<1> HIDE DEF new
<1>5. new \in WellFormed
  BY <1>1, <1>2, <1>3, BusAssumption DEF WellFormed, InFlight, Stages
<1> QED BY <1>3, <1>4, <1>5 DEF Advances, CallShape

(***************************************************************************)
(* The acknowledgement of a write that took effect.                        *)
(***************************************************************************)
LEMMA CommittedAdvances ==
  ASSUME CallShape, NEW p \in Calls, calls[p].at \in InFlight, Committed(p)
  PROVE  /\ Advances(p)
         /\ calls'[p].at = "answered" /\ calls'[p].answer \in {"ok", "db_error"}
BY AnswerAdvances, BusAssumption DEF Committed, Answers

-------------------------------------------------------------------------------
(* Rows *)

LEMMA RowsTyped ==
  ASSUME NEW row \in Row
  PROVE  /\ \A a \in Agents \cup {NULL} : AcceptedRow(row, a) \in Row
         /\ \A c \in Commits \cup {Blank, NULL} : CompletedRow(row, c) \in Row
         /\ \A c \in Commits : MergedRow(row, c) \in Row
         /\ row.repeat_count < MaxRepeat => RepeatedRow(row) \in Row
<1>2. ASSUME NEW a \in Agents \cup {NULL}
      PROVE  AcceptedRow(row, a) \in Row
  <2>1. Coalesce(a, row.to_agent) \in Agents \cup {NULL}
    BY DEF Row, Coalesce
  <2> QED BY <2>1 DEF Row, Statuses, AcceptedRow
<1>3. ASSUME NEW c \in Commits \cup {Blank, NULL}
      PROVE  CompletedRow(row, c) \in Row
  <2>1. Coalesce(c, row.commit_hash) \in Commits \cup {Blank, NULL}
    BY DEF Row, Coalesce
  <2> QED BY <2>1 DEF Row, Statuses, CompletedRow
<1>4. \A c \in Commits : MergedRow(row, c) \in Row
  BY DEF Row, Statuses, MergedRow
<1>5. ASSUME row.repeat_count < MaxRepeat
      PROVE  RepeatedRow(row) \in Row
  <2>1. row.repeat_count + 1 \in 0 .. MaxRepeat
    BY <1>5, BusAssumption DEF Row
  <2> QED BY <2>1 DEF Row, RepeatedRow
<1> QED BY <1>2, <1>3, <1>4, <1>5

LEMMA PendingRowTyped ==
  ASSUME NEW from \in Agents, NEW to \in Agents \cup {NULL}, NEW cat \in Spellings,
         NEW parent \in Ids \cup {NULL}, NEW key \in Keys \cup {NULL}
  PROVE  PendingRow(from, to, cat, parent, key) \in Row
BY BusAssumption DEF PendingRow, Row, Statuses

(***************************************************************************)
(* What the three kinds of write leave in the table.                       *)
(***************************************************************************)
Updated(i, row) ==
  /\ i \in DOMAIN handoffs /\ DOMAIN handoffs' = DOMAIN handoffs
  /\ handoffs' \in [DOMAIN handoffs' -> Row]
  /\ handoffs'[i] = row
  /\ \A j \in DOMAIN handoffs \ {i} : handoffs'[j] = handoffs[j]

LEMMA UpdateUpdates ==
  ASSUME TypeOK, NEW i \in DOMAIN handoffs, NEW row \in Row, Update(i, row)
  PROVE  Updated(i, row)
BY DEF TypeOK, Update, Updated

Inserted(i, row) ==
  /\ i \in Ids /\ i \notin DOMAIN handoffs
  /\ DOMAIN handoffs' = DOMAIN handoffs \cup {i}
  /\ handoffs' \in [DOMAIN handoffs' -> Row]
  /\ handoffs'[i] = row
  /\ \A j \in DOMAIN handoffs : handoffs'[j] = handoffs[j]

LEMMA InsertInserts ==
  ASSUME TypeOK, NEW i \in Ids, ~Exists(i), NEW row \in Row, Insert(i, row)
  PROVE  Inserted(i, row)
BY DEF TypeOK, Insert, Inserted, Exists

(***************************************************************************)
(* A reply to the removed handoff loses its reference, and nothing else.   *)
(***************************************************************************)
SameButParent(new, old) ==
  /\ new.from_agent = old.from_agent /\ new.to_agent = old.to_agent
  /\ new.status = old.status /\ new.accepted_by = old.accepted_by
  /\ new.commit_hash = old.commit_hash /\ new.merge_commit = old.merge_commit
  /\ new.dedupe_key = old.dedupe_key /\ new.category = old.category
  /\ new.repeat_count = old.repeat_count

Removed(i) ==
  /\ i \in DOMAIN handoffs /\ DOMAIN handoffs' = DOMAIN handoffs \ {i}
  /\ handoffs' \in [DOMAIN handoffs' -> Row]
  /\ \A j \in DOMAIN handoffs' :
       /\ SameButParent(handoffs'[j], handoffs[j])
       /\ handoffs'[j].in_reply_to = IF handoffs[j].in_reply_to = i
                                     THEN NULL ELSE handoffs[j].in_reply_to

LEMMA RemoveRemoves ==
  ASSUME TypeOK, NEW i \in DOMAIN handoffs, Remove(i)
  PROVE  Removed(i)
<1>1. DOMAIN handoffs' = DOMAIN handoffs \ {i}
  BY DEF Remove
<1>2. ASSUME NEW j \in DOMAIN handoffs'
      PROVE  /\ handoffs'[j] \in Row /\ SameButParent(handoffs'[j], handoffs[j])
             /\ handoffs'[j].in_reply_to = IF handoffs[j].in_reply_to = i
                                           THEN NULL ELSE handoffs[j].in_reply_to
  <2>1. handoffs[j] \in Row
    BY <1>1, <1>2 DEF TypeOK
  <2>2. handoffs'[j] = IF handoffs[j].in_reply_to = i
                       THEN [handoffs[j] EXCEPT !.in_reply_to = NULL] ELSE handoffs[j]
    BY <1>1, <1>2 DEF Remove
  <2> QED BY <2>1, <2>2 DEF Row, SameButParent
<1>3. handoffs' = [j \in DOMAIN handoffs' |-> handoffs'[j]]
  BY DEF Remove
<1> QED BY <1>1, <1>2, <1>3 DEF Removed

-------------------------------------------------------------------------------
(* What each statement does *)

(***************************************************************************)
(* The reads: the caller goes on, no row changes.                          *)
(***************************************************************************)
Reading(p) ==
  CheckVisible(p) \/ CheckBroadcast(p) \/ CheckMerge(p) \/ Reread(p)
    \/ Embedded(p) \/ DatabaseError(p)

LEMMA ReadingEffect ==
  ASSUME Shape, NEW p \in Calls, Reading(p)
  PROVE  /\ Advances(p) /\ UNCHANGED table
         /\ calls[p].at \in InFlight /\ calls'[p].at # "visible"
         /\ Inserting(p)' => Inserting(p)
<1> USE DEF InFlight, Stages, Answers, Statuses, Advances, Inserting
<1>0. /\ CallShape /\ calls[p] \in WellFormed /\ calls[p] \in Call
      /\ \A i \in DOMAIN handoffs : handoffs[i].status \in Statuses
  BY DEF Shape, TypeOK, CallShape, WellFormed, Row
<1>1. CASE CheckVisible(p)
  <2>1. calls[p].op # NULL /\ calls[p].at \in InFlight
    BY <1>0, <1>1 DEF WellFormed, CheckVisible
  <2>2. FirstStage(calls[p].op, calls[p].agent) \in {"broadcast", "precheck", "write"}
    BY DEF FirstStage
  <2>3. /\ FirstStage(calls[p].op, calls[p].agent) = "broadcast" =>
             calls[p].op = "accept" /\ calls[p].agent = NULL
        /\ FirstStage(calls[p].op, calls[p].agent) = "precheck" => calls[p].op = "merge"
    BY DEF FirstStage
  <2>4. CASE Goto(p, FirstStage(calls[p].op, calls[p].agent))
    BY <1>0, <1>1, <2>1, <2>2, <2>3, <2>4, GotoAdvances DEF CheckVisible
  <2>5. CASE Answer(p, "not_found", NULL)
    BY <1>0, <1>1, <2>1, <2>5, AnswerAdvances DEF CheckVisible
  <2> QED BY <1>1, <2>4, <2>5 DEF CheckVisible
<1>2. CASE CheckBroadcast(p)
  BY <1>0, <1>2, GotoAdvances, AnswerAdvances DEF CheckBroadcast, At
<1>3. CASE CheckMerge(p)
  <2>1. calls[p].op = "merge" /\ calls[p].at = "precheck" /\ UNCHANGED table
    BY <1>3 DEF CheckMerge, At
  <2>2. \/ Goto(p, "write")
        \/ \E answer \in {"not_found", "ok", "refused"}, saw \in Statuses \cup {NULL} :
             Answer(p, answer, saw)
    BY <1>0, <1>3 DEF CheckMerge, Exists
  <2> QED BY <1>0, <2>1, <2>2, GotoAdvances, AnswerAdvances
<1>4. CASE Reread(p)
  <2>1. /\ calls[p].at = "reread" /\ calls[p].op \in {"accept", "complete", "merge"}
        /\ UNCHANGED table
    BY <1>0, <1>4 DEF Reread, WellFormed
  <2>2. \E answer \in {"not_found", "ok", "lost"}, saw \in Statuses \cup {NULL} :
          Answer(p, answer, saw)
    BY <1>0, <1>4 DEF Reread, Exists
  <2> QED BY <1>0, <2>1, <2>2, AnswerAdvances
<1>5. CASE Embedded(p)
  BY <1>0, <1>5, AnswerAdvances DEF Embedded, At
<1>6. CASE DatabaseError(p)
  BY <1>0, <1>6, AnswerAdvances DEF DatabaseError
<1> QED BY <1>1, <1>2, <1>3, <1>4, <1>5, <1>6 DEF Reading

(***************************************************************************)
(* A claim, a completion and a merge either write one row and are          *)
(* acknowledged or change nothing and go on to the re-read.                *)
(***************************************************************************)
Writes(p, holds, row) ==
  /\ Advances(p) /\ UNCHANGED <<audit, drawn>> /\ calls[p].at = "write"
  /\ \/ /\ Exists(calls[p].id) /\ holds /\ Updated(calls[p].id, row)
        /\ calls'[p].at = "answered" /\ calls'[p].answer \in {"ok", "db_error"}
     \/ /\ Exists(calls[p].id) => ~holds
        /\ UNCHANGED handoffs
        /\ calls'[p].at = "reread" /\ calls'[p].answer = NULL

LEMMA AcceptEffect ==
  ASSUME Shape, NEW p \in Calls, Accept(p)
  PROVE  /\ calls[p].op = "accept"
         /\ Writes(p, Acceptable(handoffs[calls[p].id]),
                   AcceptedRow(handoffs[calls[p].id], calls[p].agent))
<1>1. /\ CallShape /\ TypeOK /\ calls[p].op = "accept" /\ calls[p].at = "write"
      /\ calls[p].at \in InFlight /\ calls[p].agent \in Agents \cup {NULL}
  BY DEF Shape, CallShape, WellFormed, Call, Accept, At, InFlight, Stages
<1>2. CASE Exists(calls[p].id) /\ Acceptable(handoffs[calls[p].id])
  <2>1. calls[p].id \in DOMAIN handoffs /\ handoffs[calls[p].id] \in Row
    BY <1>1, <1>2 DEF Exists, TypeOK
  <2>2. AcceptedRow(handoffs[calls[p].id], calls[p].agent) \in Row
    BY <1>1, <2>1, RowsTyped
  <2> QED BY <1>1, <1>2, <2>1, <2>2, UpdateUpdates, CommittedAdvances DEF Accept, Writes
<1>3. CASE ~(Exists(calls[p].id) /\ Acceptable(handoffs[calls[p].id]))
  BY <1>1, <1>3, GotoAdvances DEF Accept, Writes
<1> QED BY <1>2, <1>3

LEMMA CompleteEffect ==
  ASSUME Shape, NEW p \in Calls, Complete(p)
  PROVE  /\ calls[p].op = "complete"
         /\ Writes(p, Completable(handoffs[calls[p].id]),
                   CompletedRow(handoffs[calls[p].id], calls[p].commit))
<1>1. /\ CallShape /\ TypeOK /\ calls[p].op = "complete" /\ calls[p].at = "write"
      /\ calls[p].at \in InFlight /\ calls[p].commit \in Commits \cup {Blank, NULL}
  BY DEF Shape, CallShape, WellFormed, Call, Complete, At, InFlight, Stages
<1>2. CASE Exists(calls[p].id) /\ Completable(handoffs[calls[p].id])
  <2>1. calls[p].id \in DOMAIN handoffs /\ handoffs[calls[p].id] \in Row
    BY <1>1, <1>2 DEF Exists, TypeOK
  <2>2. CompletedRow(handoffs[calls[p].id], calls[p].commit) \in Row
    BY <1>1, <2>1, RowsTyped
  <2> QED BY <1>1, <1>2, <2>1, <2>2, UpdateUpdates, CommittedAdvances DEF Complete, Writes
<1>3. CASE ~(Exists(calls[p].id) /\ Completable(handoffs[calls[p].id]))
  BY <1>1, <1>3, GotoAdvances DEF Complete, Writes
<1> QED BY <1>2, <1>3

LEMMA MergeEffect ==
  ASSUME Shape, NEW p \in Calls, Merge(p)
  PROVE  /\ calls[p].op = "merge"
         /\ Writes(p, Mergeable(handoffs[calls[p].id]),
                   MergedRow(handoffs[calls[p].id], calls[p].commit))
<1>1. /\ CallShape /\ TypeOK /\ calls[p].op = "merge" /\ calls[p].at = "write"
      /\ calls[p].at \in InFlight /\ calls[p].commit \in Commits
  BY DEF Shape, CallShape, WellFormed, Call, Merge, At, InFlight, Stages
<1>2. CASE Exists(calls[p].id) /\ Mergeable(handoffs[calls[p].id])
  <2>1. calls[p].id \in DOMAIN handoffs /\ handoffs[calls[p].id] \in Row
    BY <1>1, <1>2 DEF Exists, TypeOK
  <2>2. MergedRow(handoffs[calls[p].id], calls[p].commit) \in Row
    BY <1>1, <2>1, RowsTyped
  <2> QED BY <1>1, <1>2, <2>1, <2>2, UpdateUpdates, CommittedAdvances DEF Merge, Writes
<1>3. CASE ~(Exists(calls[p].id) /\ Mergeable(handoffs[calls[p].id]))
  BY <1>1, <1>3, GotoAdvances DEF Merge, Writes
<1> QED BY <1>2, <1>3

LEMMA DeleteEffect ==
  ASSUME Shape, NEW p \in Calls, Delete(p)
  PROVE  /\ calls[p].op = "delete" /\ calls[p].at = "write" /\ Advances(p)
         /\ UNCHANGED drawn /\ calls'[p].at = "answered"
         /\ \/ /\ Removed(calls[p].id) /\ Bury(calls[p].id)
               /\ calls'[p].answer \in {"ok", "db_error"}
            \/ /\ UNCHANGED <<handoffs, audit>> /\ calls'[p].answer = "not_found"
<1>1. /\ CallShape /\ TypeOK /\ calls[p].op = "delete" /\ calls[p].at = "write"
      /\ calls[p].at \in InFlight
  BY DEF Shape, Delete, At, InFlight, Stages
<1>2. CASE Exists(calls[p].id)
  BY <1>1, <1>2, RemoveRemoves, CommittedAdvances DEF Delete, Exists
<1>3. CASE ~Exists(calls[p].id)
  BY <1>1, <1>3, AnswerAdvances DEF Delete, Answers
<1> QED BY <1>2, <1>3

(***************************************************************************)
(* A create inserts one row or fails; the answer is still to come.         *)
(***************************************************************************)
NewRow(c) == PendingRow(c.agent, c.to, c.category, c.parent, NULL)

LEMMA CreateEffect ==
  ASSUME Shape, NEW p \in Calls, Create(p)
  PROVE  /\ calls[p].op = "create" /\ calls[p].at = "write" /\ Advances(p)
         /\ UNCHANGED <<audit, drawn>> /\ calls'[p].at \in {"embed", "answered"}
         /\ calls'[p].answer \in {NULL, "db_error"}
         /\ \/ /\ ParentHolds(calls[p].parent) /\ Inserted(calls[p].id, NewRow(calls[p]))
            \/ UNCHANGED handoffs
<1>1. /\ CallShape /\ TypeOK /\ calls[p].op = "create" /\ calls[p].at = "write"
      /\ calls[p].at \in InFlight /\ calls[p].op # NULL /\ calls[p] \in WellFormed
  BY BusAssumption DEF Shape, CallShape, Create, At, InFlight, Stages, Operations
<1>2. /\ calls[p].id \in Ids /\ ~Exists(calls[p].id)
  BY <1>1 DEF Shape, Reserved, Inserting, WellFormed
<1>3. NewRow(calls[p]) \in Row
  BY <1>1, PendingRowTyped DEF NewRow, WellFormed, Call
<1>4. CASE ParentHolds(calls[p].parent)
  <2>1. Inserted(calls[p].id, NewRow(calls[p]))
    BY <1>1, <1>2, <1>3, <1>4, InsertInserts DEF Create, NewRow
  <2>2. /\ Advances(p) /\ calls'[p].at \in {"embed", "answered"}
        /\ calls'[p].answer \in {NULL, "db_error"}
    BY <1>1, <1>4, GotoAdvances, AnswerAdvances DEF Create, Answers
  <2> QED BY <1>1, <1>4, <2>1, <2>2 DEF Create
<1>5. CASE ~ParentHolds(calls[p].parent)
  BY <1>1, <1>5, AnswerAdvances DEF Create, Answers
<1> QED BY <1>4, <1>5

LEMMA IngestEffect ==
  ASSUME Shape, Ingest
  PROVE  /\ UNCHANGED <<audit, calls>>
         /\ \/ /\ UNCHANGED drawn
               /\ \E i \in DOMAIN handoffs : Updated(i, RepeatedRow(handoffs[i]))
            \/ \E i \in Ids \ drawn, from, to \in Agents, cat \in Spellings, key \in Keys \cup {NULL} :
                 /\ drawn' = drawn \cup {i}
                 /\ Inserted(i, PendingRow(from, to, cat, NULL, key))
                 /\ \A j \in DOMAIN handoffs : ~Suppresses(handoffs[j], to, key)
<1>1. TypeOK /\ DOMAIN handoffs \subseteq drawn
  BY DEF Shape, IdsDrawn
<1>2. PICK from \in Agents, to \in Agents, cat \in Spellings, key \in Keys \cup {NULL} :
        FileMachine(from, to, cat, key)
  <2>1. PICK from \in Agents, to \in Agents, cat \in FilingCategories, key \in Keys \cup {NULL} :
          FileMachine(from, to, Lower(cat), key)
    BY DEF Ingest
  <2>2. Lower(cat) \in Spellings
    BY DEF Lower, Spellings
  <2> QED BY <2>1, <2>2
<1> DEFINE same == {i \in DOMAIN handoffs : Suppresses(handoffs[i], to, key)}
<1>3. CASE same # {}
  <2>1. PICK i \in same : /\ handoffs[i].repeat_count < MaxRepeat
                          /\ Update(i, RepeatedRow(handoffs[i])) /\ UNCHANGED drawn
    BY <1>2, <1>3 DEF FileMachine, RepeatFits
  <2>2. i \in DOMAIN handoffs /\ handoffs[i] \in Row
    BY <1>1 DEF TypeOK
  <2>3. RepeatedRow(handoffs[i]) \in Row
    BY <2>1, <2>2, RowsTyped
  <2> HIDE DEF same
  <2>4. Updated(i, RepeatedRow(handoffs[i]))
    BY <1>1, <2>1, <2>2, <2>3, UpdateUpdates
  <2> QED BY <1>2, <2>1, <2>2, <2>4 DEF FileMachine
<1>4. CASE same = {}
  <2>1. PICK i \in Ids \ drawn : /\ Insert(i, PendingRow(from, to, cat, NULL, key))
                                 /\ drawn' = drawn \cup {i}
    BY <1>2, <1>4 DEF FileMachine
  <2>2. PendingRow(from, to, cat, NULL, key) \in Row
    BY PendingRowTyped
  <2>3. Inserted(i, PendingRow(from, to, cat, NULL, key))
    BY <1>1, <2>1, <2>2, InsertInserts DEF Exists
  <2> QED BY <1>2, <1>4, <2>1, <2>3 DEF FileMachine
<1> QED BY <1>3, <1>4

-------------------------------------------------------------------------------
(* The shape of the state is inductive *)

(***************************************************************************)
(* Whatever a step does to the tables, the four variables keep their types *)
(* and the ids stay drawn and reserved if it gets these facts right.       *)
(***************************************************************************)
LEMMA ShapeFrom ==
  ASSUME Shape,
         calls' \in [Calls -> WellFormed],
         DOMAIN handoffs' \subseteq drawn', handoffs' \in [DOMAIN handoffs' -> Row],
         audit' \in Seq(Tombstone), \A n \in DOMAIN audit' : audit'[n].id \in drawn',
         drawn \subseteq drawn', drawn' \subseteq Ids,
         \A q \in Calls : calls'[q].op # NULL => calls'[q].id \in drawn',
         Reserved'
  PROVE  Shape'
<1>1. CallShape'
  BY DEF CallShape
<1>2. WellFormed \subseteq Call
  BY DEF WellFormed
<1>3. TypeOK'
  BY <1>1, <1>2 DEF TypeOK, CallShape
<1>4. IdsDrawn'
  BY DEF IdsDrawn
<1> QED BY <1>1, <1>3, <1>4 DEF Shape

LEMMA ShapeFacts ==
  ASSUME Shape
  PROVE  /\ TypeOK /\ CallShape
         /\ DOMAIN handoffs \subseteq drawn /\ handoffs \in [DOMAIN handoffs -> Row]
         /\ audit \in Seq(Tombstone) /\ \A n \in DOMAIN audit : audit[n].id \in drawn
         /\ drawn \subseteq Ids
         /\ \A q \in Calls : calls[q].op # NULL => calls[q].id \in drawn
         /\ \A i \in Known : i \in drawn
BY DEF Shape, TypeOK, IdsDrawn, Known, Exists, Tombstoned

LEMMA ShapeAsk ==
  ASSUME Shape, NEW p \in Calls, NEW new, Asks(p, new)
  PROVE  Shape'
<1>1. /\ new \in WellFormed /\ new.op # NULL /\ new.id \in Ids /\ UNCHANGED <<handoffs, audit>>
      /\ calls' = [calls EXCEPT ![p] = new] /\ CallShape
  BY ShapeFacts, BusAssumption DEF Asks, Asked, Start, WellFormed
<1>2. /\ calls' \in [Calls -> WellFormed] /\ calls'[p] = new
      /\ \A q \in Calls \ {p} : calls'[q] = calls[q]
  BY <1>1 DEF CallShape
<1>3. drawn \subseteq drawn' /\ drawn' \subseteq Ids /\ new.id \in drawn'
  BY ShapeFacts DEF Asks
<1>4. ASSUME NEW r \in Calls, Inserting(r)'
      PROVE  /\ ~Exists(calls[r].id)' /\ ~Tombstoned(calls[r].id)'
             /\ \A q \in Calls \ {r} : calls'[q].id # calls'[r].id
  <2>1. CASE r = p
    <3>1. new.op = "create" /\ new.id \notin drawn
      BY <1>2, <1>4, <2>1 DEF Inserting, Asks
    <3>2. \A q \in Calls : calls[q].id # new.id
      BY <1>1, <3>1, ShapeFacts, BusAssumption DEF CallShape, WellFormed
    <3> QED BY <1>1, <1>2, <2>1, <3>1, <3>2, ShapeFacts DEF Exists, Tombstoned
  <2>2. CASE r # p
    <3>1. Inserting(r) /\ calls[r].op # NULL
      BY <1>2, <1>4, <2>2, BusAssumption DEF Inserting, Operations
    <3>2. /\ ~Exists(calls[r].id) /\ ~Tombstoned(calls[r].id) /\ calls[r].id \in drawn
          /\ \A q \in Calls \ {r} : calls[q].id # calls[r].id
      BY <3>1, ShapeFacts DEF Shape, Reserved
    <3>3. new.id # calls[r].id
      BY <3>2 DEF Asks, Known
    <3> QED BY <1>1, <1>2, <2>2, <3>2, <3>3 DEF Exists, Tombstoned
  <2> QED BY <2>1, <2>2
<1>5. Reserved'
  BY <1>4 DEF Reserved, Inserting
<1>6. \A q \in Calls : calls'[q].op # NULL => calls'[q].id \in drawn'
  BY <1>2, <1>3, ShapeFacts
<1> QED BY <1>1, <1>2, <1>3, <1>5, <1>6, ShapeFacts, ShapeFrom

(***************************************************************************)
(* A call that advances never starts to insert, so the ids that were       *)
(* reserved stay so while the table gains no row but its own.              *)
(***************************************************************************)
LEMMA ReservedAdvance ==
  ASSUME Shape, NEW p \in Calls, Advances(p), Inserting(p)' => Inserting(p),
         \A i \in DOMAIN handoffs' \ DOMAIN handoffs : i = calls[p].id /\ ~Inserting(p)',
         \A i \in Ids : Tombstoned(i)' => Tombstoned(i) \/ Exists(i)
  PROVE  /\ Reserved'
         /\ \A q \in Calls : calls'[q].op # NULL => calls'[q].id \in drawn
<1>1. \A q \in Calls : calls'[q].op = calls[q].op /\ calls'[q].id = calls[q].id
  BY DEF Advances
<1>2. ASSUME NEW r \in Calls, Inserting(r)'
      PROVE  /\ ~Exists(calls[r].id)' /\ ~Tombstoned(calls[r].id)'
             /\ \A q \in Calls \ {r} : calls'[q].id # calls'[r].id
  <2>1. Inserting(r) /\ calls[r].op # NULL
    BY <1>2, BusAssumption DEF Advances, Inserting, Operations
  <2>2. /\ ~Exists(calls[r].id) /\ ~Tombstoned(calls[r].id) /\ calls[r].id \in Ids
        /\ \A q \in Calls \ {r} : calls[q].id # calls[r].id
    BY <2>1, ShapeFacts DEF Shape, Reserved
  <2>3. calls[r].id \notin DOMAIN handoffs'
    BY <1>2, <2>2 DEF Exists
  <2> QED BY <1>1, <2>2, <2>3 DEF Exists
<1>3. Reserved'
  BY <1>2 DEF Reserved, Inserting
<1> QED BY <1>1, <1>3, ShapeFacts

LEMMA ShapeReading ==
  ASSUME Shape, NEW p \in Calls, Reading(p)
  PROVE  Shape'
<1>1. Advances(p) /\ UNCHANGED <<handoffs, audit, drawn>> /\ (Inserting(p)' => Inserting(p))
  BY ReadingEffect DEF table
<1>2. Reserved' /\ \A q \in Calls : calls'[q].op # NULL => calls'[q].id \in drawn
  BY <1>1, ReservedAdvance DEF Tombstoned
<1>3. calls' \in [Calls -> WellFormed]
  BY <1>1 DEF Advances
<1> QED BY <1>1, <1>2, <1>3, ShapeFacts, ShapeFrom

LEMMA ShapeWrites ==
  ASSUME Shape, NEW p \in Calls, calls[p].op # "create", NEW holds, NEW row,
         Writes(p, holds, row)
  PROVE  Shape'
<1>1. /\ Advances(p) /\ UNCHANGED <<audit, drawn>>
      /\ DOMAIN handoffs' = DOMAIN handoffs /\ handoffs' \in [DOMAIN handoffs' -> Row]
  BY ShapeFacts DEF Writes, Updated
<1>2. ~Inserting(p)'
  BY <1>1 DEF Advances, Inserting
<1>3. Reserved' /\ \A q \in Calls : calls'[q].op # NULL => calls'[q].id \in drawn
  BY <1>1, <1>2, ReservedAdvance DEF Tombstoned
<1>4. calls' \in [Calls -> WellFormed]
  BY <1>1 DEF Advances
<1> QED BY <1>1, <1>3, <1>4, ShapeFacts, ShapeFrom

LEMMA BuryAppends ==
  ASSUME TypeOK, NEW i \in DOMAIN handoffs, Bury(i)
  PROVE  /\ audit' \in Seq(Tombstone) /\ DOMAIN audit' = DOMAIN audit \cup {Len(audit) + 1}
         /\ Len(audit) + 1 \notin DOMAIN audit
         /\ audit'[Len(audit) + 1] = TombstoneOf(i)
         /\ \A n \in DOMAIN audit : audit'[n] = audit[n]
<1>1. handoffs[i] \in Row /\ i \in Ids /\ audit \in Seq(Tombstone)
  BY DEF TypeOK
<1>2. TombstoneOf(i) \in Tombstone
  BY <1>1 DEF TombstoneOf, Tombstone, Row
<1> HIDE DEF TombstoneOf
<1> QED BY <1>1, <1>2 DEF Bury

LEMMA ShapeDelete ==
  ASSUME Shape, NEW p \in Calls, Delete(p)
  PROVE  Shape'
<1>1. /\ calls[p].op = "delete" /\ Advances(p) /\ UNCHANGED drawn
      /\ \/ Removed(calls[p].id) /\ Bury(calls[p].id)
         \/ UNCHANGED <<handoffs, audit>>
  BY DeleteEffect
<1>2. calls' \in [Calls -> WellFormed] /\ ~Inserting(p)'
  BY <1>1 DEF Advances, Inserting
<1>3. CASE Removed(calls[p].id) /\ Bury(calls[p].id)
  <2>1. /\ calls[p].id \in DOMAIN handoffs /\ DOMAIN handoffs' \subseteq DOMAIN handoffs
        /\ handoffs' \in [DOMAIN handoffs' -> Row]
    BY <1>3 DEF Removed
  <2>2. /\ audit' \in Seq(Tombstone)
        /\ \A n \in DOMAIN audit' : \/ n \in DOMAIN audit /\ audit'[n] = audit[n]
                                    \/ audit'[n].id = calls[p].id
    <3>1. TombstoneOf(calls[p].id).id = calls[p].id
      BY DEF TombstoneOf
    <3> QED BY <1>3, <2>1, <3>1, BuryAppends, ShapeFacts
  <2>3. Reserved' /\ \A q \in Calls : calls'[q].op # NULL => calls'[q].id \in drawn
    BY <1>1, <1>2, <2>1, <2>2, ReservedAdvance DEF Tombstoned, Exists
  <2> QED BY <1>1, <1>2, <2>1, <2>2, <2>3, ShapeFacts, ShapeFrom
<1>4. CASE UNCHANGED <<handoffs, audit>>
  <2>1. Reserved' /\ \A q \in Calls : calls'[q].op # NULL => calls'[q].id \in drawn
    BY <1>1, <1>2, <1>4, ReservedAdvance DEF Tombstoned
  <2> QED BY <1>1, <1>2, <1>4, <2>1, ShapeFacts, ShapeFrom
<1> QED BY <1>1, <1>3, <1>4

LEMMA ShapeCreate ==
  ASSUME Shape, NEW p \in Calls, Create(p)
  PROVE  Shape'
<1>1. /\ calls[p].op = "create" /\ Advances(p) /\ UNCHANGED <<audit, drawn>>
      /\ calls'[p].at \in {"embed", "answered"}
      /\ Inserted(calls[p].id, NewRow(calls[p])) \/ UNCHANGED handoffs
  BY CreateEffect
<1>2. calls' \in [Calls -> WellFormed] /\ ~Inserting(p)' /\ calls[p].op # NULL
  BY <1>1, BusAssumption DEF Advances, Inserting, Operations
<1>3. /\ DOMAIN handoffs' \subseteq DOMAIN handoffs \cup {calls[p].id}
      /\ handoffs' \in [DOMAIN handoffs' -> Row]
  BY <1>1, ShapeFacts DEF Inserted
<1>4. Reserved' /\ \A q \in Calls : calls'[q].op # NULL => calls'[q].id \in drawn
  BY <1>1, <1>2, <1>3, ReservedAdvance DEF Tombstoned
<1> QED BY <1>1, <1>2, <1>3, <1>4, ShapeFacts, ShapeFrom

LEMMA ShapeAbandon ==
  ASSUME Shape, NEW p \in Calls, Abandon(p)
  PROVE  Shape'
<1> USE BusAssumption
<1>1. CallShape /\ calls' = [calls EXCEPT ![p] = Idle] /\ UNCHANGED <<handoffs, audit, drawn>>
  BY DEF Shape, Abandon, table
<1>2. Idle \in WellFormed /\ Idle.op = NULL /\ Idle.id = NULL
  BY DEF WellFormed, Call, Idle, Stages, Operations, Answers
<1> HIDE DEF Idle
<1>3. /\ calls' \in [Calls -> WellFormed] /\ calls'[p] = Idle
      /\ \A q \in Calls \ {p} : calls'[q] = calls[q]
  BY <1>1, <1>2 DEF CallShape
<1>4. ASSUME NEW r \in Calls, Inserting(r)'
      PROVE  /\ ~Exists(calls[r].id)' /\ ~Tombstoned(calls[r].id)'
             /\ \A q \in Calls \ {r} : calls'[q].id # calls'[r].id
  <2>1. r # p /\ Inserting(r) /\ calls[r].op # NULL
    BY <1>2, <1>3, <1>4 DEF Inserting, Operations
  <2>2. /\ ~Exists(calls[r].id) /\ ~Tombstoned(calls[r].id) /\ calls[r].id \in Ids
        /\ \A q \in Calls \ {r} : calls[q].id # calls[r].id
    BY <2>1, ShapeFacts DEF Shape, Reserved
  <2> QED BY <1>1, <1>2, <1>3, <2>1, <2>2 DEF Exists, Tombstoned
<1>5. Reserved'
  BY <1>4 DEF Reserved, Inserting
<1>6. \A q \in Calls : calls'[q].op # NULL => calls'[q].id \in drawn
  BY <1>2, <1>3, ShapeFacts
<1> QED BY <1>1, <1>3, <1>5, <1>6, ShapeFacts, ShapeFrom

LEMMA ShapeIngest ==
  ASSUME Shape, Ingest
  PROVE  Shape'
<1>1. UNCHANGED <<audit, calls>> /\ CallShape
  BY IngestEffect DEF Shape
<1>2. /\ drawn \subseteq drawn' /\ drawn' \subseteq Ids
      /\ handoffs' \in [DOMAIN handoffs' -> Row] /\ DOMAIN handoffs' \subseteq drawn'
      /\ \A i \in DOMAIN handoffs' : i \in DOMAIN handoffs \/ i \notin drawn
  <2>1. CASE \E i \in DOMAIN handoffs : UNCHANGED drawn /\ Updated(i, RepeatedRow(handoffs[i]))
    BY <2>1, ShapeFacts DEF Updated
  <2>2. ASSUME NEW i \in Ids \ drawn, NEW row, drawn' = drawn \cup {i}, Inserted(i, row)
        PROVE  /\ drawn \subseteq drawn' /\ drawn' \subseteq Ids
               /\ handoffs' \in [DOMAIN handoffs' -> Row] /\ DOMAIN handoffs' \subseteq drawn'
               /\ \A j \in DOMAIN handoffs' : j \in DOMAIN handoffs \/ j \notin drawn
    BY <2>2, ShapeFacts DEF Inserted
  <2> QED BY <2>1, <2>2, IngestEffect
<1>3. Reserved'
  BY <1>1, <1>2, ShapeFacts, BusAssumption
     DEF Shape, Reserved, Inserting, Exists, Tombstoned, Operations
<1>4. calls' \in [Calls -> WellFormed]
  BY <1>1 DEF CallShape
<1> QED BY <1>1, <1>2, <1>3, <1>4, ShapeFacts, ShapeFrom

(***************************************************************************)
(* Every step is one of these.                                             *)
(***************************************************************************)
LEMMA Steps ==
  ASSUME Next
  PROVE  \/ Ingest
         \/ \E p \in Calls :
              \/ \E new : Asks(p, new)
              \/ Reading(p) \/ Accept(p) \/ Complete(p) \/ Merge(p)
              \/ Delete(p) \/ Create(p) \/ Abandon(p)
BY AskAsks DEF Next, Statement, Reading

LEMMA ShapeStep ==
  ASSUME Shape, [Next]_vars
  PROVE  Shape'
<1>1. CASE Ingest
  BY <1>1, ShapeIngest
<1>2. ASSUME NEW p \in Calls, NEW new, Asks(p, new)
      PROVE  Shape'
  BY <1>2, ShapeAsk
<1>3. ASSUME NEW p \in Calls,
             \/ Reading(p) \/ Accept(p) \/ Complete(p) \/ Merge(p)
             \/ Delete(p) \/ Create(p) \/ Abandon(p)
      PROVE  Shape'
  <2>1. CASE Accept(p)
    <3>1. calls[p].op # "create"
      BY <2>1, AcceptEffect
    <3> QED BY <2>1, <3>1, AcceptEffect, ShapeWrites
  <2>2. CASE Complete(p)
    <3>1. calls[p].op # "create"
      BY <2>2, CompleteEffect
    <3> QED BY <2>2, <3>1, CompleteEffect, ShapeWrites
  <2>3. CASE Merge(p)
    <3>1. calls[p].op # "create"
      BY <2>3, MergeEffect
    <3> QED BY <2>3, <3>1, MergeEffect, ShapeWrites
  <2> QED BY <1>3, <2>1, <2>2, <2>3, ShapeReading, ShapeDelete, ShapeCreate, ShapeAbandon
<1>4. CASE UNCHANGED vars
  BY <1>4 DEF vars, Shape, TypeOK, CallShape, IdsDrawn, Reserved, Inserting, Exists, Tombstoned
<1> QED BY <1>1, <1>2, <1>3, <1>4, Steps

LEMMA ShapeInit ==
  ASSUME Init
  PROVE  Shape
<1> USE BusAssumption
<1>1. Idle \in WellFormed /\ Idle \in Call /\ Idle.op = NULL
  BY DEF WellFormed, Call, Idle, Stages, Operations, Answers
<1> HIDE DEF Idle
<1>2. TypeOK /\ CallShape
  BY <1>1 DEF Init, TypeOK, CallShape
<1>3. IdsDrawn /\ Reserved
  BY <1>1 DEF Init, IdsDrawn, Reserved, Inserting, Operations
<1> QED BY <1>2, <1>3 DEF Shape

(***************************************************************************)
(* The four variables keep their types: rows, tombstones and call records  *)
(* stay well formed under every interleaving, the repeat count of a machine*)
(* handoff within its column.                                              *)
(***************************************************************************)
THEOREM TypeCorrect == Spec => []TypeOK
<1>1. Init => Shape
  BY ShapeInit
<1>2. Shape /\ [Next]_vars => Shape'
  BY ShapeStep
<1>3. Shape => TypeOK
  BY DEF Shape
<1> QED BY <1>1, <1>2, <1>3, PTL DEF Spec

-------------------------------------------------------------------------------
(* Rows only move forward *)

(***************************************************************************)
(* What any step may make of a row: its parties and its category never     *)
(* change, a claim keeps its holder, finished work its commit, merged work *)
(* its merge.                                                              *)
(***************************************************************************)
Evolves(new, old) ==
  /\ new.from_agent = old.from_agent /\ new.to_agent = old.to_agent
  /\ new.category = old.category
  /\ old.status # "pending" => new.status # "pending" /\ new.accepted_by = old.accepted_by
  /\ old.status \in {"completed", "merged"} =>
       new.status \in {"completed", "merged"} /\ new.commit_hash = old.commit_hash
  /\ old.status = "merged" => new.status = "merged" /\ new.merge_commit = old.merge_commit

LEMMA WrittenRowsEvolve ==
  ASSUME NEW row \in Row
  PROVE  /\ Evolves(row, row)
         /\ \A a : Acceptable(row) => Evolves(AcceptedRow(row, a), row)
         /\ \A c : Completable(row) => Evolves(CompletedRow(row, c), row)
         /\ \A c : Mergeable(row) => Evolves(MergedRow(row, c), row)
         /\ Evolves(RepeatedRow(row), row)
<1>1. ASSUME NEW a, Acceptable(row)
      PROVE  Evolves(AcceptedRow(row, a), row)
  BY <1>1 DEF Row, Acceptable, AcceptedRow, Evolves
<1>2. ASSUME NEW c, Completable(row)
      PROVE  Evolves(CompletedRow(row, c), row)
  BY <1>2 DEF Row, Completable, Open, CompletedRow, Evolves
<1>3. ASSUME NEW c, Mergeable(row)
      PROVE  Evolves(MergedRow(row, c), row)
  BY <1>3 DEF Row, Mergeable, MergedRow, Evolves
<1>4. Evolves(RepeatedRow(row), row) /\ Evolves(row, row)
  BY DEF Row, RepeatedRow, Evolves
<1> QED BY <1>1, <1>2, <1>3, <1>4

(***************************************************************************)
(* One step: the rows it keeps evolve, and a row it adds has an id that    *)
(* was not drawn before or was reserved by the call that inserts it.       *)
(***************************************************************************)
Onward ==
  /\ \A i \in DOMAIN handoffs' \cap DOMAIN handoffs : Evolves(handoffs'[i], handoffs[i])
  /\ \A i \in DOMAIN handoffs' \ DOMAIN handoffs :
       i \notin drawn \/ \E p \in Calls : Inserting(p) /\ calls[p].id = i
  /\ \A n \in DOMAIN audit : n \in DOMAIN audit' /\ audit'[n] = audit[n]

LEMMA UpdatedOnward ==
  ASSUME Shape, NEW i, NEW row, Updated(i, row), Evolves(row, handoffs[i]), UNCHANGED audit
  PROVE  Onward
BY ShapeFacts, WrittenRowsEvolve DEF Updated, Onward

LEMMA StillOnward ==
  ASSUME Shape, UNCHANGED <<handoffs, audit>>
  PROVE  Onward
BY ShapeFacts, WrittenRowsEvolve DEF Onward

LEMMA InsertedOnward ==
  ASSUME Shape, NEW i, NEW row, Inserted(i, row), UNCHANGED audit,
         i \notin drawn \/ \E p \in Calls : Inserting(p) /\ calls[p].id = i
  PROVE  Onward
BY ShapeFacts, WrittenRowsEvolve DEF Inserted, Onward

LEMMA WritesOnward ==
  ASSUME Shape, NEW p \in Calls, NEW holds, NEW row, Writes(p, holds, row),
         calls[p].id \in DOMAIN handoffs /\ holds => Evolves(row, handoffs[calls[p].id])
  PROVE  Onward
BY StillOnward, UpdatedOnward DEF Writes, Exists

LEMMA StepOnward ==
  ASSUME Shape, Next
  PROVE  Onward
<1>1. CASE Ingest
  <2>1. CASE \E i \in DOMAIN handoffs : Updated(i, RepeatedRow(handoffs[i]))
    <3>1. PICK i \in DOMAIN handoffs : Updated(i, RepeatedRow(handoffs[i]))
      BY <2>1
    <3>2. Evolves(RepeatedRow(handoffs[i]), handoffs[i])
      BY ShapeFacts, WrittenRowsEvolve
    <3> QED BY <1>1, <3>1, <3>2, IngestEffect, UpdatedOnward
  <2>2. CASE \E i \in Ids \ drawn : \E row : Inserted(i, row)
    BY <1>1, <2>2, IngestEffect, InsertedOnward
  <2> QED BY <1>1, <2>1, <2>2, IngestEffect
<1>2. ASSUME NEW p \in Calls, (\E new : Asks(p, new)) \/ Reading(p) \/ Abandon(p)
      PROVE  Onward
  BY <1>2, ReadingEffect, StillOnward DEF Asks, Abandon, table
<1>3. ASSUME NEW p \in Calls, Accept(p)
      PROVE  Onward
  <2>1. /\ calls[p].id \in DOMAIN handoffs /\ Acceptable(handoffs[calls[p].id]) =>
          Evolves(AcceptedRow(handoffs[calls[p].id], calls[p].agent), handoffs[calls[p].id])
    BY ShapeFacts, WrittenRowsEvolve
  <2> QED BY <1>3, <2>1, AcceptEffect, WritesOnward
<1>4. ASSUME NEW p \in Calls, Complete(p)
      PROVE  Onward
  <2>1. /\ calls[p].id \in DOMAIN handoffs /\ Completable(handoffs[calls[p].id]) =>
          Evolves(CompletedRow(handoffs[calls[p].id], calls[p].commit), handoffs[calls[p].id])
    BY ShapeFacts, WrittenRowsEvolve
  <2> QED BY <1>4, <2>1, CompleteEffect, WritesOnward
<1>5. ASSUME NEW p \in Calls, Merge(p)
      PROVE  Onward
  <2>1. /\ calls[p].id \in DOMAIN handoffs /\ Mergeable(handoffs[calls[p].id]) =>
          Evolves(MergedRow(handoffs[calls[p].id], calls[p].commit), handoffs[calls[p].id])
    BY ShapeFacts, WrittenRowsEvolve
  <2> QED BY <1>5, <2>1, MergeEffect, WritesOnward
<1>6. ASSUME NEW p \in Calls, Delete(p)
      PROVE  Onward
  <2>1. CASE Removed(calls[p].id) /\ Bury(calls[p].id)
    <3>1. \A i \in DOMAIN handoffs' : i \in DOMAIN handoffs /\ Evolves(handoffs'[i], handoffs[i])
      BY <2>1, ShapeFacts DEF Removed, SameButParent, Evolves
    <3>2. calls[p].id \in DOMAIN handoffs
      BY <2>1 DEF Removed
    <3> QED BY <2>1, <3>1, <3>2, ShapeFacts, BuryAppends DEF Onward
  <2> QED BY <1>6, <2>1, DeleteEffect, StillOnward
<1>7. ASSUME NEW p \in Calls, Create(p)
      PROVE  Onward
  <2>1. Inserting(p)
    BY <1>7, CreateEffect DEF Inserting
  <2> QED BY <1>7, <2>1, CreateEffect, InsertedOnward, StillOnward
<1> QED BY <1>1, <1>2, <1>3, <1>4, <1>5, <1>6, <1>7, Steps

(***************************************************************************)
(* A handoff a call is about does not appear while the call runs.          *)
(***************************************************************************)
LEMMA NamedRowEvolves ==
  ASSUME Shape, Onward, NEW q \in Calls, calls[q].op \notin {NULL, "create"},
         calls[q].id \in DOMAIN handoffs'
  PROVE  /\ Exists(calls[q].id)
         /\ Evolves(handoffs'[calls[q].id], handoffs[calls[q].id])
<1>1. calls[q].id \in drawn
  BY ShapeFacts
<1>2. \A p \in Calls : Inserting(p) => calls[p].id # calls[q].id
  BY DEF Shape, Reserved, Inserting
<1>3. calls[q].id \in DOMAIN handoffs
  BY <1>1, <1>2 DEF Onward
<1> QED BY <1>3 DEF Onward, Exists

-------------------------------------------------------------------------------
(* What a call relies on survives the steps of the other calls *)

LEMMA OthersKeep ==
  ASSUME Shape, Shape', Onward, NEW q \in Calls, calls'[q] = calls[q], CallInv(q)
  PROVE  CallInv(q)'
<1>0. calls[q] \in WellFormed
  BY DEF Shape, CallShape
<1>1. LearnsWhy(q)'
  BY DEF CallInv, LearnsWhy, Final
<1>2. CASE calls[q].op \in {NULL, "create"}
  <2>1. /\ calls[q].op \notin {"accept", "complete", "merge", "delete"}
        /\ calls[q].at # "reread"
    BY <1>0, <1>2, BusAssumption DEF WellFormed, Operations
  <2> QED BY <1>1, <1>2, <2>1
          DEF CallInv, ClaimReady, MergeReady, RereadReady, PartyReady, Stands, At, Won
<1>3. CASE calls[q].op \notin {NULL, "create"}
  <2> DEFINE i == calls[q].id
  <2>1. i \in DOMAIN handoffs' => Exists(i) /\ Evolves(handoffs'[i], handoffs[i])
    BY <1>3, NamedRowEvolves
  <2>2. ClaimReady(q)' /\ MergeReady(q)'
    BY <2>1 DEF CallInv, ClaimReady, MergeReady, IsBroadcast, At, Exists, Evolves
  <2>3. RereadReady(q)'
    <3>1. i \in DOMAIN handoffs' => handoffs'[i].status \in Statuses
      BY DEF Shape, TypeOK, Row
    <3> QED BY <2>1, <3>1 DEF CallInv, RereadReady, Final, Statuses, Exists, Evolves
  <2>4. PartyReady(q)'
    <3>1. BuriedWithinParty(calls[q]) => BuriedWithinParty(calls[q])'
      BY DEF Onward, BuriedWithinParty, CanSee
    <3> QED BY <2>1, <3>1 DEF CallInv, PartyReady, CanSee, Exists, Evolves, BuriedWithinParty
  <2>5. Stands(q)'
    BY <2>1 DEF CallInv, Stands, Won, Exists, Evolves, Coalesce
  <2> QED BY <1>1, <2>2, <2>3, <2>4, <2>5 DEF CallInv
<1> QED BY <1>2, <1>3

-------------------------------------------------------------------------------
(* ... and is restored by the call's own step *)

(***************************************************************************)
(* What holds of the handoff when a call is about to be told "ok".         *)
(***************************************************************************)
Entitled(p) ==
  LET c == calls[p]
      row == handoffs[c.id]
  IN /\ Exists(c.id)
     /\ c.op = "accept" => row.status = "pending"
     /\ c.op = "complete" => row.status \in {"pending", "accepted"}
     /\ c.op = "merge" =>
          \/ row.status = "completed"
          \/ row.status = "merged" /\ row.merge_commit = c.commit

Kept(p) ==
  /\ CallInv(p)'
  /\ calls'[p].answer = "ok" => calls'[p].op = "create" \/ Entitled(p)

LEMMA Unanswered ==
  ASSUME Shape, NEW p \in Calls, calls[p].at \in InFlight
  PROVE  /\ calls[p] \in WellFormed /\ calls[p] \in Call /\ calls[p].op # NULL
         /\ calls[p].answer = NULL /\ NULL \notin Answers
         /\ calls[p].id \in DOMAIN handoffs => handoffs[calls[p].id] \in Row
BY BusAssumption DEF Shape, TypeOK, CallShape, WellFormed, InFlight

LEMMA AskKeeps ==
  ASSUME Shape, NEW p \in Calls, NEW new, Asks(p, new)
  PROVE  Kept(p)
<1>1. Asked(new) /\ calls'[p] = new /\ NULL \notin Answers
  BY BusAssumption DEF Shape, CallShape, Asks, Start
<1>2. new.answer \notin {"ok", "lost"} /\ new.at # "reread"
  BY <1>1 DEF Asked, Answers
<1> QED BY <1>1, <1>2
    DEF Kept, CallInv, Asked, ClaimReady, MergeReady, RereadReady, PartyReady, Stands, LearnsWhy, At, Won

LEMMA AbandonKeeps ==
  ASSUME Shape, NEW p \in Calls, Abandon(p)
  PROVE  Kept(p)
<1>1. calls'[p] = Idle
  BY DEF Abandon, Shape, CallShape
<1>2. Idle.answer \notin {"ok", "lost"} /\ Idle.op = NULL /\ Idle.at = "idle"
      /\ NULL \notin Operations
  BY BusAssumption DEF Idle, Answers
<1> HIDE DEF Idle
<1> QED BY <1>1, <1>2
    DEF Kept, CallInv, ClaimReady, MergeReady, RereadReady, PartyReady, Stands, LearnsWhy, At, Won,
        Operations

(***************************************************************************)
(* An answer other than "ok" and "lost" settles a call.                    *)
(***************************************************************************)
LEMMA SettledKeeps ==
  ASSUME Shape, NEW p \in Calls, Advances(p), calls'[p].at = "answered",
         calls'[p].answer \in {"not_found", "db_error"}
  PROVE  Kept(p)
BY DEF Kept, CallInv, ClaimReady, MergeReady, RereadReady, PartyReady, Stands, LearnsWhy, At, Won

LEMMA CheckVisibleKeeps ==
  ASSUME Shape, NEW p \in Calls, CheckVisible(p), CallInv(p)
  PROVE  Kept(p)
<1> DEFINE c == calls[p]
           stage == FirstStage(c.op, c.agent)
<1>1. /\ c.at = "visible" /\ c.at \in InFlight /\ UNCHANGED handoffs /\ CallShape
  BY DEF CheckVisible, InFlight, Stages, table, Shape
<1>2. /\ c.answer = NULL /\ NULL \notin Answers
  BY <1>1, Unanswered
<1>3. Advances(p)
  BY ReadingEffect DEF Reading
<1>4. CASE Answer(p, "not_found", NULL)
  BY <1>1, <1>3, <1>4, AnswerAdvances, SettledKeeps DEF Answers
<1>5. CASE ~Answer(p, "not_found", NULL)
  <2>1. /\ Goto(p, stage)
        /\ c.op # "create" => Exists(c.id)
             /\ CanSee(c.token, handoffs[c.id].from_agent, handoffs[c.id].to_agent)
    BY <1>5 DEF CheckVisible
  <2>2. calls'[p] = [c EXCEPT !.at = stage] /\ c \in Call
    BY <1>1, <2>1 DEF Goto, CallShape, WellFormed
  <2>3. calls'[p].at = stage /\ calls'[p].answer = NULL
    BY <1>2, <2>2 DEF Call
  <2>4. stage \in {"broadcast", "precheck", "write"}
        /\ (stage = "write" => c.op # "merge" /\ ~(c.op = "accept" /\ c.agent = NULL))
    BY DEF FirstStage
  <2> HIDE DEF stage
  <2> QED BY <1>1, <1>2, <1>3, <2>1, <2>3, <2>4
      DEF Kept, Advances, CallInv, ClaimReady, MergeReady, RereadReady, PartyReady, Stands,
          LearnsWhy, At, Won, Answers, CanSee, Exists
<1> QED BY <1>4, <1>5

LEMMA CheckBroadcastKeeps ==
  ASSUME Shape, NEW p \in Calls, CheckBroadcast(p), CallInv(p)
  PROVE  Kept(p)
<1> DEFINE c == calls[p]
<1>1. /\ c.at = "broadcast" /\ c.op = "accept" /\ c.at \in InFlight /\ UNCHANGED handoffs
      /\ CallShape
  BY DEF CheckBroadcast, At, InFlight, Stages, table, Shape
<1>2. c.answer = NULL /\ NULL \notin Answers
  BY <1>1, Unanswered
<1>3. Advances(p)
  BY ReadingEffect DEF Reading
<1>4. \/ /\ calls'[p].at = "answered" /\ calls'[p].answer = "refused"
      \/ /\ calls'[p].at = "write" /\ calls'[p].answer = NULL
         /\ Exists(c.id) => ~IsBroadcast(handoffs[c.id])
  BY <1>1, <1>2, AnswerAdvances, GotoAdvances DEF CheckBroadcast, Answers
<1> QED BY <1>1, <1>2, <1>3, <1>4
    DEF Kept, Advances, CallInv, ClaimReady, MergeReady, RereadReady, PartyReady, Stands,
        LearnsWhy, At, Won, Answers, CanSee, Exists, IsBroadcast

LEMMA CheckMergeKeeps ==
  ASSUME Shape, NEW p \in Calls, CheckMerge(p), CallInv(p)
  PROVE  Kept(p)
<1> DEFINE c == calls[p]
<1>1. /\ c.at = "precheck" /\ c.op = "merge" /\ c.at \in InFlight /\ UNCHANGED handoffs
      /\ CallShape
  BY DEF CheckMerge, At, InFlight, Stages, table, Shape
<1>2. /\ c.answer = NULL /\ NULL \notin Answers
      /\ c.id \in DOMAIN handoffs => handoffs[c.id] \in Row
  BY <1>1, Unanswered
<1>3. Advances(p)
  BY ReadingEffect DEF Reading
<1>4. \/ calls'[p].at = "answered" /\ calls'[p].answer \in {"not_found", "refused"}
      \/ /\ calls'[p].at = "answered" /\ calls'[p].answer = "ok"
         /\ Exists(c.id) /\ handoffs[c.id].status = "merged" /\ handoffs[c.id].merge_commit = c.commit
      \/ /\ calls'[p].at = "write" /\ calls'[p].answer = NULL
         /\ Mergeable(handoffs[c.id]) /\ CarriesWork(handoffs[c.id])
  BY <1>1, <1>2, AnswerAdvances, GotoAdvances DEF CheckMerge, Answers, Exists, Statuses, Row
<1>5. c.id \in DOMAIN handoffs /\ CarriesWork(handoffs[c.id]) => handoffs[c.id].commit_hash \in Commits
  BY <1>2 DEF CarriesWork, Row
<1> QED BY <1>1, <1>2, <1>3, <1>4, <1>5
    DEF Kept, Advances, CallInv, ClaimReady, MergeReady, RereadReady, PartyReady, Stands,
        LearnsWhy, At, Won, Answers, CanSee, Exists, Mergeable, Entitled

LEMMA RereadKeeps ==
  ASSUME Shape, NEW p \in Calls, Reread(p), CallInv(p)
  PROVE  Kept(p)
<1> DEFINE c == calls[p]
<1>1. /\ c.at = "reread" /\ c.op \in {"accept", "complete", "merge"} /\ c.at \in InFlight
      /\ UNCHANGED handoffs /\ CallShape
  BY DEF Reread, InFlight, Stages, table, Shape, CallShape, WellFormed
<1>2. /\ c.answer = NULL /\ NULL \notin Answers
      /\ c.id \in DOMAIN handoffs => handoffs[c.id] \in Row
  BY <1>1, Unanswered
<1>3. Advances(p)
  BY ReadingEffect DEF Reading
<1>4. /\ calls'[p].at = "answered"
      /\ \/ calls'[p].answer = "not_found"
         \/ /\ calls'[p].answer = "ok" /\ c.op = "merge"
            /\ Exists(c.id) /\ handoffs[c.id].status = "merged" /\ handoffs[c.id].merge_commit = c.commit
         \/ /\ calls'[p].answer = "lost" /\ Exists(c.id) /\ calls'[p].saw = handoffs[c.id].status
  BY <1>1, <1>2, AnswerAdvances DEF Reread, Answers, Exists, Statuses, Row
<1> QED BY <1>1, <1>2, <1>3, <1>4
    DEF Kept, Advances, CallInv, ClaimReady, MergeReady, RereadReady, PartyReady, Stands,
        LearnsWhy, Final, At, Won, Answers, CanSee, Exists, Entitled

LEMMA ReadingKeeps ==
  ASSUME Shape, NEW p \in Calls, Reading(p), CallInv(p)
  PROVE  Kept(p)
<1>1. CASE Embedded(p)
  <2>1. Advances(p) /\ calls[p].op = "create"
    BY <1>1, ReadingEffect DEF Reading, Embedded, At
  <2>2. calls'[p].at = "answered" /\ calls'[p].answer = "ok"
    BY <1>1, AnswerAdvances DEF Shape, Embedded, At, InFlight, Stages, Answers
  <2> QED BY <2>1, <2>2
      DEF Kept, Advances, CallInv, ClaimReady, MergeReady, RereadReady, PartyReady, Stands,
          LearnsWhy, At, Won
<1>2. CASE DatabaseError(p)
  BY <1>2, AnswerAdvances, SettledKeeps DEF DatabaseError, Shape, Answers
<1> QED BY <1>1, <1>2, CheckVisibleKeeps, CheckBroadcastKeeps, CheckMergeKeeps, RereadKeeps DEF Reading

(***************************************************************************)
(* What the write of a claim, a completion or a merge turns on and leaves. *)
(***************************************************************************)
Wrote(c, old, row) ==
  /\ row.from_agent = old.from_agent /\ row.to_agent = old.to_agent
  /\ c.op = "accept" => /\ old.status = "pending" /\ row.status = "accepted"
                        /\ row.accepted_by = Coalesce(c.agent, row.to_agent)
  /\ c.op = "complete" => /\ old.status \in {"pending", "accepted"} /\ row.status = "completed"
                          /\ c.commit # NULL => row.commit_hash = c.commit
  /\ c.op = "merge" => /\ old.status = "completed" /\ row.status = "merged"
                       /\ row.merge_commit = c.commit

LEMMA WritesKeep ==
  ASSUME Shape, NEW p \in Calls, CallInv(p), NEW holds, NEW row, Writes(p, holds, row),
         calls[p].op \in {"accept", "complete", "merge"},
         Exists(calls[p].id) /\ holds => Wrote(calls[p], handoffs[calls[p].id], row),
         Exists(calls[p].id) /\ ~holds => handoffs[calls[p].id].status \in Final(calls[p].op)
  PROVE  Kept(p)
<1>1. Advances(p) /\ calls[p].at = "write"
  BY DEF Writes
<1>2. calls[p].answer = NULL /\ NULL \notin Answers
  BY <1>1, Unanswered DEF InFlight, Stages
<1>3. CASE /\ Exists(calls[p].id) /\ holds /\ Updated(calls[p].id, row)
           /\ calls'[p].at = "answered" /\ calls'[p].answer \in {"ok", "db_error"}
  BY <1>1, <1>2, <1>3
     DEF Kept, Advances, CallInv, ClaimReady, MergeReady, RereadReady, PartyReady, Stands,
         LearnsWhy, At, Won, Answers, CanSee, Exists, Entitled, Updated, Wrote
<1>4. CASE /\ Exists(calls[p].id) => ~holds
           /\ UNCHANGED handoffs /\ calls'[p].at = "reread" /\ calls'[p].answer = NULL
  BY <1>1, <1>2, <1>4
     DEF Kept, Advances, CallInv, ClaimReady, MergeReady, RereadReady, PartyReady, Stands,
         LearnsWhy, At, Won, Answers, CanSee, Exists, Final
<1> QED BY <1>3, <1>4 DEF Writes

LEMMA AcceptKeeps ==
  ASSUME Shape, NEW p \in Calls, Accept(p), CallInv(p)
  PROVE  Kept(p)
<1> DEFINE old == handoffs[calls[p].id]
<1>1. calls[p].op = "accept" /\ Writes(p, Acceptable(old), AcceptedRow(old, calls[p].agent))
  BY AcceptEffect
<1>2. Exists(calls[p].id) => old \in Row
  BY ShapeFacts DEF Exists
<1>3. Exists(calls[p].id) /\ Acceptable(old) =>
        Wrote(calls[p], old, AcceptedRow(old, calls[p].agent))
  BY <1>1, <1>2 DEF AcceptedRow, Row, Wrote, Acceptable
<1>4. Exists(calls[p].id) /\ ~Acceptable(old) => old.status \in Final(calls[p].op)
  BY <1>1, <1>2 DEF Acceptable, Final, Row
<1> QED BY <1>1, <1>3, <1>4, WritesKeep

LEMMA CompleteKeeps ==
  ASSUME Shape, NEW p \in Calls, Complete(p), CallInv(p)
  PROVE  Kept(p)
<1> DEFINE old == handoffs[calls[p].id]
<1>1. calls[p].op = "complete" /\ Writes(p, Completable(old), CompletedRow(old, calls[p].commit))
  BY CompleteEffect
<1>2. Exists(calls[p].id) => old \in Row
  BY ShapeFacts DEF Exists
<1>3. Exists(calls[p].id) /\ Completable(old) =>
        Wrote(calls[p], old, CompletedRow(old, calls[p].commit))
  BY <1>1, <1>2 DEF CompletedRow, Row, Wrote, Completable, Open, Coalesce
<1>4. Exists(calls[p].id) /\ ~Completable(old) => old.status \in Final(calls[p].op)
  BY <1>1, <1>2 DEF Completable, Open, Statuses, Final, Row
<1> QED BY <1>1, <1>3, <1>4, WritesKeep

LEMMA MergeKeeps ==
  ASSUME Shape, NEW p \in Calls, Merge(p), CallInv(p)
  PROVE  Kept(p)
<1> DEFINE old == handoffs[calls[p].id]
<1>1. calls[p].op = "merge" /\ Writes(p, Mergeable(old), MergedRow(old, calls[p].commit))
  BY MergeEffect
<1>2. Exists(calls[p].id) => old \in Row
  BY ShapeFacts DEF Exists
<1>3. Exists(calls[p].id) /\ Mergeable(old) =>
        Wrote(calls[p], old, MergedRow(old, calls[p].commit))
  BY <1>1, <1>2 DEF MergedRow, Row, Wrote, Mergeable
<1>4. Exists(calls[p].id) /\ ~Mergeable(old) => old.status \in Final(calls[p].op)
  BY <1>1 DEF Mergeable, Final, CallInv, MergeReady, At, Writes
<1> QED BY <1>1, <1>3, <1>4, WritesKeep

LEMMA DeleteKeeps ==
  ASSUME Shape, NEW p \in Calls, Delete(p), CallInv(p)
  PROVE  Kept(p)
<1> DEFINE c == calls[p]
<1>1. /\ c.op = "delete" /\ c.at = "write" /\ Advances(p) /\ calls'[p].at = "answered"
      /\ \/ Removed(c.id) /\ Bury(c.id) /\ calls'[p].answer \in {"ok", "db_error"}
         \/ calls'[p].answer = "not_found"
  BY DeleteEffect
<1>2. c.answer = NULL /\ NULL \notin Answers /\ NULL \notin Operations
  BY <1>1, Unanswered, BusAssumption DEF InFlight, Stages
<1>3. CASE Removed(c.id) /\ Bury(c.id) /\ calls'[p].answer = "ok"
  <2>1. Exists(c.id) /\ ~Exists(c.id)'
    BY <1>1, <1>3 DEF Removed, Exists, Advances
  <2>2. c.token \in Restricted =>
          CanSee(c.token, handoffs[c.id].from_agent, handoffs[c.id].to_agent)
    BY <1>1, <1>2, <2>1 DEF CallInv, PartyReady, Answers, Operations
  <2>3. c.token \in Restricted => BuriedWithinParty(c)'
    <3>1. c.id \in DOMAIN handoffs /\ TypeOK
      BY <2>1, ShapeFacts DEF Exists
    <3>2. /\ Len(audit) + 1 \in DOMAIN audit'
          /\ audit'[Len(audit) + 1] = TombstoneOf(c.id)
      BY <1>3, <3>1, BuryAppends
    <3>3. /\ TombstoneOf(c.id).id = c.id
          /\ TombstoneOf(c.id).from_agent = handoffs[c.id].from_agent
          /\ TombstoneOf(c.id).to_agent = handoffs[c.id].to_agent
      BY DEF TombstoneOf
    <3> QED BY <1>1, <2>2, <3>2, <3>3 DEF BuriedWithinParty, CanSee, Advances
  <2> QED BY <1>1, <1>3, <2>1, <2>3
      DEF Kept, Advances, CallInv, ClaimReady, MergeReady, RereadReady, PartyReady, Stands,
          LearnsWhy, At, Won, Exists, Entitled, BuriedWithinParty, CanSee
<1>4. CASE calls'[p].answer \in {"not_found", "db_error"}
  BY <1>1, <1>4, SettledKeeps
<1> QED BY <1>1, <1>3, <1>4

LEMMA CreateKeeps ==
  ASSUME Shape, NEW p \in Calls, Create(p), CallInv(p)
  PROVE  Kept(p)
<1>1. /\ calls[p].op = "create" /\ Advances(p) /\ calls'[p].at \in {"embed", "answered"}
      /\ calls'[p].answer \in {NULL, "db_error"} /\ NULL \notin Answers
  BY CreateEffect, BusAssumption
<1> QED BY <1>1
    DEF Kept, Advances, CallInv, ClaimReady, MergeReady, RereadReady, PartyReady, Stands,
        LearnsWhy, At, Won, Answers

-------------------------------------------------------------------------------
(* What holds of the rows *)

Sound(row) ==
  /\ row.status = "accepted" => row.accepted_by # NULL
  /\ row.status = "merged" => row.commit_hash \in Commits /\ row.merge_commit \in Commits

LEMMA RowsSame ==
  ASSUME RowInv, UNCHANGED <<handoffs, audit>>
  PROVE  RowInv'
BY DEF RowInv, ClaimHasHolder, MergedHasWork, OneTombstone, NoDanglingReply, OneOpenRowPerKey, Exists

LEMMA RowsUpdated ==
  ASSUME RowInv, NEW i, NEW row, Updated(i, row), UNCHANGED audit, Sound(row),
         row.in_reply_to = handoffs[i].in_reply_to, row.to_agent = handoffs[i].to_agent,
         row.dedupe_key = handoffs[i].dedupe_key,
         row.status \in Open => handoffs[i].status \in Open
  PROVE  RowInv'
<1>1. ClaimHasHolder' /\ MergedHasWork'
  BY DEF RowInv, ClaimHasHolder, MergedHasWork, Sound, Updated
<1>2. OneTombstone' /\ NoDanglingReply'
  BY DEF RowInv, OneTombstone, NoDanglingReply, Exists, Updated
<1>3. OneOpenRowPerKey'
  BY DEF RowInv, OneOpenRowPerKey, Updated
<1> QED BY <1>1, <1>2, <1>3 DEF RowInv

LEMMA RowsInserted ==
  ASSUME RowInv, NEW i, NEW row, Inserted(i, row), UNCHANGED audit,
         row.status = "pending", row.in_reply_to # NULL => Exists(row.in_reply_to),
         ~Tombstoned(i),
         row.dedupe_key # NULL => \A j \in DOMAIN handoffs :
           ~Suppresses(handoffs[j], row.to_agent, row.dedupe_key)
  PROVE  RowInv'
<1>1. ClaimHasHolder' /\ MergedHasWork'
  BY DEF RowInv, ClaimHasHolder, MergedHasWork, Inserted
<1>2. OneTombstone' /\ NoDanglingReply'
  BY DEF RowInv, OneTombstone, NoDanglingReply, Exists, Tombstoned, Inserted
<1>3. OneOpenRowPerKey'
  BY DEF RowInv, OneOpenRowPerKey, Suppresses, Inserted
<1> QED BY <1>1, <1>2, <1>3 DEF RowInv

LEMMA RowsRemoved ==
  ASSUME Shape, RowInv, NEW i, Removed(i), Bury(i)
  PROVE  RowInv'
<1>1. i \in DOMAIN handoffs /\ TypeOK
  BY ShapeFacts DEF Removed
<1>2. ClaimHasHolder' /\ MergedHasWork'
  BY DEF RowInv, ClaimHasHolder, MergedHasWork, Removed, SameButParent
<1>3. NoDanglingReply'
  BY DEF RowInv, NoDanglingReply, Exists, Removed
<1>4. OneOpenRowPerKey'
  BY DEF RowInv, OneOpenRowPerKey, Removed, SameButParent
<1>5. OneTombstone'
  <2>1. TombstoneOf(i).id = i
    BY DEF TombstoneOf
  <2>2. \A n \in DOMAIN audit' : \/ n \in DOMAIN audit /\ audit'[n] = audit[n] /\ audit[n].id # i
                                 \/ n = Len(audit) + 1 /\ n \notin DOMAIN audit /\ audit'[n].id = i
    BY <1>1, <2>1, BuryAppends DEF RowInv, OneTombstone, Exists
  <2>3. DOMAIN handoffs' = DOMAIN handoffs \ {i}
    BY DEF Removed
  <2> QED BY <2>2, <2>3 DEF RowInv, OneTombstone, Exists
<1> QED BY <1>2, <1>3, <1>4, <1>5 DEF RowInv

(***************************************************************************)
(* The writes of the calls and of the machine producers.                   *)
(***************************************************************************)
LEMMA RowsAccept ==
  ASSUME Shape, RowInv, NEW p \in Calls, CallInv(p), Accept(p)
  PROVE  RowInv'
<1> DEFINE i == calls[p].id
           row == AcceptedRow(handoffs[i], calls[p].agent)
<1>1. calls[p].op = "accept" /\ Writes(p, Acceptable(handoffs[i]), row)
  BY AcceptEffect
<1>2. CASE Updated(i, row) /\ Acceptable(handoffs[i]) /\ UNCHANGED audit
  <2>1. Exists(i) /\ handoffs[i] \in Row
    BY <1>2, ShapeFacts DEF Updated, Exists
  <2>2. Coalesce(calls[p].agent, handoffs[i].to_agent) # NULL
    BY <1>1, <2>1 DEF CallInv, ClaimReady, At, Writes, IsBroadcast, Coalesce
  <2>3. /\ Sound(row) /\ row.in_reply_to = handoffs[i].in_reply_to
        /\ row.to_agent = handoffs[i].to_agent /\ row.dedupe_key = handoffs[i].dedupe_key
        /\ handoffs[i].status \in Open
    BY <1>2, <2>1, <2>2 DEF AcceptedRow, Row, Sound, Acceptable, Open
  <2> HIDE DEF row
  <2> QED BY <1>2, <2>3, RowsUpdated
<1> QED BY <1>1, <1>2, RowsSame DEF Writes

LEMMA RowsComplete ==
  ASSUME Shape, RowInv, NEW p \in Calls, Complete(p)
  PROVE  RowInv'
<1> DEFINE i == calls[p].id
           row == CompletedRow(handoffs[i], calls[p].commit)
<1>1. Writes(p, Completable(handoffs[i]), row)
  BY CompleteEffect
<1>2. CASE Updated(i, row) /\ Completable(handoffs[i]) /\ UNCHANGED audit
  <2>1. handoffs[i] \in Row
    BY <1>2, ShapeFacts DEF Updated
  <2>3. /\ Sound(row) /\ row.in_reply_to = handoffs[i].in_reply_to
        /\ row.to_agent = handoffs[i].to_agent /\ row.dedupe_key = handoffs[i].dedupe_key
        /\ handoffs[i].status \in Open
    BY <1>2, <2>1 DEF CompletedRow, Row, Sound, Completable, Open
  <2> HIDE DEF row
  <2> QED BY <1>2, <2>3, RowsUpdated
<1> QED BY <1>1, <1>2, RowsSame DEF Writes

LEMMA RowsMerge ==
  ASSUME Shape, RowInv, NEW p \in Calls, CallInv(p), Merge(p)
  PROVE  RowInv'
<1> DEFINE i == calls[p].id
           row == MergedRow(handoffs[i], calls[p].commit)
<1>1. calls[p].op = "merge" /\ Writes(p, Mergeable(handoffs[i]), row)
  BY MergeEffect
<1>2. CASE Updated(i, row) /\ Mergeable(handoffs[i]) /\ UNCHANGED audit
  <2>1. Exists(i) /\ handoffs[i] \in Row
    BY <1>2, ShapeFacts DEF Updated, Exists
  <2>2. handoffs[i].commit_hash \in Commits /\ calls[p].commit \in Commits
    BY <1>1, <2>1 DEF CallInv, MergeReady, At, Writes, Shape, CallShape, WellFormed
  <2>3. /\ Sound(row) /\ row.in_reply_to = handoffs[i].in_reply_to
        /\ row.to_agent = handoffs[i].to_agent /\ row.dedupe_key = handoffs[i].dedupe_key
        /\ row.status \notin Open
    BY <1>2, <2>1, <2>2 DEF MergedRow, Row, Sound, Mergeable, Open
  <2> HIDE DEF row
  <2> QED BY <1>2, <2>3, RowsUpdated
<1> QED BY <1>1, <1>2, RowsSame DEF Writes

LEMMA RowsCreate ==
  ASSUME Shape, RowInv, NEW p \in Calls, Create(p)
  PROVE  RowInv'
<1> DEFINE row == NewRow(calls[p])
<1>1. /\ calls[p].op = "create" /\ calls[p].at = "write" /\ UNCHANGED audit
      /\ \/ ParentHolds(calls[p].parent) /\ Inserted(calls[p].id, row)
         \/ UNCHANGED handoffs
  BY CreateEffect
<1>2. ~Tombstoned(calls[p].id)
  BY <1>1 DEF Shape, Reserved, Inserting
<1>3. row.status = "pending" /\ row.in_reply_to = calls[p].parent /\ row.dedupe_key = NULL
  BY DEF NewRow, PendingRow
<1> HIDE DEF row
<1> QED BY <1>1, <1>2, <1>3, RowsInserted, RowsSame DEF ParentHolds

LEMMA RowsIngest ==
  ASSUME Shape, RowInv, Ingest
  PROVE  RowInv'
<1>1. ASSUME NEW i \in DOMAIN handoffs, Updated(i, RepeatedRow(handoffs[i])), UNCHANGED audit
      PROVE  RowInv'
  <2> DEFINE row == RepeatedRow(handoffs[i])
  <2>1. handoffs[i] \in Row
    BY ShapeFacts
  <2>2. /\ row.in_reply_to = handoffs[i].in_reply_to
        /\ row.to_agent = handoffs[i].to_agent /\ row.dedupe_key = handoffs[i].dedupe_key
        /\ row.status = handoffs[i].status /\ Sound(row)
    BY <2>1 DEF RepeatedRow, Row, Sound, RowInv, ClaimHasHolder, MergedHasWork
  <2> HIDE DEF row
  <2> QED BY <1>1, <2>2, RowsUpdated DEF row
<1>2. ASSUME NEW i \in Ids \ drawn, NEW from, NEW to, NEW cat, NEW key,
             Inserted(i, PendingRow(from, to, cat, NULL, key)), UNCHANGED audit,
             \A j \in DOMAIN handoffs : ~Suppresses(handoffs[j], to, key)
      PROVE  RowInv'
  <2> DEFINE row == PendingRow(from, to, cat, NULL, key)
  <2>1. ~Tombstoned(i)
    BY ShapeFacts DEF Tombstoned
  <2>2. row.status = "pending" /\ row.in_reply_to = NULL /\ row.to_agent = to /\ row.dedupe_key = key
    BY DEF PendingRow
  <2>3. Inserted(i, row)
    BY <1>2
  <2> HIDE DEF row
  <2> QED BY <1>2, <2>1, <2>2, <2>3, RowsInserted
<1> QED BY <1>1, <1>2, IngestEffect

-------------------------------------------------------------------------------
(* The inductive invariant *)

(***************************************************************************)
(* A step of one call: its own record is restored, the others' survive, and*)
(* a call that is told "ok" was entitled to it, so no other one was.       *)
(***************************************************************************)
LEMMA MoverInv ==
  ASSUME IInv, Next, NEW p \in Calls, \A q \in Calls \ {p} : calls'[q] = calls[q],
         Kept(p), RowInv',
         \/ calls'[p].answer # "ok"
         \/ calls'[p].op = calls[p].op /\ calls'[p].id = calls[p].id /\ calls'[p].commit = calls[p].commit
  PROVE  IInv'
<1>1. Shape' /\ Onward
  BY ShapeStep, StepOnward DEF IInv
<1>2. \A q \in Calls : CallInv(q)'
  BY <1>1, OthersKeep DEF IInv, Kept
<1>3. ASSUME NEW q \in Calls \ {p}, calls'[p].id = calls'[q].id
      PROVE  /\ \A op \in {"accept", "complete", "delete"} : ~(Won(p, op)' /\ Won(q, op)')
             /\ Won(p, "merge")' /\ Won(q, "merge")' => calls'[p].commit = calls'[q].commit
  <2>1. Stands(q)
    BY DEF IInv, CallInv
  <2> QED BY <1>3, <2>1 DEF Kept, Entitled, Won, Stands
<1>4. OneWinner'
  BY <1>3 DEF IInv, OneWinner, Won
<1> QED BY <1>1, <1>2, <1>4 DEF IInv

LEMMA InvStep ==
  ASSUME IInv, [Next]_vars
  PROVE  IInv'
<1>0. Shape /\ RowInv /\ \A q \in Calls : CallInv(q)
  BY DEF IInv
<1>1. CASE Next /\ Ingest
  <2>1. Shape' /\ Onward /\ RowInv' /\ UNCHANGED calls
    BY <1>0, <1>1, ShapeStep, StepOnward, RowsIngest, IngestEffect
  <2>2. \A q \in Calls : CallInv(q)'
    BY <1>0, <2>1, OthersKeep
  <2> QED BY <2>1, <2>2 DEF IInv, OneWinner, Won
<1>2. ASSUME Next, NEW p \in Calls, NEW new, Asks(p, new)
      PROVE  IInv'
  <2>1. /\ \A q \in Calls \ {p} : calls'[q] = calls[q]
        /\ calls'[p].answer # "ok" /\ UNCHANGED <<handoffs, audit>>
    BY <1>0, <1>2, BusAssumption DEF Asks, Asked, Start, Shape, CallShape, Answers
  <2> QED BY <1>0, <1>2, <2>1, AskKeeps, RowsSame, MoverInv
<1>3. ASSUME Next, NEW p \in Calls, Abandon(p)
      PROVE  IInv'
  <2>1. /\ \A q \in Calls \ {p} : calls'[q] = calls[q]
        /\ calls'[p].answer # "ok" /\ UNCHANGED <<handoffs, audit>>
    BY <1>0, <1>3, BusAssumption DEF Abandon, Idle, Shape, CallShape, Answers, table
  <2> QED BY <1>0, <1>3, <2>1, AbandonKeeps, RowsSame, MoverInv
<1>4. ASSUME Next, NEW p \in Calls, Advances(p), Kept(p), RowInv'
      PROVE  IInv'
  BY <1>4, MoverInv DEF Advances
<1>5. ASSUME Next, NEW p \in Calls,
             Reading(p) \/ Accept(p) \/ Complete(p) \/ Merge(p) \/ Delete(p) \/ Create(p)
      PROVE  IInv'
  <2>1. CASE Reading(p)
    BY <1>0, <1>4, <1>5, <2>1, ReadingEffect, ReadingKeeps, RowsSame DEF table
  <2>2. CASE Accept(p)
    BY <1>0, <1>4, <1>5, <2>2, AcceptEffect, AcceptKeeps, RowsAccept DEF Writes
  <2>3. CASE Complete(p)
    BY <1>0, <1>4, <1>5, <2>3, CompleteEffect, CompleteKeeps, RowsComplete DEF Writes
  <2>4. CASE Merge(p)
    BY <1>0, <1>4, <1>5, <2>4, MergeEffect, MergeKeeps, RowsMerge DEF Writes
  <2>5. CASE Delete(p)
    BY <1>0, <1>4, <1>5, <2>5, DeleteEffect, DeleteKeeps, RowsRemoved, RowsSame
  <2>6. CASE Create(p)
    BY <1>0, <1>4, <1>5, <2>6, CreateEffect, CreateKeeps, RowsCreate
  <2> QED BY <1>5, <2>1, <2>2, <2>3, <2>4, <2>5, <2>6
<1>6. CASE UNCHANGED vars
  <2>1. Shape' /\ RowInv' /\ UNCHANGED <<handoffs, audit, calls>>
    BY <1>0, <1>6, ShapeStep, RowsSame DEF vars
  <2>2. Onward
    BY <1>0, <2>1, StillOnward
  <2>3. \A q \in Calls : CallInv(q)'
    BY <1>0, <2>1, <2>2, OthersKeep
  <2> QED BY <2>1, <2>3 DEF IInv, OneWinner, Won
<1> QED BY <1>1, <1>2, <1>3, <1>5, <1>6, Steps

LEMMA InvInit ==
  ASSUME Init
  PROVE  IInv
<1>1. Shape
  BY ShapeInit
<1>2. RowInv
  BY DEF Init, RowInv, ClaimHasHolder, MergedHasWork, OneTombstone, NoDanglingReply, OneOpenRowPerKey
<1>3. \A p \in Calls : calls[p].op = NULL /\ calls[p].at = "idle" /\ calls[p].answer = NULL
  BY DEF Init, Idle
<1>4. OneWinner /\ \A p \in Calls : CallInv(p)
  BY <1>3, BusAssumption
     DEF OneWinner, Won, CallInv, ClaimReady, MergeReady, RereadReady, PartyReady, Stands,
         LearnsWhy, At, Answers, Operations
<1> QED BY <1>1, <1>2, <1>4 DEF IInv

(***************************************************************************)
(* What each stage of a handler relies on holds in every reachable state,  *)
(* for any number of callers, agents, tokens and handoffs.                 *)
(***************************************************************************)
THEOREM Inductive == Spec => []IInv
BY InvInit, InvStep, PTL DEF Spec

(***************************************************************************)
(* Of any number of racing calls at most one is told that it accepted,     *)
(* completed or deleted a handoff, and merges that were all told so named  *)
(* one commit.                                                             *)
(***************************************************************************)
THEOREM WinnerIsOne == Spec => []OneWinner
<1>1. IInv => OneWinner
  BY DEF IInv
<1> QED BY <1>1, Inductive, PTL

(***************************************************************************)
(* An acknowledged claim, completion, merge or deletion is never undone by *)
(* another call.                                                           *)
(***************************************************************************)
THEOREM AcknowledgementStands == Spec => []AcknowledgedStands
<1>1. IInv => AcknowledgedStands
  BY DEF IInv, CallInv, AcknowledgedStands
<1> QED BY <1>1, Inductive, PTL

(***************************************************************************)
(* The status a call that lost is shown, read after its UPDATE matched     *)
(* nothing, always explains the refusal.                                   *)
(***************************************************************************)
THEOREM LosersLearnWhy == Spec => []LoserLearnsWhy
<1>1. IInv => LoserLearnsWhy
  BY DEF IInv, CallInv, LoserLearnsWhy
<1> QED BY <1>1, Inductive, PTL

(***************************************************************************)
(* A claimed handoff has a holder although the test for a broadcast and    *)
(* the claim are separate statements.                                      *)
(***************************************************************************)
THEOREM ClaimsHaveHolders == Spec => []ClaimHasHolder
<1>1. IInv => ClaimHasHolder
  BY DEF IInv, RowInv
<1> QED BY <1>1, Inductive, PTL

(***************************************************************************)
(* Merged work has its commit and its merge commit although the test for   *)
(* the commit and the merge are separate statements.                       *)
(***************************************************************************)
THEOREM MergesHaveWork == Spec => []MergedHasWork
<1>1. IInv => MergedHasWork
  BY DEF IInv, RowInv
<1> QED BY <1>1, Inductive, PTL

(***************************************************************************)
(* A deleted handoff leaves exactly one tombstone and never comes back.    *)
(***************************************************************************)
THEOREM TombstoneIsOne == Spec => []OneTombstone
<1>1. IInv => OneTombstone
  BY DEF IInv, RowInv
<1> QED BY <1>1, Inductive, PTL

(***************************************************************************)
(* A reply never points at a handoff that is gone.                         *)
(***************************************************************************)
THEOREM NoReplyDangles == Spec => []NoDanglingReply
<1>1. IInv => NoDanglingReply
  BY DEF IInv, RowInv
<1> QED BY <1>1, Inductive, PTL

(***************************************************************************)
(* Among the open handoffs to one agent a dedupe key occurs once.          *)
(***************************************************************************)
THEOREM OpenKeyIsUnique == Spec => []OneOpenRowPerKey
<1>1. IInv => OneOpenRowPerKey
  BY DEF IInv, RowInv
<1> QED BY <1>1, Inductive, PTL

(***************************************************************************)
(* A token that excludes client data changes only handoffs its own agent   *)
(* sent or received, although the visibility check and the write are       *)
(* separate statements.                                                    *)
(***************************************************************************)
THEOREM RestrictedStaysWithinParty == Spec => []WithinParty
<1>1. ASSUME IInv, NEW p \in Calls, calls[p].token \in Restricted, calls[p].answer = "ok"
      PROVE  /\ calls[p].op # "create" /\ Exists(calls[p].id) =>
                  CanSee(calls[p].token, handoffs[calls[p].id].from_agent,
                         handoffs[calls[p].id].to_agent)
             /\ calls[p].op = "delete" => BuriedWithinParty(calls[p])
  <2>1. calls[p] \in WellFormed /\ NULL \notin Answers /\ NULL \notin Operations
    BY <1>1, BusAssumption DEF IInv, Shape, CallShape
  <2>2. calls[p].at = "answered" /\ calls[p].op # NULL
    BY <1>1, <2>1 DEF WellFormed, Answers
  <2> QED BY <1>1, <2>2 DEF IInv, CallInv, PartyReady
<1>2. IInv => WithinParty
  BY <1>1 DEF WithinParty
<1> QED BY <1>2, Inductive, PTL

-------------------------------------------------------------------------------
(* No handler goes back *)

(***************************************************************************)
(* A call in flight goes on, and no other record changes.                  *)
(***************************************************************************)
Onwards(p) ==
  /\ calls[p].at \in InFlight
  /\ \A q \in Calls \ {p} : calls'[q] = calls[q]
  /\ StatementsLeft(calls'[p].at) < StatementsLeft(calls[p].at)

LEMMA FewerLeft ==
  /\ \A stage \in InFlight : StatementsLeft(stage) \in 1 .. 4
  /\ StatementsLeft("answered") = 0 /\ StatementsLeft("idle") = 0
  /\ StatementsLeft("reread") = 1 /\ StatementsLeft("embed") = 1
  /\ StatementsLeft("write") = 2 /\ StatementsLeft("visible") = 4
  /\ StatementsLeft("broadcast") = 3 /\ StatementsLeft("precheck") = 3
BY DEF StatementsLeft, InFlight, Stages

LEMMA AnswerOnwards ==
  ASSUME CallShape, NEW p \in Calls, calls[p].at \in InFlight, NEW answer, NEW saw,
         Answer(p, answer, saw)
  PROVE  Onwards(p)
<1>1. calls[p] \in Call /\ p \in DOMAIN calls
  BY DEF CallShape, WellFormed
<1>2. calls'[p].at = "answered" /\ \A q \in Calls \ {p} : calls'[q] = calls[q]
  BY <1>1 DEF Answer, Call, CallShape
<1> QED BY <1>2, FewerLeft DEF Onwards

LEMMA GotoOnwards ==
  ASSUME CallShape, NEW p \in Calls, calls[p].at \in InFlight, NEW stage, Goto(p, stage),
         StatementsLeft(stage) < StatementsLeft(calls[p].at)
  PROVE  Onwards(p)
<1>1. calls[p] \in Call /\ p \in DOMAIN calls
  BY DEF CallShape, WellFormed
<1>2. calls'[p].at = stage /\ \A q \in Calls \ {p} : calls'[q] = calls[q]
  BY <1>1 DEF Goto, Call, CallShape
<1> QED BY <1>2 DEF Onwards

LEMMA ReadingOnwards ==
  ASSUME Shape, NEW p \in Calls, Reading(p)
  PROVE  Onwards(p)
<1>0. CallShape /\ calls[p].at \in InFlight
  BY ReadingEffect DEF Shape
<1>1. CASE CheckVisible(p)
  <2>1. calls[p].at = "visible"
    BY <1>1 DEF CheckVisible
  <2>2. StatementsLeft(FirstStage(calls[p].op, calls[p].agent)) \in {2, 3}
    BY FewerLeft DEF FirstStage
  <2>3. StatementsLeft(FirstStage(calls[p].op, calls[p].agent)) < StatementsLeft(calls[p].at)
    BY <2>1, <2>2, FewerLeft
  <2>4. \/ Goto(p, FirstStage(calls[p].op, calls[p].agent))
        \/ Answer(p, "not_found", NULL)
    BY <1>1 DEF CheckVisible
  <2> QED BY <1>0, <2>3, <2>4, GotoOnwards, AnswerOnwards
<1>2. CASE CheckBroadcast(p)
  <2>1. calls[p].at = "broadcast"
    BY <1>2 DEF CheckBroadcast, At
  <2>2. Goto(p, "write") \/ Answer(p, "refused", NULL)
    BY <1>2 DEF CheckBroadcast
  <2> QED BY <1>0, <2>1, <2>2, FewerLeft, GotoOnwards, AnswerOnwards
<1>3. CASE CheckMerge(p)
  <2>1. calls[p].at = "precheck"
    BY <1>3 DEF CheckMerge, At
  <2>2. Goto(p, "write") \/ \E answer, saw : Answer(p, answer, saw)
    BY <1>3 DEF CheckMerge
  <2> QED BY <1>0, <2>1, <2>2, FewerLeft, GotoOnwards, AnswerOnwards
<1>4. CASE Reread(p) \/ Embedded(p) \/ DatabaseError(p)
  <2>1. \E answer, saw : Answer(p, answer, saw)
    BY <1>4 DEF Reread, Embedded, DatabaseError
  <2> QED BY <1>0, <2>1, AnswerOnwards
<1> QED BY <1>1, <1>2, <1>3, <1>4 DEF Reading

LEMMA WriteOnwards ==
  ASSUME Shape, NEW p \in Calls,
         Accept(p) \/ Complete(p) \/ Merge(p) \/ Delete(p) \/ Create(p)
  PROVE  Onwards(p)
<1>1. /\ calls[p].at = "write" /\ calls'[p].at \in {"answered", "reread", "embed"}
      /\ Advances(p)
  BY AcceptEffect, CompleteEffect, MergeEffect, DeleteEffect, CreateEffect DEF Writes
<1> QED BY <1>1, FewerLeft DEF Onwards, Advances, InFlight, Stages

LEMMA StepOnwards ==
  ASSUME Shape, Next, NEW q \in Calls, calls[q].at \in InFlight, calls'[q] # calls[q]
  PROVE  StatementsLeft(calls'[q].at) < StatementsLeft(calls[q].at)
<1>1. CASE Ingest
  BY <1>1, IngestEffect
<1>2. ASSUME NEW p \in Calls, Ask(p)
      PROVE  q # p /\ calls'[q] = calls[q]
  <2>1. p # q
    BY <1>2 DEF Ask, AskAccept, AskComplete, AskMerge, AskDelete, AskCreate, Ready
  <2>2. PICK new : Start(p, new)
    BY <1>2, AskAsks DEF Asks
  <2> QED BY <2>1, <2>2 DEF Start, Shape, CallShape
<1>3. ASSUME NEW p \in Calls, Abandon(p)
      PROVE  Onwards(p)
  <2>1. p \in DOMAIN calls /\ q \in DOMAIN calls /\ Idle.at = "idle"
    BY DEF Shape, CallShape, Idle
  <2>2. calls[p].at \in InFlight /\ calls'[p].at = "idle"
        /\ \A r \in Calls \ {p} : calls'[r] = calls[r]
    BY <1>3, <2>1 DEF Abandon, Shape, CallShape
  <2> QED BY <2>2, FewerLeft DEF Onwards
<1>4. ASSUME NEW p \in Calls, Onwards(p)
      PROVE  StatementsLeft(calls'[q].at) < StatementsLeft(calls[q].at)
  BY <1>4 DEF Onwards
<1>5. \/ Ingest
      \/ \E p \in Calls :
           \/ Ask(p) \/ Reading(p) \/ Abandon(p)
           \/ Accept(p) \/ Complete(p) \/ Merge(p) \/ Delete(p) \/ Create(p)
  BY DEF Next, Statement, Reading
<1> QED BY <1>1, <1>2, <1>3, <1>4, <1>5, ReadingOnwards, WriteOnwards

(***************************************************************************)
(* Whatever the other calls do, a call in flight only ever comes closer to *)
(* its answer, in at most four steps: a lost race is never retried.        *)
(***************************************************************************)
THEOREM LosingIsNoRetry == Spec => NeverBack
<1>1. Shape /\ [Next]_vars =>
        [\A p \in Calls : calls[p].at \in InFlight /\ calls'[p] # calls[p] =>
           StatementsLeft(calls'[p].at) < StatementsLeft(calls[p].at)]_vars
  BY StepOnwards DEF vars
<1>2. Spec => []Shape
  BY ShapeInit, ShapeStep, PTL DEF Spec
<1> QED BY <1>1, <1>2, PTL DEF Spec, NeverBack

-------------------------------------------------------------------------------
(* The bus implements the life cycle *)

life == [i \in Ids |-> LifeOf(i)]

LEMMA LifeChanges ==
  ASSUME NEW i \in Ids, \A j \in Ids \ {i} : LifeOf(j)' = LifeOf(j)
  PROVE  life' = [life EXCEPT ![i] = LifeOf(i)']
BY DEF life

LEMMA LifeStays ==
  ASSUME \A j \in Ids : LifeOf(j)' = LifeOf(j)
  PROVE  UNCHANGED life
BY DEF life

LEMMA LifeSame ==
  ASSUME UNCHANGED <<handoffs, audit>>
  PROVE  UNCHANGED life
<1>1. \A j \in Ids : LifeOf(j)' = LifeOf(j)
  BY DEF LifeOf, Exists, Tombstoned
<1> QED BY <1>1, LifeStays

LEMMA LifeUpdated ==
  ASSUME Shape, NEW i, NEW row, Updated(i, row), UNCHANGED audit
  PROVE  /\ i \in Ids /\ LifeOf(i)' = [phase |-> row.status, holder |-> row.accepted_by,
                                       work |-> row.commit_hash, merge |-> row.merge_commit]
         /\ \A j \in Ids \ {i} : LifeOf(j)' = LifeOf(j)
BY ShapeFacts DEF Updated, LifeOf, Exists, Tombstoned

LEMMA LifeInserted ==
  ASSUME Shape, NEW i, NEW row, Inserted(i, row), UNCHANGED audit
  PROVE  /\ i \in Ids /\ LifeOf(i)' = [phase |-> row.status, holder |-> row.accepted_by,
                                       work |-> row.commit_hash, merge |-> row.merge_commit]
         /\ \A j \in Ids \ {i} : LifeOf(j)' = LifeOf(j)
BY DEF Inserted, LifeOf, Exists, Tombstoned

LEMMA LifeRemoved ==
  ASSUME IInv, NEW i, Removed(i), Bury(i)
  PROVE  /\ i \in Ids
         /\ LifeOf(i)' = [phase |-> "deleted", holder |-> NULL, work |-> NULL, merge |-> NULL]
         /\ \A j \in Ids \ {i} : LifeOf(j)' = LifeOf(j)
<1>1. Shape /\ i \in DOMAIN handoffs /\ i \in Ids /\ TypeOK
  BY ShapeFacts DEF IInv, Removed
<1>2. TombstoneOf(i).id = i
  BY DEF TombstoneOf
<1>3. \A j : Tombstoned(j)' <=> Tombstoned(j) \/ j = i
  BY <1>1, <1>2, BuryAppends DEF Tombstoned
<1>4. \A j \in Ids \ {i} : LifeOf(j)' = LifeOf(j)
  BY <1>3 DEF LifeOf, Exists, Removed, SameButParent
<1> QED BY <1>1, <1>3, <1>4 DEF LifeOf, Exists, Removed

LEMMA LifeFile ==
  ASSUME IInv, NEW i, NEW from, NEW to, NEW cat, NEW parent, NEW key, ~Tombstoned(i),
         Inserted(i, PendingRow(from, to, cat, parent, key)), UNCHANGED audit
  PROVE  Lifecycle!Next
<1> DEFINE row == PendingRow(from, to, cat, parent, key)
<1>1. /\ row.status = "pending" /\ row.accepted_by = NULL
      /\ row.commit_hash = NULL /\ row.merge_commit = NULL /\ Inserted(i, row)
  BY DEF PendingRow
<1> HIDE DEF row
<1>2. /\ i \in Ids /\ LifeOf(i)' = [phase |-> "pending", holder |-> NULL, work |-> NULL, merge |-> NULL]
      /\ life' = [life EXCEPT ![i] = LifeOf(i)']
  BY <1>1, LifeInserted, LifeChanges DEF IInv
<1>3. life[i].phase = "unfiled"
  BY <1>1, <1>2 DEF life, LifeOf, Exists, Inserted
<1>4. Lifecycle!File(i)
  BY <1>2, <1>3 DEF Lifecycle!File, Lifecycle!Become, Lifecycle!Unfiled, life
<1> QED BY <1>2, <1>4 DEF Lifecycle!Next

(***************************************************************************)
(* A written row's step in its life.                                       *)
(***************************************************************************)
LEMMA LifeWrites ==
  ASSUME IInv, NEW p \in Calls, NEW holds, NEW row, Writes(p, holds, row)
  PROVE  \/ UNCHANGED life
         \/ /\ holds /\ calls[p].id \in DOMAIN handoffs /\ calls[p].id \in Ids
            /\ life' = [life EXCEPT ![calls[p].id] =
                 [phase |-> row.status, holder |-> row.accepted_by,
                  work |-> row.commit_hash, merge |-> row.merge_commit]]
<1>1. CASE Updated(calls[p].id, row) /\ holds /\ UNCHANGED audit
  BY <1>1, LifeUpdated, LifeChanges DEF IInv, Updated
<1>2. CASE UNCHANGED <<handoffs, audit>>
  BY <1>2, LifeSame
<1> QED BY <1>1, <1>2 DEF Writes

LEMMA LifeOfRow ==
  ASSUME Shape, NEW i \in DOMAIN handoffs
  PROVE  /\ handoffs[i] \in Row /\ i \in Ids
         /\ life[i] = [phase |-> handoffs[i].status, holder |-> handoffs[i].accepted_by,
                       work |-> handoffs[i].commit_hash, merge |-> handoffs[i].merge_commit]
BY ShapeFacts DEF life, LifeOf, Exists

LEMMA LifeAccept ==
  ASSUME IInv, NEW p \in Calls, Accept(p)
  PROVE  Lifecycle!Next \/ UNCHANGED life
<1> DEFINE i == calls[p].id
           old == handoffs[i]
           row == AcceptedRow(old, calls[p].agent)
<1>1. calls[p].op = "accept" /\ Writes(p, Acceptable(old), row)
  BY AcceptEffect DEF IInv
<1>2. CASE /\ Acceptable(old) /\ i \in DOMAIN handoffs /\ i \in Ids
           /\ life' = [life EXCEPT ![i] =
                [phase |-> row.status, holder |-> row.accepted_by,
                 work |-> row.commit_hash, merge |-> row.merge_commit]]
  <2>1. /\ old \in Row /\ calls[p].agent \in Agents \cup {NULL}
        /\ life[i] = [phase |-> old.status, holder |-> old.accepted_by,
                      work |-> old.commit_hash, merge |-> old.merge_commit]
    BY <1>2, LifeOfRow DEF IInv, Shape, CallShape, WellFormed, Call
  <2>2. row.accepted_by \in Agents
    BY <1>1, <1>2, <2>1
       DEF IInv, CallInv, ClaimReady, At, Writes, IsBroadcast, Coalesce, AcceptedRow, Row, Exists
  <2>3. /\ row.status = "accepted" /\ row.commit_hash = old.commit_hash
        /\ row.merge_commit = old.merge_commit /\ old.status = "pending"
    BY <1>2, <2>1 DEF AcceptedRow, Row, Acceptable
  <2> HIDE DEF row, old, i
  <2>4. [phase |-> row.status, holder |-> row.accepted_by,
         work |-> row.commit_hash, merge |-> row.merge_commit]
          = [life[i] EXCEPT !.phase = "accepted", !.holder = row.accepted_by]
    <3> DEFINE moved == [phase |-> "accepted", holder |-> old.accepted_by, work |-> old.commit_hash, merge |-> old.merge_commit]
    <3>1. [life[i] EXCEPT !.phase = "accepted"] = moved
      BY <2>1
    <3>2. [phase |-> row.status, holder |-> row.accepted_by,
           work |-> row.commit_hash, merge |-> row.merge_commit] = [moved EXCEPT !.holder = row.accepted_by]
      BY <2>3
    <3> HIDE DEF moved
    <3> QED BY <3>1, <3>2
  <2>5. life[i].phase = "pending"
    BY <2>1, <2>2, <2>3
  <2>6. \E a \in Agents : life' = [life EXCEPT ![i] = [life[i] EXCEPT !.phase = "accepted", !.holder = a]]
    BY <1>2, <2>1, <2>2, <2>3, <2>4
  <2>7. Lifecycle!Claim(i)
    BY <2>5, <2>6 DEF Lifecycle!Claim, Lifecycle!Become, life
  <2> QED BY <1>2, <2>7 DEF Lifecycle!Next
<1> QED BY <1>1, <1>2, LifeWrites

LEMMA LifeComplete ==
  ASSUME IInv, NEW p \in Calls, Complete(p)
  PROVE  Lifecycle!Next \/ UNCHANGED life
<1> DEFINE i == calls[p].id
           old == handoffs[i]
           row == CompletedRow(old, calls[p].commit)
<1>1. calls[p].op = "complete" /\ Writes(p, Completable(old), row)
  BY CompleteEffect DEF IInv
<1>2. CASE /\ Completable(old) /\ i \in DOMAIN handoffs /\ i \in Ids
           /\ life' = [life EXCEPT ![i] =
                [phase |-> row.status, holder |-> row.accepted_by,
                 work |-> row.commit_hash, merge |-> row.merge_commit]]
  <2>1. /\ old \in Row /\ calls[p].commit \in Commits \cup {Blank, NULL}
        /\ life[i] = [phase |-> old.status, holder |-> old.accepted_by,
                      work |-> old.commit_hash, merge |-> old.merge_commit]
    BY <1>2, LifeOfRow DEF IInv, Shape, CallShape, WellFormed, Call
  <2>2. row.commit_hash \in Commits \cup {Blank, NULL}
    BY <2>1 DEF CompletedRow, Coalesce, Row
  <2>3. /\ row.status = "completed" /\ row.accepted_by = old.accepted_by
        /\ row.merge_commit = old.merge_commit /\ old.status \in {"pending", "accepted"}
    BY <1>2, <2>1 DEF CompletedRow, Row, Completable, Open
  <2> HIDE DEF row, old, i
  <2>4. [phase |-> row.status, holder |-> row.accepted_by,
         work |-> row.commit_hash, merge |-> row.merge_commit]
          = [life[i] EXCEPT !.phase = "completed", !.work = row.commit_hash]
    <3> DEFINE moved == [phase |-> "completed", holder |-> old.accepted_by, work |-> old.commit_hash, merge |-> old.merge_commit]
    <3>1. [life[i] EXCEPT !.phase = "completed"] = moved
      BY <2>1
    <3>2. [phase |-> row.status, holder |-> row.accepted_by,
           work |-> row.commit_hash, merge |-> row.merge_commit] = [moved EXCEPT !.work = row.commit_hash]
      BY <2>3
    <3> HIDE DEF moved
    <3> QED BY <3>1, <3>2
  <2>5. life[i].phase \in {"pending", "accepted"}
    BY <2>1, <2>2, <2>3
  <2>6. \E a \in Commits \cup {Blank, NULL} : life' = [life EXCEPT ![i] = [life[i] EXCEPT !.phase = "completed", !.work = a]]
    BY <1>2, <2>1, <2>2, <2>3, <2>4
  <2>7. Lifecycle!Complete(i)
    BY <2>5, <2>6 DEF Lifecycle!Complete, Lifecycle!Become, life
  <2> QED BY <1>2, <2>7 DEF Lifecycle!Next
<1> QED BY <1>1, <1>2, LifeWrites

LEMMA LifeMerge ==
  ASSUME IInv, NEW p \in Calls, Merge(p)
  PROVE  Lifecycle!Next \/ UNCHANGED life
<1> DEFINE i == calls[p].id
           old == handoffs[i]
           row == MergedRow(old, calls[p].commit)
<1>1. calls[p].op = "merge" /\ Writes(p, Mergeable(old), row)
  BY MergeEffect DEF IInv
<1>2. CASE /\ Mergeable(old) /\ i \in DOMAIN handoffs /\ i \in Ids
           /\ life' = [life EXCEPT ![i] =
                [phase |-> row.status, holder |-> row.accepted_by,
                 work |-> row.commit_hash, merge |-> row.merge_commit]]
  <2>1. /\ old \in Row /\ calls[p].commit \in Commits
        /\ life[i] = [phase |-> old.status, holder |-> old.accepted_by,
                      work |-> old.commit_hash, merge |-> old.merge_commit]
    BY <1>1, <1>2, LifeOfRow DEF IInv, Shape, CallShape, WellFormed
  <2>2. old.commit_hash \in Commits
    BY <1>1, <1>2 DEF IInv, CallInv, MergeReady, At, Writes, Exists
  <2>3. /\ row.status = "merged" /\ row.accepted_by = old.accepted_by
        /\ row.commit_hash = old.commit_hash /\ row.merge_commit = calls[p].commit
        /\ old.status = "completed"
    BY <1>2, <2>1 DEF MergedRow, Row, Mergeable
  <2> HIDE DEF row, old, i
  <2>4. [phase |-> row.status, holder |-> row.accepted_by,
         work |-> row.commit_hash, merge |-> row.merge_commit]
          = [life[i] EXCEPT !.phase = "merged", !.merge = row.merge_commit]
    <3> DEFINE moved == [phase |-> "merged", holder |-> old.accepted_by, work |-> old.commit_hash, merge |-> old.merge_commit]
    <3>1. [life[i] EXCEPT !.phase = "merged"] = moved
      BY <2>1
    <3>2. [phase |-> row.status, holder |-> row.accepted_by,
           work |-> row.commit_hash, merge |-> row.merge_commit] = [moved EXCEPT !.merge = row.merge_commit]
      BY <2>3
    <3> HIDE DEF moved
    <3> QED BY <3>1, <3>2
  <2>5. life[i].phase = "completed" /\ life[i].work \in Commits
    BY <2>1, <2>2, <2>3
  <2>6. \E a \in Commits : life' = [life EXCEPT ![i] = [life[i] EXCEPT !.phase = "merged", !.merge = a]]
    BY <1>2, <2>1, <2>2, <2>3, <2>4
  <2>7. Lifecycle!Merge(i)
    BY <2>5, <2>6 DEF Lifecycle!Merge, Lifecycle!Become, life
  <2> QED BY <1>2, <2>7 DEF Lifecycle!Next
<1> QED BY <1>1, <1>2, LifeWrites

LEMMA LifeDelete ==
  ASSUME IInv, NEW p \in Calls, Delete(p)
  PROVE  Lifecycle!Next \/ UNCHANGED life
<1> DEFINE i == calls[p].id
<1>1. CASE Removed(i) /\ Bury(i)
  <2>1. /\ i \in Ids
        /\ life' = [life EXCEPT ![i] = [phase |-> "deleted", holder |-> NULL, work |-> NULL, merge |-> NULL]]
    BY <1>1, LifeRemoved, LifeChanges
  <2>2. life[i].phase \in Statuses
    <3>1. Shape /\ i \in DOMAIN handoffs
      BY <1>1 DEF Removed, IInv
    <3>2. handoffs[i].status \in Statuses
      BY <3>1, LifeOfRow DEF Row
    <3>3. life[i] = [phase |-> handoffs[i].status, holder |-> handoffs[i].accepted_by,
                     work |-> handoffs[i].commit_hash, merge |-> handoffs[i].merge_commit]
      BY <3>1, LifeOfRow
    <3> HIDE DEF i
    <3> QED BY <3>2, <3>3
  <2>3. Lifecycle!Delete(i)
    <3>1. Lifecycle!Deleted = [phase |-> "deleted", holder |-> NULL, work |-> NULL, merge |-> NULL]
      BY DEF Lifecycle!Deleted, Lifecycle!Unfiled
    <3>2. life[i].phase \notin {"unfiled", "deleted"}
      BY <2>2 DEF Statuses
    <3> QED BY <2>1, <3>1, <3>2 DEF Lifecycle!Delete, Lifecycle!Become, life
  <2> QED BY <2>1, <2>3 DEF Lifecycle!Next
<1>2. CASE UNCHANGED <<handoffs, audit>>
  BY <1>2, LifeSame
<1> QED BY <1>1, <1>2, DeleteEffect DEF IInv

LEMMA LifeIngest ==
  ASSUME IInv, Ingest
  PROVE  Lifecycle!Next \/ UNCHANGED life
<1>1. Shape /\ UNCHANGED audit
  BY IngestEffect DEF IInv
<1>2. ASSUME NEW i \in DOMAIN handoffs, Updated(i, RepeatedRow(handoffs[i]))
      PROVE  UNCHANGED life
  <2> DEFINE row == RepeatedRow(handoffs[i])
  <2>1. /\ row.status = handoffs[i].status /\ row.accepted_by = handoffs[i].accepted_by
        /\ row.commit_hash = handoffs[i].commit_hash /\ row.merge_commit = handoffs[i].merge_commit
    BY <1>1, ShapeFacts DEF RepeatedRow, Row
  <2>2. Updated(i, row)
    BY <1>2
  <2> HIDE DEF row
  <2>3. LifeOf(i)' = LifeOf(i) /\ \A j \in Ids \ {i} : LifeOf(j)' = LifeOf(j)
    BY <1>1, <2>1, <2>2, LifeUpdated DEF LifeOf, Exists
  <2> QED BY <2>3, LifeStays
<1>3. ASSUME NEW i \in Ids \ drawn, NEW from, NEW to, NEW cat, NEW key,
             Inserted(i, PendingRow(from, to, cat, NULL, key))
      PROVE  Lifecycle!Next
  <2>1. ~Tombstoned(i)
    BY <1>1, ShapeFacts DEF Tombstoned
  <2> QED BY <1>1, <1>3, <2>1, LifeFile
<1> QED BY <1>1, <1>2, <1>3, IngestEffect

(***************************************************************************)
(* Seen from outside, the interleaved statements of any number of calls    *)
(* move every handoff through the life cycle of HandoffLifecycle one legal *)
(* step at a time.                                                         *)
(***************************************************************************)
THEOREM BusImplementsLifecycle == Spec => Implements
<1>1. Init => Lifecycle!Init
  BY DEF Init, Lifecycle!Init, Lifecycle!Unfiled, LifeOf, Exists, Tombstoned
<1>2. ASSUME IInv, [Next]_vars
      PROVE  Lifecycle!Next \/ UNCHANGED life
  <2>1. ASSUME NEW p \in Calls, Create(p)
        PROVE  Lifecycle!Next \/ UNCHANGED life
    <3>1. CASE Inserted(calls[p].id, NewRow(calls[p]))
      <4>1. ~Tombstoned(calls[p].id) /\ UNCHANGED audit
        BY <1>2, <2>1, CreateEffect DEF IInv, Shape, Reserved, Inserting
      <4> QED BY <1>2, <3>1, <4>1, LifeFile DEF NewRow
    <3>2. CASE UNCHANGED <<handoffs, audit>>
      BY <3>2, LifeSame
    <3> QED BY <1>2, <2>1, <3>1, <3>2, CreateEffect DEF IInv
  <2>2. ASSUME NEW p \in Calls, (\E new : Asks(p, new)) \/ Reading(p) \/ Abandon(p)
        PROVE  UNCHANGED life
    BY <1>2, <2>2, ReadingEffect, LifeSame DEF Asks, Abandon, table, IInv
  <2>3. CASE UNCHANGED vars
    BY <2>3, LifeSame DEF vars
  <2> QED BY <1>2, <2>1, <2>2, <2>3, Steps, LifeIngest, LifeAccept, LifeComplete, LifeMerge, LifeDelete
<1>3. IInv /\ [Next]_vars => [Lifecycle!Next]_life
  BY <1>2
<1>4. Spec => [][Lifecycle!Next]_life
  BY <1>3, Inductive, PTL DEF Spec
<1> QED BY <1>1, <1>4, PTL DEF Spec, Implements, Lifecycle!Spec, life
===============================================================================
