---------------------------- MODULE BriefingProofs ----------------------------
(***************************************************************************)
(* Proofs about Briefing and the bus it runs against.  First, HandoffBus   *)
(* implements BusMoves: what each write makes of a row is what BusMoves    *)
(* makes of the row as read, and each statement of a call is a move or     *)
(* nothing a report could see.  Then what a move leaves of the table, what *)
(* a section shows of a list, the inductive invariant and the properties.  *)
(***************************************************************************)
EXTENDS QueueView, BriefingInv, HandoffBusProofs, FiniteSetTheorems, FunctionTheorems

-------------------------------------------------------------------------------
(* HandoffBus implements BusMoves: rows as a report reads them *)

View(from, to, status, holder, cat, key, n) ==
  [from_agent |-> from, to_agent |-> to, status |-> status, accepted_by |-> holder,
   category |-> cat, in_reply_to |-> NULL, commit_hash |-> NULL, merge_commit |-> NULL,
   dedupe_key |-> key, repeat_count |-> n]

LEMMA ViewExcept ==
  ASSUME NEW f, NEW t, NEW s, NEW h, NEW c, NEW k, NEW n, NEW x,
         NEW v, v = View(f, t, s, h, c, k, n)
  PROVE  /\ [v EXCEPT !.status = x] = View(f, t, x, h, c, k, n)
         /\ [v EXCEPT !.accepted_by = x] = View(f, t, s, x, c, k, n)
         /\ [v EXCEPT !.commit_hash = NULL] = v
BY DEF View

LEMMA AsReadAccepted ==
  ASSUME NEW row \in Row, NEW a \in Agents \cup {NULL}
  PROVE  AsRead(AcceptedRow(row, a)) = Moves!AcceptedRow(AsRead(row), a)
<1> DEFINE new == AcceptedRow(row, a)
           old == AsRead(row)
           holder == Coalesce(a, row.to_agent)
<1>1. /\ new.status = "accepted" /\ new.accepted_by = holder
      /\ new.from_agent = row.from_agent /\ new.to_agent = row.to_agent
      /\ new.category = row.category /\ new.dedupe_key = row.dedupe_key
      /\ new.repeat_count = row.repeat_count
  BY DEF AcceptedRow, Row
<1>2. holder = Moves!Coalesce(a, old.to_agent)
  BY DEF Coalesce, Moves!Coalesce, AsRead
<1>3. old = View(row.from_agent, row.to_agent, old.status, row.accepted_by,
                 row.category, row.dedupe_key, row.repeat_count)
  BY DEF View, AsRead
<1> HIDE DEF new, holder, old
<1>4. AsRead(new) = View(row.from_agent, row.to_agent, "accepted", holder,
                         row.category, row.dedupe_key, row.repeat_count)
  BY <1>1 DEF View, AsRead, Closed, Open
<1>5. Moves!AcceptedRow(old, a) = [[old EXCEPT !.status = "accepted"] EXCEPT !.accepted_by = holder]
  BY <1>2 DEF Moves!AcceptedRow
<1>6. [old EXCEPT !.status = "accepted"] =
        View(row.from_agent, row.to_agent, "accepted", row.accepted_by,
             row.category, row.dedupe_key, row.repeat_count)
  BY <1>3, ViewExcept
<1>7. [[old EXCEPT !.status = "accepted"] EXCEPT !.accepted_by = holder] = AsRead(new)
  <2> DEFINE claimed == [old EXCEPT !.status = "accepted"]
  <2> HIDE DEF claimed
  <2>1. claimed = View(row.from_agent, row.to_agent, "accepted", row.accepted_by,
                       row.category, row.dedupe_key, row.repeat_count)
    BY <1>6 DEF claimed
  <2>2. [claimed EXCEPT !.accepted_by = holder] = AsRead(new)
    BY <1>4, <2>1 DEF View
  <2> QED BY <2>2 DEF claimed
<1> QED BY <1>5, <1>7 DEF new, old

LEMMA AsReadCompleted ==
  ASSUME NEW row \in Row, NEW c \in Commits \cup {Blank, NULL}
  PROVE  AsRead(CompletedRow(row, c)) = Moves!CompletedRow(AsRead(row), NULL)
<1> DEFINE new == CompletedRow(row, c)
           old == AsRead(row)
<1>1. /\ new.status = "completed" /\ new.accepted_by = row.accepted_by
      /\ new.from_agent = row.from_agent /\ new.to_agent = row.to_agent
      /\ new.category = row.category /\ new.dedupe_key = row.dedupe_key
      /\ new.repeat_count = row.repeat_count
  BY DEF CompletedRow, Row
<1>2. Moves!Coalesce(NULL, old.commit_hash) = NULL
  BY DEF Moves!Coalesce, AsRead
<1>3. old = View(row.from_agent, row.to_agent, old.status, row.accepted_by,
                 row.category, row.dedupe_key, row.repeat_count)
  BY DEF View, AsRead
<1> HIDE DEF new, old
<1>4. AsRead(new) = View(row.from_agent, row.to_agent, "completed", row.accepted_by,
                         row.category, row.dedupe_key, row.repeat_count)
  BY <1>1 DEF View, AsRead, Closed, Open
<1>5. Moves!CompletedRow(old, NULL) = [[old EXCEPT !.status = "completed"] EXCEPT !.commit_hash = NULL]
  BY <1>2 DEF Moves!CompletedRow
<1>6. [old EXCEPT !.status = "completed"] = AsRead(new)
  BY <1>3, <1>4, ViewExcept
<1>7. [AsRead(new) EXCEPT !.commit_hash = NULL] = AsRead(new)
  BY <1>4, ViewExcept
<1> QED BY <1>5, <1>6, <1>7 DEF new, old

(***************************************************************************)
(* A merge and the completion of what is completed are invisible.          *)
(***************************************************************************)
LEMMA AsReadMerged ==
  ASSUME NEW row \in Row, NEW c \in Commits, row.status = "completed"
  PROVE  AsRead(MergedRow(row, c)) = AsRead(row)
<1>1. MergedRow(row, c) \in Row
  BY RowsTyped
<1>2. MergedRow(row, c) = [row EXCEPT !.status = "merged", !.merge_commit = c]
  BY DEF MergedRow
<1> QED BY <1>1, <1>2 DEF AsRead, Row, Closed, Open

LEMMA AsReadRepeated ==
  ASSUME NEW row \in Row, row.repeat_count < MaxRepeat
  PROVE  AsRead(RepeatedRow(row)) = Moves!RepeatedRow(AsRead(row))
<1>1. RepeatedRow(row) \in Row
  BY RowsTyped
<1>2. RepeatedRow(row) = [row EXCEPT !.repeat_count = row.repeat_count + 1]
  BY DEF RepeatedRow
<1> QED
  BY <1>1, <1>2 DEF AsRead, Row, Closed, Moves!RepeatedRow

LEMMA AsReadPending ==
  ASSUME NEW from \in Agents, NEW to \in Agents \cup {NULL}, NEW cat \in Spellings,
         NEW parent \in Ids \cup {NULL}, NEW key \in Keys \cup {NULL}
  PROVE  AsRead(PendingRow(from, to, cat, parent, key)) = Moves!PendingRow(from, to, cat, NULL, key)
<1>1. PendingRow(from, to, cat, parent, key) \in Row
  BY PendingRowTyped
<1> QED
  BY <1>1 DEF AsRead, Closed, Open, PendingRow, Moves!PendingRow

-------------------------------------------------------------------------------
(* The table as it is read *)

LEMMA QueueIs ==
  /\ DOMAIN Queue = DOMAIN handoffs
  /\ \A i \in DOMAIN handoffs : Queue[i] = AsRead(handoffs[i])
BY DEF Queue

LEMMA QueueSame ==
  ASSUME UNCHANGED <<handoffs, audit>>
  PROVE  UNCHANGED Moves!vars
<1>1. Known' = Known
  BY DEF Known, Exists, Tombstoned
<1>2. Queue' = Queue
  BY DEF Queue
<1> QED BY <1>1, <1>2 DEF Moves!vars

LEMMA QueueUpdated ==
  ASSUME NEW i, NEW row, Updated(i, row), UNCHANGED audit
  PROVE  /\ i \in DOMAIN Queue /\ Known' = Known
         /\ Queue' = [Queue EXCEPT ![i] = AsRead(row)]
<1>1. Known' = Known
  BY DEF Known, Exists, Tombstoned, Updated
<1>2. \A j \in DOMAIN handoffs' : Queue'[j] = IF j = i THEN AsRead(row) ELSE Queue[j]
  BY DEF Queue, Updated
<1>3. Queue' = [j \in DOMAIN Queue |-> IF j = i THEN AsRead(row) ELSE Queue[j]]
  BY <1>2 DEF Queue, Updated
<1> QED BY <1>1, <1>3 DEF Updated, Queue

LEMMA QueueInserted ==
  ASSUME NEW i, NEW row, Inserted(i, row), UNCHANGED audit
  PROVE  /\ Known' = Known \cup {i}
         /\ Moves!Insert(i, AsRead(row))
<1>1. Known' = Known \cup {i}
  BY DEF Known, Exists, Tombstoned, Inserted
<1>2. \A j \in DOMAIN handoffs' : Queue'[j] = IF j = i THEN AsRead(row) ELSE Queue[j]
  BY DEF Queue, Inserted
<1>3. Queue' = [j \in DOMAIN Queue \cup {i} |-> IF j = i THEN AsRead(row) ELSE Queue[j]]
  BY <1>2 DEF Queue, Inserted
<1> QED BY <1>1, <1>3 DEF Moves!Insert

(***************************************************************************)
(* No reply is read, so none is seen to lose its parent.                   *)
(***************************************************************************)
LEMMA QueueRemoved ==
  ASSUME Shape, NEW i, Removed(i), Bury(i)
  PROVE  i \in DOMAIN Queue /\ Known' = Known /\ Moves!Remove(i)
<1>1. /\ i \in DOMAIN handoffs /\ i \in Ids /\ i # NULL
      /\ DOMAIN handoffs' = DOMAIN handoffs \ {i}
  BY ShapeFacts, BusAssumption DEF Removed
<1>2. \A j : Tombstoned(j)' <=> Tombstoned(j) \/ j = i
  <2>1. TombstoneOf(i).id = i
    BY DEF TombstoneOf
  <2> QED BY <1>1, <2>1, BuryAppends DEF Tombstoned, Shape
<1>3. Known' = Known
  BY <1>1, <1>2 DEF Known, Exists
<1>4. ASSUME NEW j \in DOMAIN handoffs'
      PROVE  Queue'[j] = Queue[j] /\ Queue[j].in_reply_to # i
  BY <1>1 DEF Queue, AsRead, Closed, Removed, SameButParent
<1>5. Queue' = [j \in DOMAIN Queue \ {i} |->
                  IF Queue[j].in_reply_to = i
                  THEN [Queue[j] EXCEPT !.in_reply_to = NULL]
                  ELSE Queue[j]]
  <2>1. DOMAIN Queue' = DOMAIN handoffs' /\ DOMAIN Queue = DOMAIN handoffs
    BY DEF Queue
  <2>2. Queue' = [j \in DOMAIN handoffs' |-> Queue'[j]]
    BY DEF Queue
  <2> QED BY <1>1, <1>4, <2>1, <2>2
<1> QED BY <1>1, <1>3, <1>5 DEF Queue, Moves!Remove

-------------------------------------------------------------------------------
(* Each statement is a move, or is not seen *)

Move == Moves!Files \/ Moves!Claims \/ Moves!Completes \/ Moves!Deletes \/ Moves!Ingest

LEMMA AcceptSeen ==
  ASSUME IInv, NEW p \in Calls, Accept(p)
  PROVE  Move \/ UNCHANGED Moves!vars
<1> DEFINE i == calls[p].id
           agent == calls[p].agent
<1>1. /\ Writes(p, Acceptable(handoffs[i]), AcceptedRow(handoffs[i], agent))
      /\ calls[p].op = "accept" /\ calls[p].at = "write" /\ agent \in Agents \cup {NULL}
  BY AcceptEffect DEF IInv, Shape, CallShape, WellFormed, Call, Writes
<1>2. CASE UNCHANGED <<handoffs, audit>>
  BY <1>2, QueueSame
<1>3. CASE /\ i \in DOMAIN handoffs /\ Acceptable(handoffs[i]) /\ UNCHANGED audit
           /\ Updated(i, AcceptedRow(handoffs[i], agent))
  <2>1. handoffs[i] \in Row /\ handoffs[i].status = "pending"
    BY <1>3, ShapeFacts DEF IInv, Acceptable
  <2>2. handoffs[i].to_agent = NULL => agent # NULL
    BY <1>1, <1>3 DEF IInv, CallInv, ClaimReady, At, Exists, IsBroadcast
  <2> HIDE DEF i, agent
  <2>3. /\ i \in DOMAIN Queue /\ Known' = Known
        /\ Moves!Update(i, Moves!AcceptedRow(Queue[i], agent))
    BY <1>1, <1>3, <2>1, QueueUpdated, AsReadAccepted, QueueIs DEF Moves!Update
  <2>4. Queue[i].status = "pending" /\ Moves!IsBroadcast(Queue[i]) => agent # NULL
    BY <1>3, <2>1, <2>2, QueueIs DEF AsRead, Closed, Open, Moves!IsBroadcast
  <2>5. Queue[i].status = "pending"
    BY <1>3, <2>1, QueueIs DEF AsRead, Closed, Open
  <2>6. Moves!Claims
    BY <1>1, <2>3, <2>4, <2>5 DEF Moves!Claims
  <2> QED BY <2>6 DEF Move
<1> QED BY <1>1, <1>2, <1>3 DEF Writes, Exists

LEMMA CompleteSeen ==
  ASSUME IInv, NEW p \in Calls, Complete(p)
  PROVE  Move \/ UNCHANGED Moves!vars
<1> DEFINE i == calls[p].id
           commit == calls[p].commit
<1>1. /\ Writes(p, Completable(handoffs[i]), CompletedRow(handoffs[i], commit))
      /\ commit \in Commits \cup {Blank, NULL}
  BY CompleteEffect DEF IInv, Shape, CallShape, WellFormed, Call
<1>2. CASE UNCHANGED <<handoffs, audit>>
  BY <1>2, QueueSame
<1>3. CASE /\ i \in DOMAIN handoffs /\ Completable(handoffs[i]) /\ UNCHANGED audit
           /\ Updated(i, CompletedRow(handoffs[i], commit))
  <2>1. handoffs[i] \in Row /\ handoffs[i].status \in Open
    BY <1>3, ShapeFacts DEF IInv, Completable
  <2> HIDE DEF i, commit
  <2>2. /\ i \in DOMAIN Queue /\ Known' = Known
        /\ Moves!Update(i, Moves!CompletedRow(Queue[i], NULL))
    BY <1>1, <1>3, <2>1, QueueUpdated, AsReadCompleted, QueueIs DEF Moves!Update
  <2>3. ~Moves!Closed(Queue[i])
    BY <1>3, <2>1, QueueIs DEF AsRead, Closed, Open, Moves!Closed, Moves!Open
  <2>4. Moves!Completes
    BY <2>2, <2>3 DEF Moves!Completes
  <2> QED BY <2>4 DEF Move
<1> QED BY <1>1, <1>2, <1>3 DEF Writes, Exists

LEMMA MergeSeen ==
  ASSUME IInv, NEW p \in Calls, Merge(p)
  PROVE  UNCHANGED Moves!vars
<1> DEFINE i == calls[p].id
           commit == calls[p].commit
<1>1. /\ Writes(p, Mergeable(handoffs[i]), MergedRow(handoffs[i], commit))
      /\ commit \in Commits
  BY MergeEffect DEF IInv, Shape, CallShape, WellFormed
<1>2. CASE UNCHANGED <<handoffs, audit>>
  BY <1>2, QueueSame
<1>3. CASE /\ i \in DOMAIN handoffs /\ Mergeable(handoffs[i]) /\ UNCHANGED audit
           /\ Updated(i, MergedRow(handoffs[i], commit))
  <2>1. handoffs[i] \in Row /\ handoffs[i].status = "completed"
    BY <1>3, ShapeFacts DEF IInv, Mergeable
  <2> HIDE DEF i, commit
  <2>2. Queue' = [Queue EXCEPT ![i] = Queue[i]] /\ Known' = Known
    BY <1>1, <1>3, <2>1, QueueUpdated, AsReadMerged, QueueIs
  <2>3. Queue' = Queue
    BY <2>2 DEF Queue
  <2> QED BY <2>2, <2>3 DEF Moves!vars
<1> QED BY <1>1, <1>2, <1>3 DEF Writes, Exists

LEMMA DeleteSeen ==
  ASSUME IInv, NEW p \in Calls, Delete(p)
  PROVE  Move \/ UNCHANGED Moves!vars
<1>1. CASE UNCHANGED <<handoffs, audit>>
  BY <1>1, QueueSame
<1>2. CASE Removed(calls[p].id) /\ Bury(calls[p].id)
  <2>1. Moves!Deletes
    BY <1>2, QueueRemoved DEF IInv, Moves!Deletes
  <2> QED BY <2>1 DEF Move
<1> QED BY <1>1, <1>2, DeleteEffect DEF IInv

LEMMA CreateSeen ==
  ASSUME IInv, NEW p \in Calls, Create(p)
  PROVE  Move \/ UNCHANGED Moves!vars
<1> DEFINE c == calls[p]
<1>1. c.op = "create" /\ c.at = "write" /\ UNCHANGED audit
  BY CreateEffect DEF IInv
<1>2. CASE UNCHANGED handoffs
  BY <1>1, <1>2, QueueSame
<1>3. CASE Inserted(c.id, NewRow(c))
  <2>1. /\ c.id \in Ids \ Known /\ c.agent \in Agents /\ c.to \in Agents \cup {NULL}
        /\ c.category \in Spellings /\ c.parent \in Ids \cup {NULL}
    BY <1>1, <1>3
       DEF IInv, Shape, CallShape, WellFormed, Call, Reserved, Inserting, Known, Inserted
  <2>2. AsRead(NewRow(c)) = Moves!PendingRow(c.agent, c.to, c.category, NULL, NULL)
    BY <2>1, AsReadPending DEF NewRow
  <2>3. Known' = Known \cup {c.id} /\ Moves!Insert(c.id, AsRead(NewRow(c)))
    BY <1>1, <1>3, QueueInserted
  <2> HIDE DEF c
  <2>4. Moves!Files
    <3>1. /\ Moves!Insert(c.id, Moves!PendingRow(c.agent, c.to, c.category, NULL, NULL))
          /\ Known' = Known \cup {c.id}
      BY <2>2, <2>3
    <3>2. \E i \in Ids \ Known, from \in Agents, to \in Agents \cup {NULL}, cat \in Spellings :
            /\ Moves!Insert(i, Moves!PendingRow(from, to, cat, NULL, NULL))
            /\ Known' = Known \cup {i}
      <4> USE <2>1
      <4> WITNESS c.id \in Ids \ Known, c.agent \in Agents, c.to \in Agents \cup {NULL},
                  c.category \in Spellings
      <4> QED BY <3>1
    <3> QED BY <3>2 DEF Moves!Files
  <2> QED BY <2>4 DEF Move
<1> QED BY <1>2, <1>3, CreateEffect DEF IInv

LEMMA SuppressesSeen ==
  ASSUME Shape, NEW to, NEW key
  PROVE  {i \in DOMAIN handoffs : Suppresses(handoffs[i], to, key)} =
           {i \in DOMAIN Queue : Moves!Suppresses(Queue[i], to, key)}
<1>1. ASSUME NEW i \in DOMAIN handoffs
      PROVE  Suppresses(handoffs[i], to, key) <=> Moves!Suppresses(Queue[i], to, key)
  BY QueueIs DEF AsRead, Closed, Open, Suppresses, Moves!Suppresses, Moves!Open
<1> QED BY <1>1, QueueIs

LEMMA IngestSeen ==
  ASSUME IInv, Ingest
  PROVE  Move
<1>1. PICK from \in Agents, to \in Agents, cat \in FilingCategories, key \in Keys \cup {NULL} :
        FileMachine(from, to, Lower(cat), key)
  BY DEF Ingest
<1>2. Shape /\ TypeOK /\ Lower(cat) \in Spellings
  BY DEF IInv, Shape, Lower, Spellings
<1> DEFINE same == {i \in DOMAIN handoffs : Suppresses(handoffs[i], to, key)}
           seen == {i \in DOMAIN Queue : Moves!Suppresses(Queue[i], to, key)}
<1>3. same = seen
  BY <1>2, SuppressesSeen
<1>4. Moves!FileMachine(from, to, Lower(cat), key)
  <2>1. CASE same # {}
    <3>1. PICK i \in same : /\ handoffs[i].repeat_count < MaxRepeat
                            /\ Update(i, RepeatedRow(handoffs[i])) /\ UNCHANGED audit
      BY <1>1, <2>1 DEF FileMachine, RepeatFits
    <3>2. i \in DOMAIN handoffs /\ handoffs[i] \in Row
      BY <1>2 DEF TypeOK
    <3>3. Updated(i, RepeatedRow(handoffs[i]))
      BY <1>2, <3>1, <3>2, RowsTyped, UpdateUpdates
    <3>4. /\ Moves!RepeatFits(Queue[i]) /\ Known' = Known
          /\ Moves!Update(i, Moves!RepeatedRow(Queue[i]))
      BY <3>1, <3>2, <3>3, QueueUpdated, QueueIs, AsReadRepeated
         DEF AsRead, Moves!RepeatFits, Moves!Update
    <3>5. i \in seen /\ seen # {}
      BY <1>3, <3>1
    <3> HIDE DEF same, seen
    <3>6. \E j \in seen : /\ Moves!RepeatFits(Queue[j]) /\ Known' = Known
                          /\ Moves!Update(j, Moves!RepeatedRow(Queue[j]))
      BY <3>4, <3>5
    <3> QED BY <3>5, <3>6 DEF Moves!FileMachine, seen
  <2>2. CASE same = {}
    <3>1. PICK i \in Ids \ drawn : /\ Insert(i, PendingRow(from, to, Lower(cat), NULL, key))
                                   /\ UNCHANGED audit
      BY <1>1, <2>2 DEF FileMachine
    <3>2. i \in Ids \ Known
      BY <1>2, <3>1 DEF Shape, IdsDrawn, Known, Exists, Tombstoned
    <3>3. PendingRow(from, to, Lower(cat), NULL, key) \in Row
      BY <1>2, PendingRowTyped
    <3>4. Inserted(i, PendingRow(from, to, Lower(cat), NULL, key))
      BY <1>2, <3>1, <3>2, <3>3, InsertInserts DEF Known
    <3>5. AsRead(PendingRow(from, to, Lower(cat), NULL, key)) =
            Moves!PendingRow(from, to, Lower(cat), NULL, key)
      BY <1>2, AsReadPending
    <3>6. /\ Known' = Known \cup {i}
          /\ Moves!Insert(i, Moves!PendingRow(from, to, Lower(cat), NULL, key))
      BY <3>1, <3>4, <3>5, QueueInserted
    <3>7. seen = {}
      BY <1>3, <2>2
    <3> HIDE DEF same, seen
    <3> QED BY <3>2, <3>6, <3>7 DEF Moves!FileMachine, seen
  <2> QED BY <2>1, <2>2
<1>5. Moves!Lower(cat) = Lower(cat)
  BY DEF Lower, Moves!Lower
<1>6. Moves!Ingest
  BY <1>4, <1>5 DEF Ingest, Moves!Ingest, Filing, Moves!Filing
<1> QED BY <1>6 DEF Move

LEMMA MovesStep ==
  ASSUME IInv, [Next]_vars
  PROVE  Move \/ UNCHANGED Moves!vars
<1>1. CASE Ingest
  BY <1>1, IngestSeen
<1>2. ASSUME NEW p \in Calls, NEW new, Asks(p, new)
      PROVE  UNCHANGED Moves!vars
  BY <1>2, QueueSame DEF Asks
<1>3. ASSUME NEW p \in Calls, Reading(p) \/ Abandon(p)
      PROVE  UNCHANGED Moves!vars
  <2>1. UNCHANGED <<handoffs, audit>>
    BY <1>3, ReadingEffect DEF IInv, Abandon, table
  <2> QED BY <2>1, QueueSame
<1>4. CASE UNCHANGED vars
  BY <1>4, QueueSame DEF vars
<1> QED
  BY <1>1, <1>2, <1>3, <1>4, Steps, AcceptSeen, CompleteSeen, MergeSeen, DeleteSeen, CreateSeen

(***************************************************************************)
(* HandoffBus implements BusMoves under the mapping of QueueView: what a   *)
(* report is checked against in Briefing is all that the bus can do to it. *)
(***************************************************************************)
THEOREM BusMakesMoves == Spec => ReportsSeeMoves
<1>1. Init => Moves!Init
  <2> SUFFICES ASSUME Init
               PROVE  Moves!Init
    OBVIOUS
  <2>1. Known = {}
    BY DEF Init, Known, Exists, Tombstoned
  <2>2. Queue = [i \in {} |-> NULL]
    BY DEF Init, Queue
  <2> QED BY <2>1, <2>2 DEF Moves!Init, Idle, Moves!Idle
<1>2. IInv /\ [Next]_vars => Move \/ UNCHANGED Moves!vars
  BY MovesStep
<1> QED BY <1>1, <1>2, Inductive, PTL DEF Spec, ReportsSeeMoves, Moves!MovesSpec, Move

-------------------------------------------------------------------------------
(* What a move leaves of the table *)

LEMMA TableShape ==
  ASSUME TableOK
  PROVE  Shape
<1> USE BusAssumption
<1>1. Idle \in WellFormed /\ Idle.op = NULL
  BY DEF WellFormed, Call, Idle, Stages, Operations, Answers
<1> HIDE DEF Idle
<1>2. TypeOK /\ CallShape
  BY <1>1 DEF TableOK, CallShape
<1>3. \A p \in Calls : ~Inserting(p)
  BY <1>1 DEF TableOK, Inserting, Operations
<1>4. IdsDrawn /\ Reserved
  BY <1>1, <1>3 DEF TableOK, IdsDrawn, Reserved
<1> QED BY <1>2, <1>4 DEF Shape

(* Parties are for good, and an id is filed once, by a machine to somebody. *)
TableStep(machine) ==
  /\ TableOK'
  /\ \A i \in DOMAIN handoffs \cap DOMAIN handoffs' :
       /\ handoffs'[i].from_agent = handoffs[i].from_agent
       /\ handoffs'[i].to_agent = handoffs[i].to_agent
  /\ \/ DOMAIN handoffs' \subseteq DOMAIN handoffs /\ UNCHANGED drawn
     \/ \E i \in Ids \ drawn :
          /\ drawn' = drawn \cup {i} /\ DOMAIN handoffs' = DOMAIN handoffs \cup {i}
          /\ machine => handoffs'[i].to_agent # NULL

LEMMA TableFrom ==
  ASSUME TableOK, UNCHANGED <<audit, calls>>, handoffs' \in [DOMAIN handoffs' -> Row],
         DOMAIN handoffs' \subseteq drawn', drawn' \subseteq Ids, IsFiniteSet(drawn')
  PROVE  TableOK'
BY DEF TableOK, TypeOK

LEMMA UpdateSteps ==
  ASSUME TableOK, NEW i \in DOMAIN handoffs, NEW row, Updated(i, row),
         UNCHANGED <<audit, drawn, calls>>, NEW machine,
         row.from_agent = handoffs[i].from_agent, row.to_agent = handoffs[i].to_agent
  PROVE  TableStep(machine)
<1>1. TableOK'
  BY TableFrom DEF Updated, TableOK, TypeOK
<1> QED BY <1>1 DEF Updated, TableStep

LEMMA InsertSteps ==
  ASSUME TableOK, NEW i \in Ids \ drawn, NEW row, Inserted(i, row),
         drawn' = drawn \cup {i}, UNCHANGED <<audit, calls>>,
         NEW machine, machine => row.to_agent # NULL
  PROVE  TableStep(machine)
<1>1. TableOK'
  <2>1. IsFiniteSet(drawn')
    BY FS_AddElement DEF TableOK
  <2>2. DOMAIN handoffs' \subseteq drawn' /\ drawn' \subseteq Ids
    BY DEF Inserted, TableOK, TypeOK
  <2> QED BY <2>1, <2>2, TableFrom DEF Inserted
<1> QED BY <1>1 DEF Inserted, TableStep

LEMMA MoveSteps ==
  ASSUME TableOK
  PROVE  /\ Files \/ Claims \/ Completes \/ Deletes => TableStep(FALSE)
         /\ Ingest => TableStep(TRUE)
<1>0. TypeOK /\ DOMAIN handoffs \subseteq drawn /\ \A i \in DOMAIN handoffs : handoffs[i] \in Row
  BY DEF TableOK, TypeOK
<1>1. ASSUME Files
      PROVE  TableStep(FALSE)
  <2>1. PICK i \in Ids \ drawn, from \in Agents, to \in Agents \cup {NULL}, cat \in Categories :
          /\ Insert(i, PendingRow(from, to, cat, NULL, NULL))
          /\ drawn' = drawn \cup {i}
    BY <1>1 DEF Files
  <2>2. PendingRow(from, to, cat, NULL, NULL) \in Row
    BY PendingRowTyped, BusAssumption
  <2>3. Inserted(i, PendingRow(from, to, cat, NULL, NULL))
    BY <1>0, <2>1, <2>2, InsertInserts DEF Exists
  <2> QED BY <1>1, <2>1, <2>3, InsertSteps DEF Files
<1>2. ASSUME Claims
      PROVE  TableStep(FALSE)
  <2>1. PICK i \in DOMAIN handoffs, agent \in Agents \cup {NULL} :
          Update(i, AcceptedRow(handoffs[i], agent))
    BY <1>2 DEF Claims
  <2> DEFINE row == AcceptedRow(handoffs[i], agent)
  <2>2. /\ row \in Row
        /\ row.from_agent = handoffs[i].from_agent /\ row.to_agent = handoffs[i].to_agent
    <3>1. handoffs[i] \in Row
      BY <1>0
    <3> QED BY <3>1, RowsTyped DEF AcceptedRow, Row
  <2> HIDE DEF row
  <2>3. Updated(i, row)
    BY <1>0, <2>1, <2>2, UpdateUpdates DEF row
  <2> QED BY <1>2, <2>2, <2>3, UpdateSteps DEF Claims
<1>3. ASSUME Completes
      PROVE  TableStep(FALSE)
  <2>1. PICK i \in DOMAIN handoffs : Update(i, CompletedRow(handoffs[i], NULL))
    BY <1>3 DEF Completes
  <2> DEFINE row == CompletedRow(handoffs[i], NULL)
  <2>2. /\ row \in Row
        /\ row.from_agent = handoffs[i].from_agent /\ row.to_agent = handoffs[i].to_agent
    <3>1. handoffs[i] \in Row
      BY <1>0
    <3> QED BY <3>1, RowsTyped DEF CompletedRow, Row
  <2> HIDE DEF row
  <2>3. Updated(i, row)
    BY <1>0, <2>1, <2>2, UpdateUpdates DEF row
  <2> QED BY <1>3, <2>2, <2>3, UpdateSteps DEF Completes
<1>4. ASSUME Deletes
      PROVE  TableStep(FALSE)
  <2>1. PICK i \in DOMAIN handoffs : Remove(i)
    BY <1>4 DEF Deletes
  <2>2. Removed(i)
    BY <1>0, <2>1, RemoveRemoves
  <2>3. TableOK'
    BY <1>0, <1>4, <2>2, TableFrom DEF Removed, Deletes, TableOK, TypeOK
  <2> QED BY <1>4, <2>2, <2>3 DEF Removed, SameButParent, TableStep, Deletes
<1>5. ASSUME Ingest
      PROVE  TableStep(TRUE)
  <2>1. UNCHANGED <<audit, calls>>
    BY <1>5, TableShape, IngestEffect
  <2>2. CASE /\ UNCHANGED drawn
             /\ \E i \in DOMAIN handoffs : Updated(i, RepeatedRow(handoffs[i]))
    <3>1. PICK i \in DOMAIN handoffs : Updated(i, RepeatedRow(handoffs[i]))
      BY <2>2
    <3> DEFINE row == RepeatedRow(handoffs[i])
    <3>2. row.from_agent = handoffs[i].from_agent /\ row.to_agent = handoffs[i].to_agent
      <4>1. handoffs[i] \in Row
        BY <1>0
      <4> QED BY <4>1 DEF RepeatedRow, Row
    <3> HIDE DEF row
    <3> QED BY <2>1, <2>2, <3>1, <3>2, UpdateSteps DEF row
  <2>3. CASE \E i \in Ids \ drawn, from, to \in Agents, cat \in Spellings, key \in Keys \cup {NULL} :
               /\ drawn' = drawn \cup {i}
               /\ Inserted(i, PendingRow(from, to, cat, NULL, key))
    <3>1. PICK i \in Ids \ drawn, from \in Agents, to \in Agents, cat \in Spellings,
               key \in Keys \cup {NULL} :
            drawn' = drawn \cup {i} /\ Inserted(i, PendingRow(from, to, cat, NULL, key))
      BY <2>3
    <3>2. PendingRow(from, to, cat, NULL, key).to_agent # NULL
      BY BusAssumption DEF PendingRow
    <3> QED BY <2>1, <3>1, <3>2, InsertSteps
  <2> QED BY <1>5, <2>2, <2>3, TableShape, IngestEffect
<1> QED BY <1>1, <1>2, <1>3, <1>4, <1>5

-------------------------------------------------------------------------------
(* What a section shows of a list *)

(* A list whose order tells any two rows apart. *)
Ranked(rows, ids) ==
  /\ IsFiniteSet(ids)
  /\ \A i \in ids : rows[i].rank \in Nat
  /\ \A i, j \in ids : i # j => rows[i].rank # rows[j].rank

(***************************************************************************)
(* No row is ahead of itself, and what is ahead of an older row is ahead   *)
(* of a younger one.                                                       *)
(***************************************************************************)
LEMMA AheadFacts ==
  ASSUME NEW rows, NEW ids, Ranked(rows, ids), NEW i \in ids
  PROVE  /\ IsFiniteSet(Ahead(rows, ids, i))
         /\ Cardinality(Ahead(rows, ids, i)) \in 0 .. Cardinality(ids) - 1
         /\ \A j \in ids : rows[i].rank < rows[j].rank =>
              Cardinality(Ahead(rows, ids, i)) < Cardinality(Ahead(rows, ids, j))
<1>1. ASSUME NEW S \in SUBSET ids, NEW T \in SUBSET S, T # S
      PROVE  /\ IsFiniteSet(T) /\ Cardinality(T) \in Nat /\ Cardinality(S) \in Nat
             /\ Cardinality(T) < Cardinality(S)
  <2>1. IsFiniteSet(S)
    BY FS_Subset DEF Ranked
  <2>2. IsFiniteSet(T) /\ Cardinality(T) <= Cardinality(S) /\ Cardinality(T) # Cardinality(S)
    BY <1>1, <2>1, FS_Subset
  <2> QED BY <2>1, <2>2, FS_CardinalityType
<1>2. Ahead(rows, ids, i) \subseteq ids /\ i \notin Ahead(rows, ids, i)
  BY DEF Ahead, OldestFirst, Ranked
<1>3. /\ IsFiniteSet(Ahead(rows, ids, i))
      /\ Cardinality(Ahead(rows, ids, i)) \in 0 .. Cardinality(ids) - 1
  <2>1. Ahead(rows, ids, i) # ids
    BY <1>2
  <2>2. /\ IsFiniteSet(Ahead(rows, ids, i))
        /\ Cardinality(Ahead(rows, ids, i)) \in Nat /\ Cardinality(ids) \in Nat
        /\ Cardinality(Ahead(rows, ids, i)) < Cardinality(ids)
    BY <1>1, <1>2, <2>1
  <2> QED BY <2>2
<1>4. ASSUME NEW j \in ids, rows[i].rank < rows[j].rank
      PROVE  Cardinality(Ahead(rows, ids, i)) < Cardinality(Ahead(rows, ids, j))
  <2>1. /\ Ahead(rows, ids, j) \subseteq ids /\ Ahead(rows, ids, i) \subseteq Ahead(rows, ids, j)
        /\ i \in Ahead(rows, ids, j)
    BY <1>4 DEF Ahead, OldestFirst, Ranked
  <2> QED BY <1>1, <1>2, <2>1
<1> QED BY <1>3, <1>4

(***************************************************************************)
(* A section that is not cut short titles its whole class.                 *)
(***************************************************************************)
LEMMA SectionWhole ==
  ASSUME NEW rows, NEW ids, Ranked(rows, ids), ~Section(rows, ids).truncated
  PROVE  Section(rows, ids).items = ids
<1>1. Cardinality(ids) <= Cap /\ Cardinality(ids) \in Nat /\ Cap \in Nat
  <2>1. Cardinality(ids) \in Nat /\ Cap \in Nat
    BY BriefingAssumption, FS_CardinalityType DEF Ranked
  <2>2. ~(Cardinality(ids) > Cap)
    BY DEF Section
  <2> QED BY <2>1, <2>2
<1>2. ASSUME NEW i \in ids
      PROVE  Cardinality(Ahead(rows, ids, i)) < Cap
  BY <1>1, AheadFacts
<1> QED BY <1>2 DEF Section

(***************************************************************************)
(* A section keeps the head of its class.                                  *)
(***************************************************************************)
LEMMA SectionOldest ==
  ASSUME NEW rows, NEW ids, Ranked(rows, ids), NEW i \in ids, NEW j \in Section(rows, ids).items,
         rows[i].rank < rows[j].rank
  PROVE  i \in Section(rows, ids).items
<1>1. j \in ids /\ Cardinality(Ahead(rows, ids, j)) < Cap
  BY DEF Section
<1>2. /\ Cardinality(Ahead(rows, ids, i)) < Cardinality(Ahead(rows, ids, j))
      /\ Cardinality(Ahead(rows, ids, i)) \in Int /\ Cardinality(Ahead(rows, ids, j)) \in Int
  BY <1>1, AheadFacts
<1>3. Cardinality(Ahead(rows, ids, i)) < Cap
  BY <1>1, <1>2, BriefingAssumption
<1> QED BY <1>3 DEF Section

(***************************************************************************)
(* Rows have different numbers of rows ahead, so no more than Cap of them  *)
(* are titled: a section is cut short if and only if it titles fewer rows  *)
(* than it counts.                                                         *)
(***************************************************************************)
LEMMA SectionCut ==
  ASSUME NEW rows, NEW ids, Ranked(rows, ids)
  PROVE  LET section == Section(rows, ids)
         IN /\ section.total = Cardinality(ids) /\ section.items \subseteq ids
            /\ Cardinality(section.items) <= Cap
            /\ section.truncated <=> section.total > Cardinality(section.items)
<1> DEFINE items == Section(rows, ids).items
           place == [i \in items |-> Cardinality(Ahead(rows, ids, i))]
<1>1. /\ items \subseteq ids /\ Section(rows, ids).total = Cardinality(ids)
      /\ Section(rows, ids).truncated <=> Cardinality(ids) > Cap
      /\ \A i \in items : Cardinality(Ahead(rows, ids, i)) < Cap
  BY DEF Section, Total
<1>2. Cap \in Nat \ {0} /\ Cardinality(ids) \in Nat
  BY BriefingAssumption, FS_CardinalityType DEF Ranked
<1> HIDE DEF items
<1>3. IsFiniteSet(items) /\ Cardinality(items) \in Nat
  BY <1>1, FS_Subset, FS_CardinalityType DEF Ranked
<1>4. place \in Injection(items, 0 .. Cap - 1)
  <2>1. \A i \in items : place[i] \in 0 .. Cap - 1
    BY <1>1, <1>2, AheadFacts
  <2>2. ASSUME NEW i \in items, NEW j \in items, i # j
        PROVE  place[i] # place[j]
    <3>1. /\ i \in ids /\ j \in ids
          /\ rows[i].rank \in Nat /\ rows[j].rank \in Nat /\ rows[i].rank # rows[j].rank
      BY <1>1, <2>2 DEF Ranked
    <3>2. rows[i].rank < rows[j].rank \/ rows[j].rank < rows[i].rank
      BY <3>1
    <3>3. place[i] < place[j] \/ place[j] < place[i]
      BY <3>1, <3>2, AheadFacts
    <3> QED BY <2>1, <3>3
  <2> QED BY <2>1, <2>2 DEF Injection, IsInjective
<1>5. Cardinality(items) <= Cap
  <2>1. IsFiniteSet(0 .. Cap - 1) /\ Cardinality(0 .. Cap - 1) = Cap
    BY <1>2, FS_Interval
  <2> HIDE DEF place
  <2> QED BY <1>4, <2>1, FS_Injection
<1>6. Section(rows, ids).truncated <=> Cardinality(ids) > Cardinality(items)
  <2>1. CASE Section(rows, ids).truncated
    BY <1>1, <1>2, <1>3, <1>5, <2>1
  <2>2. CASE ~Section(rows, ids).truncated
    <3>1. items = ids
      BY <2>2, SectionWhole DEF items
    <3> QED BY <1>2, <2>2, <3>1
  <2> QED BY <2>1, <2>2
<1> QED BY <1>1, <1>5, <1>6 DEF items

(***************************************************************************)
(* The counts of the recipients add up to the list: number the rows of     *)
(* each recipient, and every row has one recipient and one number.         *)
(***************************************************************************)
LEMMA RecipientsAddUp ==
  ASSUME NEW rows, IsFiniteSet(DOMAIN rows), NEW operator
  PROVE  SumOf(Triage(rows, operator).by_recipient) = Cardinality(DOMAIN rows)
<1> DEFINE whose(i) == Recipient(rows[i])
           named == {whose(i) : i \in DOMAIN rows}
           size(who) == Cardinality(RowsOf(rows, who))
           number == [who \in named |-> CHOOSE f : f \in Bijection(1 .. size(who), RowsOf(rows, who))]
           pairs == UNION {{<<who, n>> : n \in 1 .. size(who)} : who \in named}
           nth == [x \in pairs |-> number[x[1]][x[2]]]
<1>1. SumOf(Triage(rows, operator).by_recipient) = Cardinality(pairs)
  <2> DEFINE counts == Triage(rows, operator).by_recipient
  <2>1. counts = [who \in named |-> size(who)]
    BY DEF Triage
  <2> HIDE DEF counts, named, size
  <2>2. UNION {{<<who, n>> : n \in 1 .. counts[who]} : who \in DOMAIN counts} = pairs
    <3>1. DOMAIN counts = named /\ \A who \in named : counts[who] = size(who)
      BY <2>1
    <3> QED BY <3>1
  <2> QED BY <2>2 DEF SumOf, counts
<1>2. ASSUME NEW who \in named
      PROVE  number[who] \in Bijection(1 .. size(who), RowsOf(rows, who))
  <2>1. RowsOf(rows, who) \subseteq DOMAIN rows
    BY DEF RowsOf
  <2>2. IsFiniteSet(RowsOf(rows, who))
    BY <2>1, FS_Subset
  <2>3. \E f : f \in Bijection(1 .. size(who), RowsOf(rows, who))
    BY <2>2, FS_CardinalityType DEF ExistsBijection
  <2> QED BY <2>3
<1>3. ASSUME NEW who \in named
      PROVE  /\ \A n \in 1 .. size(who) : number[who][n] \in DOMAIN rows /\ whose(number[who][n]) = who
             /\ \A m, n \in 1 .. size(who) : number[who][m] = number[who][n] => m = n
             /\ \A i \in DOMAIN rows : whose(i) = who => \E n \in 1 .. size(who) : number[who][n] = i
  <2> DEFINE f == number[who]
  <2>1. f \in Bijection(1 .. size(who), RowsOf(rows, who))
    BY <1>2, <1>3
  <2> HIDE DEF f, size, number
  <2>2. /\ f \in [1 .. size(who) -> RowsOf(rows, who)]
        /\ \A m, n \in 1 .. size(who) : f[m] = f[n] => m = n
        /\ \A i \in RowsOf(rows, who) : \E n \in 1 .. size(who) : f[n] = i
    BY <2>1 DEF Bijection, Injection, Surjection, IsInjective
  <2>3. \A i : i \in RowsOf(rows, who) <=> i \in DOMAIN rows /\ whose(i) = who
    BY DEF RowsOf
  <2> HIDE DEF whose
  <2> QED BY <2>2, <2>3 DEF f
<1>4. \A x : x \in pairs <=> \E who \in named : \E n \in 1 .. size(who) : x = <<who, n>>
  OBVIOUS
<1>5. \A i \in DOMAIN rows : whose(i) \in named
  OBVIOUS
<1> HIDE DEF whose, named, size, number, pairs
<1>6. nth \in Bijection(pairs, DOMAIN rows)
  <2>1. nth \in [pairs -> DOMAIN rows]
    BY <1>3, <1>4
  <2>2. ASSUME NEW x \in pairs, NEW y \in pairs, nth[x] = nth[y]
        PROVE  x = y
    <3>1. PICK a \in named : \E m \in 1 .. size(a) : x = <<a, m>>
      BY <1>4
    <3>1a. PICK m \in 1 .. size(a) : x = <<a, m>>
      BY <3>1
    <3>2. PICK b \in named : \E n \in 1 .. size(b) : y = <<b, n>>
      BY <1>4
    <3>2a. PICK n \in 1 .. size(b) : y = <<b, n>>
      BY <3>2
    <3>3. number[a][m] = number[b][n]
      BY <2>2, <3>1a, <3>2a
    <3>4. a = b
      BY <1>3, <3>1a, <3>2a, <3>3
    <3>5. m = n
      BY <1>3, <3>1a, <3>2a, <3>3, <3>4
    <3> QED BY <3>1a, <3>2a, <3>4, <3>5
  <2>3. ASSUME NEW i \in DOMAIN rows
        PROVE  \E x \in pairs : nth[x] = i
    <3>1. PICK n \in 1 .. size(whose(i)) : number[whose(i)][n] = i
      BY <1>3, <1>5
    <3>2. <<whose(i), n>> \in pairs
      BY <1>4, <1>5, <3>1
    <3>3. nth[<<whose(i), n>>] = i
      BY <3>1, <3>2
    <3> QED BY <3>2, <3>3
  <2> HIDE DEF nth
  <2> QED BY <2>1, <2>2, <2>3 DEF Bijection, Injection, Surjection, IsInjective
<1> HIDE DEF nth
<1>7. ExistsBijection(DOMAIN rows, pairs)
  BY <1>6, Fun_ExistsBijSymmetric DEF ExistsBijection
<1> QED BY <1>1, <1>7, FS_Bijection

-------------------------------------------------------------------------------
(* The invariant under the bus and the calendar *)

LEMMA IdleFacts ==
  /\ IdleReport.at = "idle" /\ IdleReport.operator = NULL /\ IdleReport.rows = NoRows
  /\ NoRows \in [{} -> BriefRow] /\ DOMAIN NoRows = {} /\ IsFiniteSet({})
<1>1. NoRows \in [{} -> BriefRow] /\ DOMAIN NoRows = {}
  BY DEF NoRows
<1>2. IsFiniteSet({})
  BY FS_EmptySet
<1> QED BY <1>1, <1>2 DEF IdleReport

(* An answer is gone by the next step; what runs stays as it is. *)
LEMMA SentFacts ==
  ASSUME ReportInv
  PROVE  \/ Sent = report /\ report.at # "answered"
         \/ Sent = IdleReport /\ ~Running
BY DEF Sent, Running

(***************************************************************************)
(* Once the briefing is idle the invariant is about the table alone.       *)
(***************************************************************************)
LEMMA IdleInv ==
  ASSUME report' = IdleReport, (filed \in [DOMAIN handoffs -> Columns])',
         TableOK', ColumnsOK',
         (\A i, j \in DOMAIN filed :
            /\ i # j => filed[i].rank # filed[j].rank
            /\ filed[i].rank < filed[j].rank => filed[i].age >= filed[j].age)',
         stayed' \subseteq OpenActions', moved' \in BOOLEAN, moves' \in 0 .. MaxMoves
  PROVE  ReportInv'
<1>1. /\ report'.at = "idle" /\ report'.operator = NULL /\ report'.rows = NoRows
      /\ ~Running' /\ ~HasList'
  BY IdleFacts DEF Running, HasList
<1>2. BriefingTypeOK'
  BY <1>1 DEF BriefingTypeOK, BriefingSteps
<1>3. RowsOK'
  BY <1>1, IdleFacts DEF RowsOK
<1>4. Followed' /\ HeaderOK' /\ DoubtOK'
  BY <1>1 DEF Followed, HeaderOK, DoubtOK, HasList
<1> QED BY <1>2, <1>3, <1>4 DEF ReportInv

(***************************************************************************)
(* A move gives one row at most its columns, and that row ranks last.      *)
(***************************************************************************)
LEMMA MoveColumns ==
  ASSUME ReportInv, NEW machine \in BOOLEAN, TableStep(machine), Keep(machine)
  PROVE  /\ (filed \in [DOMAIN handoffs -> Columns])'
         /\ \A i \in DOMAIN handoffs \cap DOMAIN handoffs' : filed'[i] = filed[i]
         /\ ColumnsOK'
         /\ (\A i, j \in DOMAIN filed :
               /\ i # j => filed[i].rank # filed[j].rank
               /\ filed[i].rank < filed[j].rank => filed[i].age >= filed[j].age)'
<1> DEFINE new == DOMAIN handoffs' \ DOMAIN handoffs
           size == Cardinality(drawn)
<1>1. PICK urgent \in BOOLEAN :
        filed' = [i \in DOMAIN handoffs' |->
                   IF i \in new THEN Born(machine, urgent) ELSE filed[i]]
  BY DEF Keep
<1>2. /\ filed \in [DOMAIN handoffs -> Columns] /\ DOMAIN handoffs \subseteq drawn
      /\ size \in Nat /\ IsFiniteSet(drawn)
      /\ \A i \in DOMAIN handoffs : /\ filed[i].rank \in Nat /\ filed[i].rank < size
                                    /\ filed[i].age \in 0 .. MaxAge
                                    /\ filed[i].machine => handoffs[i].to_agent # NULL
      /\ \A i, j \in DOMAIN handoffs :
           /\ i # j => filed[i].rank # filed[j].rank
           /\ filed[i].rank < filed[j].rank => filed[i].age >= filed[j].age
  BY FS_CardinalityType DEF ReportInv, BriefingTypeOK, TableOK, ColumnsOK, Columns
<1>3. /\ Born(machine, urgent) \in Columns /\ Born(machine, urgent).rank = size
      /\ Born(machine, urgent).age = 0 /\ Born(machine, urgent).machine = machine
  BY <1>2, BriefingAssumption DEF Born, Columns
<1>4. /\ \A i \in new : machine => handoffs'[i].to_agent # NULL
      /\ \A i, j \in new : i = j
      /\ Cardinality(drawn') = IF new = {} THEN size ELSE size + 1
  <2>1. CASE DOMAIN handoffs' \subseteq DOMAIN handoffs /\ UNCHANGED drawn
    BY <2>1
  <2>2. CASE \E i \in Ids \ drawn :
               /\ drawn' = drawn \cup {i} /\ DOMAIN handoffs' = DOMAIN handoffs \cup {i}
               /\ machine => handoffs'[i].to_agent # NULL
    <3>1. PICK i \in Ids \ drawn :
            /\ drawn' = drawn \cup {i} /\ DOMAIN handoffs' = DOMAIN handoffs \cup {i}
            /\ machine => handoffs'[i].to_agent # NULL
      BY <2>2
    <3>2. new = {i}
      BY <1>2, <3>1
    <3>3. Cardinality(drawn') = size + 1
      BY <1>2, <3>1, FS_AddElement
    <3> QED BY <3>1, <3>2, <3>3
  <2> QED BY <2>1, <2>2 DEF TableStep
<1>5. \A i \in DOMAIN handoffs' :
        \/ i \in new /\ filed'[i] = Born(machine, urgent)
        \/ i \notin new /\ i \in DOMAIN handoffs /\ filed'[i] = filed[i]
  BY <1>1
<1>6. DOMAIN filed' = DOMAIN handoffs'
  BY <1>1
<1> HIDE DEF new, size
<1>7. filed' \in [DOMAIN handoffs' -> Columns]
  BY <1>1, <1>2, <1>3, <1>5
<1>8. \A i \in DOMAIN handoffs \cap DOMAIN handoffs' : filed'[i] = filed[i]
  BY <1>5 DEF new
<1>9. ColumnsOK'
  <2> SUFFICES ASSUME NEW i \in DOMAIN handoffs'
               PROVE  /\ filed'[i].rank < Cardinality(drawn')
                      /\ filed'[i].machine => handoffs'[i].to_agent # NULL
    BY <1>6 DEF ColumnsOK
  <2>1. CASE i \in new
    BY <1>2, <1>3, <1>4, <1>5, <2>1
  <2>2. CASE i \notin new
    BY <1>2, <1>4, <1>5, <2>2 DEF TableStep
  <2> QED BY <2>1, <2>2
<1>10. ASSUME NEW i \in DOMAIN handoffs', NEW j \in DOMAIN handoffs'
       PROVE  /\ i # j => filed'[i].rank # filed'[j].rank
              /\ filed'[i].rank < filed'[j].rank => filed'[i].age >= filed'[j].age
  <2>1. CASE i \notin new /\ j \notin new
    BY <1>2, <1>5, <2>1
  <2>2. CASE i \in new /\ j \in new
    BY <1>2, <1>3, <1>4, <1>5, <2>2
  <2>3. CASE i \in new /\ j \notin new
    BY <1>2, <1>3, <1>5, <2>3
  <2>4. CASE i \notin new /\ j \in new
    BY <1>2, <1>3, <1>5, <2>4
  <2> QED BY <2>1, <2>2, <2>3, <2>4
<1> QED BY <1>6, <1>7, <1>8, <1>9, <1>10

LEMMA MoveInv ==
  ASSUME ReportInv, NEW machine \in BOOLEAN, TableStep(machine), Keep(machine)
  PROVE  ReportInv'
<1>1. /\ stayed' = stayed \cap OpenActions' /\ report' = Sent
      /\ moved' = (moved \/ /\ report.at = "list"
                            /\ \/ OpenActions' # OpenActions
                               \/ \E i \in OpenActions' : handoffs'[i].status # handoffs[i].status)
      /\ WithinMoves
  BY DEF Keep, OpenActions
<1>2. stayed' \subseteq OpenActions' /\ moved' \in BOOLEAN /\ moves' \in 0 .. MaxMoves
  BY <1>1, BriefingAssumption DEF ReportInv, BriefingTypeOK, WithinMoves
<1>3. TableOK'
  BY DEF TableStep
<1>4. CASE Sent = IdleReport
  BY <1>1, <1>2, <1>3, <1>4, MoveColumns, IdleInv
<1>5. CASE Sent = report /\ report.at # "answered"
  <2>1. report' = report
    BY <1>1, <1>5
  <2>2. BriefingTypeOK'
    BY <1>2, <2>1, MoveColumns DEF ReportInv, BriefingTypeOK
  <2>3. RowsOK'
    BY <2>1 DEF ReportInv, RowsOK, Running
  <2>4. ASSUME NEW i \in stayed'
        PROVE  /\ i \in stayed /\ filed'[i] = filed[i]
               /\ handoffs'[i].from_agent = handoffs[i].from_agent
               /\ handoffs'[i].to_agent = handoffs[i].to_agent
    <3>1. i \in stayed /\ i \in DOMAIN handoffs \cap DOMAIN handoffs'
      BY <1>1 DEF ReportInv, BriefingTypeOK, OpenActions
    <3> QED BY <3>1, MoveColumns DEF TableStep
  <2>5. Followed'
    BY <2>1, <2>4 DEF ReportInv, Followed, HasList
  <2>6. HeaderOK'
    BY <1>1, <2>1 DEF ReportInv, HeaderOK, HasList
  <2>7. DoubtOK'
    BY <2>1, <2>4 DEF ReportInv, DoubtOK
  <2> QED BY <1>3, <2>2, <2>3, <2>5, <2>6, <2>7, MoveColumns DEF ReportInv
<1> QED BY <1>4, <1>5, SentFacts

LEMMA OlderFacts ==
  /\ \A age \in 0 .. MaxAge : Older(age) \in 0 .. MaxAge
  /\ \A age, other \in 0 .. MaxAge : age >= other => Older(age) >= Older(other)
BY BriefingAssumption DEF Older

LEMMA AllOlderFacts ==
  ASSUME NEW rows
  PROVE  /\ DOMAIN AllOlder(rows) = DOMAIN rows
         /\ rows \in [DOMAIN rows -> Columns] => AllOlder(rows) \in [DOMAIN rows -> Columns]
         /\ rows \in [DOMAIN rows -> BriefRow] => AllOlder(rows) \in [DOMAIN rows -> BriefRow]
         /\ \A i \in DOMAIN rows : rows[i] \in Columns \cup BriefRow =>
              LET new == AllOlder(rows)[i]
                  old == rows[i]
              IN /\ new.age = Older(old.age) /\ new.rank = old.rank
                 /\ new.machine = old.machine /\ new.urgent = old.urgent
         /\ \A i \in DOMAIN rows : rows[i] \in BriefRow =>
              AllOlder(rows)[i].from = rows[i].from /\ AllOlder(rows)[i].to = rows[i].to
<1>1. \A i \in DOMAIN rows : AllOlder(rows)[i] = [rows[i] EXCEPT !.age = Older(rows[i].age)]
  BY DEF AllOlder
<1>2. ASSUME NEW i \in DOMAIN rows, rows[i] \in Columns
      PROVE  LET new == AllOlder(rows)[i]
                 old == rows[i]
             IN /\ new \in Columns /\ new.age = Older(old.age) /\ new.rank = old.rank
                /\ new.machine = old.machine /\ new.urgent = old.urgent
  <2>1. Older(rows[i].age) \in 0 .. MaxAge
    BY <1>2, OlderFacts DEF Columns
  <2> QED BY <1>1, <1>2, <2>1 DEF Columns
<1>3. ASSUME NEW i \in DOMAIN rows, rows[i] \in BriefRow
      PROVE  LET new == AllOlder(rows)[i]
                 old == rows[i]
             IN /\ new \in BriefRow /\ new.age = Older(old.age) /\ new.rank = old.rank
                /\ new.machine = old.machine /\ new.urgent = old.urgent
                /\ new.from = old.from /\ new.to = old.to
  <2>1. Older(rows[i].age) \in 0 .. MaxAge
    BY <1>3, OlderFacts DEF BriefRow
  <2> QED BY <1>1, <1>3, <2>1 DEF BriefRow
<1>4. DOMAIN AllOlder(rows) = DOMAIN rows
  BY DEF AllOlder
<1>5. AllOlder(rows) = [i \in DOMAIN rows |-> AllOlder(rows)[i]]
  BY DEF AllOlder
<1> HIDE DEF AllOlder
<1> QED BY <1>2, <1>3, <1>4, <1>5

LEMMA DayInv ==
  ASSUME ReportInv, DayPasses
  PROVE  ReportInv'
<1>1. /\ filed' = AllOlder(filed) /\ report' = [Sent EXCEPT !.rows = AllOlder(Sent.rows)]
      /\ WithinMoves /\ UNCHANGED <<handoffs, audit, drawn, calls, stayed, moved>>
  BY DEF DayPasses, vars
<1>2. /\ filed \in [DOMAIN handoffs -> Columns] /\ DOMAIN filed = DOMAIN handoffs
      /\ \A i \in DOMAIN handoffs : /\ filed[i] \in Columns /\ filed[i].rank \in Nat
                                    /\ filed[i].age \in 0 .. MaxAge
  BY DEF ReportInv, BriefingTypeOK, Columns
<1>3. /\ filed' \in [DOMAIN handoffs' -> Columns] /\ DOMAIN filed' = DOMAIN handoffs
      /\ \A i \in DOMAIN handoffs :
           /\ filed'[i].age = Older(filed[i].age) /\ filed'[i].rank = filed[i].rank
           /\ filed'[i].machine = filed[i].machine /\ filed'[i].urgent = filed[i].urgent
  BY <1>1, <1>2, AllOlderFacts
<1>4. TableOK' /\ ColumnsOK' /\ OpenActions' = OpenActions
  BY <1>1, <1>2, <1>3 DEF ReportInv, TableOK, TypeOK, ColumnsOK, OpenActions
<1>5. (\A i, j \in DOMAIN filed :
         /\ i # j => filed[i].rank # filed[j].rank
         /\ filed[i].rank < filed[j].rank => filed[i].age >= filed[j].age)'
  BY <1>2, <1>3, OlderFacts DEF ReportInv, BriefingTypeOK
<1>6. stayed' \subseteq OpenActions' /\ moved' \in BOOLEAN /\ moves' \in 0 .. MaxMoves
  BY <1>1, <1>4, BriefingAssumption DEF ReportInv, BriefingTypeOK, WithinMoves
<1>7. CASE Sent = IdleReport
  <2>1. AllOlder(NoRows) = NoRows
    BY DEF AllOlder, NoRows
  <2>2. report' = IdleReport
    BY <1>1, <1>7, <2>1 DEF IdleReport
  <2> QED BY <1>3, <1>4, <1>5, <1>6, <2>2, IdleInv
<1>8. CASE Sent = report /\ report.at # "answered"
  <2> DEFINE rows == report.rows
  <2>1. /\ report'.at = report.at /\ report'.operator = report.operator
        /\ report'.counts = report.counts /\ report'.seen = report.seen
        /\ report'.rows = AllOlder(rows) /\ DOMAIN report' = DOMAIN IdleReport
    BY <1>1, <1>8 DEF ReportInv, RowsOK, IdleReport
  <2>2. /\ rows \in [DOMAIN rows -> BriefRow] /\ IsFiniteSet(DOMAIN rows)
        /\ \A i \in DOMAIN rows : rows[i] \in BriefRow
        /\ \A i, j \in DOMAIN rows : i # j => rows[i].rank # rows[j].rank
    BY DEF ReportInv, RowsOK
  <2> HIDE DEF rows
  <2>3. BriefingTypeOK'
    BY <1>3, <1>5, <1>6, <2>1 DEF ReportInv, BriefingTypeOK
  <2>4. RowsOK'
    BY <2>1, <2>2, AllOlderFacts DEF ReportInv, RowsOK, Running
  <2>5. Followed'
    <3> SUFFICES ASSUME HasList', NEW i \in stayed'
                 PROVE  /\ i \in DOMAIN report'.rows
                        /\ LET b == report'.rows[i]
                           IN /\ b.machine = filed'[i].machine /\ b.urgent = filed'[i].urgent
                              /\ b.age = filed'[i].age /\ b.rank = filed'[i].rank
                              /\ b.from = handoffs'[i].from_agent /\ b.to = handoffs'[i].to_agent
      BY DEF Followed
    <3>1. i \in stayed /\ HasList /\ i \in DOMAIN handoffs
      BY <1>1, <2>1 DEF HasList, ReportInv, BriefingTypeOK, OpenActions
    <3>2. /\ i \in DOMAIN rows /\ rows[i] \in BriefRow
          /\ rows[i].machine = filed[i].machine /\ rows[i].urgent = filed[i].urgent
          /\ rows[i].age = filed[i].age /\ rows[i].rank = filed[i].rank
          /\ rows[i].from = handoffs[i].from_agent /\ rows[i].to = handoffs[i].to_agent
      BY <2>2, <3>1 DEF ReportInv, Followed, rows
    <3> QED BY <1>1, <1>3, <2>1, <3>1, <3>2, AllOlderFacts
  <2>6. HeaderOK'
    BY <1>1, <1>4, <2>1, AllOlderFacts DEF ReportInv, HeaderOK, HasList, rows
  <2>7. DoubtOK'
    BY <1>1, <2>1 DEF ReportInv, DoubtOK
  <2> QED BY <1>4, <2>3, <2>4, <2>5, <2>6, <2>7 DEF ReportInv
<1> QED BY <1>7, <1>8, SentFacts

-------------------------------------------------------------------------------
(* The invariant under the statements of a briefing *)

LEMMA QueueFinite ==
  ASSUME TableOK
  PROVE  /\ IsFiniteSet(OpenActions) /\ Cardinality(OpenActions) \in Nat
         /\ OpenActions \subseteq DOMAIN handoffs
<1>1. OpenActions \subseteq drawn /\ OpenActions \subseteq DOMAIN handoffs
  BY DEF OpenActions, TableOK
<1> QED BY <1>1, FS_Subset, FS_CardinalityType DEF TableOK

(***************************************************************************)
(* An open handoff is pending or accepted, not both.                       *)
(***************************************************************************)
LEMMA HeaderAddsUp ==
  ASSUME TableOK
  PROVE  Cardinality(OpenActions) =
           WithStatus(OpenActions, "pending") + WithStatus(OpenActions, "accepted")
<1> DEFINE of(status) == {i \in OpenActions : handoffs[i].status = status}
<1>1. /\ OpenActions = of("pending") \cup of("accepted")
      /\ of("pending") \cap of("accepted") = {}
  BY DEF OpenActions, OpenAction, Open
<1>2. IsFiniteSet(of("pending")) /\ IsFiniteSet(of("accepted"))
  BY QueueFinite, FS_Subset
<1> DEFINE pending == of("pending")
           accepted == of("accepted")
<1>3. WithStatus(OpenActions, "pending") = Cardinality(pending)
      /\ WithStatus(OpenActions, "accepted") = Cardinality(accepted)
  BY DEF WithStatus
<1> HIDE DEF of, pending, accepted
<1>4. Cardinality(pending \cup accepted) =
        Cardinality(pending) + Cardinality(accepted) - Cardinality(pending \cap accepted)
  BY <1>2, FS_Union DEF pending, accepted
<1>5. Cardinality(pending) \in Nat /\ Cardinality(accepted) \in Nat
  BY <1>2, FS_CardinalityType DEF pending, accepted
<1>6. pending \cup accepted = OpenActions /\ Cardinality(pending \cap accepted) = 0
  BY <1>1, FS_EmptySet DEF pending, accepted
<1>7. Cardinality(OpenActions) = Cardinality(pending) + Cardinality(accepted) - 0
  BY <1>4, <1>6
<1> QED BY <1>3, <1>5, <1>7

LEMMA BeginInv ==
  ASSUME ReportInv, BeginBriefing
  PROVE  ReportInv'
<1>1. /\ stayed' = OpenActions /\ moved' = FALSE /\ moves' = 0
      /\ UNCHANGED <<handoffs, audit, drawn, calls, filed>>
  BY DEF BeginBriefing, vars
<1>2. PICK operator \in Agents :
        report' = [IdleReport EXCEPT !.at = "count", !.operator = operator]
  BY DEF BeginBriefing
<1>3. /\ report'.at = "count" /\ report'.operator = operator /\ report'.rows = NoRows
      /\ DOMAIN report' = DOMAIN IdleReport
  BY <1>2 DEF IdleReport
<1>4. BriefingTypeOK'
  <2>1. moves' \in 0 .. MaxMoves /\ OpenActions' = OpenActions
    BY <1>1, BriefingAssumption DEF OpenActions
  <2> QED BY <1>1, <1>3, <2>1 DEF ReportInv, BriefingTypeOK, BriefingSteps
<1>5. TableOK' /\ ColumnsOK'
  BY <1>1 DEF ReportInv, TableOK, TypeOK, ColumnsOK
<1>6. RowsOK'
  BY <1>3, IdleFacts DEF RowsOK
<1>7. Followed' /\ HeaderOK' /\ DoubtOK'
  BY <1>3 DEF Followed, HeaderOK, DoubtOK, HasList
<1> QED BY <1>4, <1>5, <1>6, <1>7 DEF ReportInv

LEMMA FailsInv ==
  ASSUME ReportInv, BriefingFails
  PROVE  ReportInv'
<1>1. /\ stayed' = {} /\ moved' = FALSE /\ moves' = 0 /\ report' = IdleReport
      /\ UNCHANGED <<handoffs, audit, drawn, calls, filed>>
  BY DEF BriefingFails, vars
<1>2. TableOK' /\ ColumnsOK'
  BY <1>1 DEF ReportInv, TableOK, TypeOK, ColumnsOK
<1>3. moves' \in 0 .. MaxMoves
  BY <1>1, BriefingAssumption
<1> QED BY <1>1, <1>2, <1>3, IdleInv DEF ReportInv, BriefingTypeOK

(* A statement of a briefing leaves the bus alone. *)
LEMMA StillTable ==
  ASSUME ReportInv, UNCHANGED <<vars, filed, stayed, moves>>, moved' \in BOOLEAN
  PROVE  /\ TableOK' /\ ColumnsOK' /\ OpenActions' = OpenActions
         /\ (filed \in [DOMAIN handoffs -> Columns])'
         /\ (\A i, j \in DOMAIN filed :
               /\ i # j => filed[i].rank # filed[j].rank
               /\ filed[i].rank < filed[j].rank => filed[i].age >= filed[j].age)'
         /\ stayed' \subseteq OpenActions' /\ moves' \in 0 .. MaxMoves
BY DEF ReportInv, BriefingTypeOK, TableOK, TypeOK, ColumnsOK, OpenActions, vars

LEMMA CountInv ==
  ASSUME ReportInv, Count
  PROVE  ReportInv'
<1>1. /\ report.at = "list" => FALSE
      /\ report.at = "count" /\ moved' = FALSE /\ UNCHANGED <<vars, filed, stayed, moves>>
  BY DEF Count
<1>2. /\ report'.at = "list" /\ report'.operator = report.operator /\ report'.rows = report.rows
      /\ report'.counts.open = Cardinality(OpenActions)
      /\ report'.counts.pending = WithStatus(OpenActions, "pending")
      /\ report'.counts.accepted = WithStatus(OpenActions, "accepted")
      /\ DOMAIN report' = DOMAIN IdleReport
  BY DEF ReportInv, RowsOK, IdleReport, Count, Counted
<1>3. BriefingTypeOK'
  BY <1>1, <1>2, StillTable DEF ReportInv, BriefingTypeOK, BriefingSteps
<1>4. RowsOK'
  BY <1>1, <1>2 DEF ReportInv, RowsOK, Running
<1>5. HeaderOK'
  BY <1>1, <1>2, StillTable, HeaderAddsUp DEF ReportInv, HeaderOK, HasList
<1>6. Followed' /\ DoubtOK'
  BY <1>2 DEF Followed, DoubtOK, HasList
<1> QED BY <1>1, <1>3, <1>4, <1>5, <1>6, StillTable DEF ReportInv

LEMMA ListedRows ==
  ASSUME ReportInv
  PROVE  /\ DOMAIN Listed = OpenActions /\ IsFiniteSet(OpenActions)
         /\ Listed \in [OpenActions -> BriefRow]
         /\ \A i \in OpenActions : Listed[i] = Brief(i)
         /\ \A i, j \in OpenActions : i # j => Listed[i].rank # Listed[j].rank
<1>1. ASSUME NEW i \in OpenActions
      PROVE  Brief(i) \in BriefRow /\ Brief(i).rank = filed[i].rank /\ i \in DOMAIN handoffs
  <2>1. i \in DOMAIN handoffs /\ handoffs[i].status \in Open
    BY DEF OpenActions, OpenAction
  <2>2. handoffs[i] \in Row /\ filed[i] \in Columns
    BY <2>1 DEF ReportInv, BriefingTypeOK, TableOK, TypeOK
  <2> QED BY <2>1, <2>2 DEF Brief, BriefRow, Row, Columns
<1>2. DOMAIN Listed = OpenActions /\ \A i \in OpenActions : Listed[i] = Brief(i)
  BY DEF Listed
<1>3. Listed \in [OpenActions -> BriefRow]
  BY <1>1 DEF Listed
<1>4. \A i, j \in OpenActions : i # j => Listed[i].rank # Listed[j].rank
  BY <1>1, <1>2 DEF ReportInv, BriefingTypeOK
<1> QED BY <1>2, <1>3, <1>4, QueueFinite DEF ReportInv

LEMMA ListInv ==
  ASSUME ReportInv, List
  PROVE  ReportInv'
<1>1. /\ report.at = "list" /\ UNCHANGED <<vars, filed, stayed, moved, moves>>
      /\ moved \in BOOLEAN
  BY DEF List, ReportInv, BriefingTypeOK
<1>2. /\ report'.at \in {"triage", "seen"} /\ report'.operator = report.operator
      /\ report'.rows = Listed /\ report'.counts = report.counts
      /\ report'.at = "triage" => report'.seen = TRUE
      /\ DOMAIN report' = DOMAIN IdleReport
  BY DEF ReportInv, RowsOK, IdleReport, List
<1>3. BriefingTypeOK'
  BY <1>1, <1>2, StillTable DEF ReportInv, BriefingTypeOK, BriefingSteps
<1>4. RowsOK'
  BY <1>1, <1>2, ListedRows DEF ReportInv, RowsOK, Running
<1>5. Followed'
  <2> SUFFICES ASSUME NEW i \in stayed
               PROVE  /\ i \in DOMAIN Listed
                      /\ LET b == Listed[i]
                         IN /\ b.machine = filed[i].machine /\ b.urgent = filed[i].urgent
                            /\ b.age = filed[i].age /\ b.rank = filed[i].rank
                            /\ b.from = handoffs[i].from_agent /\ b.to = handoffs[i].to_agent
    BY <1>1, <1>2 DEF Followed, vars
  <2>1. i \in OpenActions
    BY DEF ReportInv, BriefingTypeOK
  <2> QED BY <2>1, ListedRows DEF Brief
<1>6. HeaderOK'
  BY <1>1, <1>2, StillTable, ListedRows DEF ReportInv, HeaderOK, HasList
<1>7. DoubtOK'
  BY <1>2 DEF DoubtOK
<1> QED BY <1>1, <1>3, <1>4, <1>5, <1>6, <1>7, StillTable DEF ReportInv

LEMMA SeenInv ==
  ASSUME ReportInv, SeenBefore
  PROVE  ReportInv'
<1>1. /\ report.at = "seen" /\ UNCHANGED <<vars, filed, stayed, moved, moves>>
      /\ moved \in BOOLEAN
  BY DEF SeenBefore, ReportInv, BriefingTypeOK
<1>2. PICK failed \in BOOLEAN :
        report' = [report EXCEPT !.at = "triage", !.seen = Familiar(failed, report.operator)]
  BY DEF SeenBefore
<1>3. /\ report'.at = "triage" /\ report'.operator = report.operator
      /\ report'.rows = report.rows /\ report'.counts = report.counts
      /\ report'.seen = Familiar(failed, report.operator)
      /\ DOMAIN report' = DOMAIN IdleReport
  BY <1>2 DEF ReportInv, RowsOK, IdleReport
<1>4. Familiar(failed, report.operator) \in BOOLEAN
  BY DEF Familiar
<1>5. BriefingTypeOK'
  BY <1>1, <1>3, <1>4, StillTable DEF ReportInv, BriefingTypeOK, BriefingSteps
<1>6. RowsOK'
  BY <1>1, <1>3 DEF ReportInv, RowsOK, Running
<1>7. Followed'
  BY <1>1, <1>3 DEF ReportInv, Followed, HasList, vars
<1>8. HeaderOK'
  BY <1>1, <1>3 DEF ReportInv, HeaderOK, HasList
<1>9. DoubtOK'
  <2> SUFFICES ASSUME ~Familiar(failed, report.operator), NEW i \in stayed
               PROVE  report.operator \notin {handoffs[i].from_agent, handoffs[i].to_agent}
    BY <1>1, <1>3 DEF DoubtOK, vars
  <2>1. i \in DOMAIN handoffs
    BY DEF ReportInv, BriefingTypeOK, OpenActions
  <2> QED BY <2>1 DEF Familiar, Names
<1> QED BY <1>1, <1>5, <1>6, <1>7, <1>8, <1>9, StillTable DEF ReportInv

LEMMA RenderInv ==
  ASSUME ReportInv, Render
  PROVE  ReportInv'
<1>1. /\ report.at = "triage" /\ UNCHANGED <<handoffs, audit, drawn, calls, filed>>
      /\ stayed' = {} /\ moved' = FALSE /\ moves' = 0
  BY DEF Render, vars
<1>2. /\ report'.at = "answered" /\ report'.operator = report.operator
      /\ report'.rows = NoRows /\ report'.seen = report.seen
      /\ DOMAIN report' = DOMAIN IdleReport
  BY DEF ReportInv, RowsOK, IdleReport, Render
<1>3. BriefingTypeOK'
  <2>1. moves' \in 0 .. MaxMoves
    BY <1>1, BriefingAssumption
  <2> QED BY <1>1, <1>2, <2>1 DEF ReportInv, BriefingTypeOK, BriefingSteps
<1>4. TableOK' /\ ColumnsOK'
  BY <1>1 DEF ReportInv, TableOK, TypeOK, ColumnsOK
<1>5. RowsOK'
  BY <1>2, IdleFacts DEF RowsOK, Running
<1>6. Followed' /\ HeaderOK' /\ DoubtOK'
  BY <1>2 DEF Followed, HeaderOK, DoubtOK, HasList
<1> QED BY <1>3, <1>4, <1>5, <1>6 DEF ReportInv

LEMMA BriefingInitInv ==
  ASSUME BriefingInit
  PROVE  ReportInv
<1>1. /\ handoffs = [i \in {} |-> NULL] /\ audit = <<>> /\ drawn = {}
      /\ calls = [p \in Calls |-> Idle]
      /\ filed = NoRows /\ report = IdleReport /\ stayed = {} /\ moved = FALSE /\ moves = 0
  BY DEF BriefingInit, Init
<1>2. TypeOK
  BY ShapeInit DEF BriefingInit, Shape
<1>3. TableOK
  BY <1>1, <1>2, FS_EmptySet DEF TableOK
<1>4. /\ report.at = "idle" /\ report.operator = NULL /\ report.rows = NoRows
      /\ DOMAIN filed = {} /\ DOMAIN handoffs = {}
  BY <1>1, IdleFacts
<1>5. BriefingTypeOK
  <2>1. moves \in 0 .. MaxMoves
    BY <1>1, BriefingAssumption
  <2>2. filed \in [DOMAIN handoffs -> Columns]
    BY <1>1 DEF NoRows
  <2> QED BY <1>1, <1>4, <2>1, <2>2 DEF BriefingTypeOK, BriefingSteps
<1>6. ColumnsOK
  BY <1>4 DEF ColumnsOK
<1>7. RowsOK
  BY <1>1, <1>4, IdleFacts DEF RowsOK, Running
<1>8. Followed /\ HeaderOK /\ DoubtOK
  BY <1>4 DEF Followed, HeaderOK, DoubtOK, HasList
<1> QED BY <1>3, <1>5, <1>6, <1>7, <1>8 DEF ReportInv

LEMMA BriefingStill ==
  ASSUME ReportInv, UNCHANGED allVars
  PROVE  ReportInv'
<1>1. /\ UNCHANGED <<vars, filed, stayed, moves>> /\ UNCHANGED <<report, moved>>
      /\ moved \in BOOLEAN
  BY DEF allVars, briefVars, ReportInv, BriefingTypeOK
<1>2. BriefingTypeOK'
  BY <1>1, StillTable DEF ReportInv, BriefingTypeOK
<1>3. RowsOK'
  BY <1>1 DEF ReportInv, RowsOK, Running
<1>4. Followed' /\ DoubtOK'
  BY <1>1 DEF ReportInv, Followed, DoubtOK, HasList, vars
<1>5. HeaderOK'
  BY <1>1, StillTable DEF ReportInv, HeaderOK, HasList
<1> QED BY <1>1, <1>2, <1>3, <1>4, <1>5, StillTable DEF ReportInv

LEMMA BriefingStep ==
  ASSUME ReportInv, [BriefingNext]_allVars
  PROVE  ReportInv'
<1>1. TableOK
  BY DEF ReportInv
<1>2. CASE AgentFiles
  BY <1>1, <1>2, MoveSteps, MoveInv DEF AgentFiles
<1>3. CASE AgentClaims
  BY <1>1, <1>3, MoveSteps, MoveInv DEF AgentClaims
<1>4. CASE AgentCompletes
  BY <1>1, <1>4, MoveSteps, MoveInv DEF AgentCompletes
<1>5. CASE AgentDeletes
  BY <1>1, <1>5, MoveSteps, MoveInv DEF AgentDeletes
<1>6. CASE MachineFiles
  BY <1>1, <1>6, MoveSteps, MoveInv DEF MachineFiles
<1> QED
  BY <1>2, <1>3, <1>4, <1>5, <1>6, DayInv, BeginInv, CountInv, ListInv, SeenInv, RenderInv,
     FailsInv, BriefingStill DEF BriefingNext

(***************************************************************************)
(* ReportInv is inductive: between its statements a briefing's list        *)
(* follows what stays open, its header is of the listed queue unless that  *)
(* moved, and its doubt of the operator's name stays founded, whatever bus *)
(* and calendar do meanwhile.                                              *)
(***************************************************************************)
THEOREM ReportHolds == BriefingSpec => []ReportInv
<1>1. BriefingInit => ReportInv
  BY BriefingInitInv
<1>2. ReportInv /\ [BriefingNext]_allVars => ReportInv'
  BY BriefingStep
<1> QED BY <1>1, <1>2, PTL DEF BriefingSpec

-------------------------------------------------------------------------------
(* What is answered *)

LEMMA OnlyRender ==
  ASSUME ReportInv, [BriefingNext]_allVars, Answering
  PROVE  /\ report'.sections = Triage(report.rows, report.operator)
         /\ report'.seen = report.seen
<1>1. report.at = "triage" /\ report'.at = "answered" /\ DOMAIN report = DOMAIN IdleReport
  BY DEF Answering, ReportInv, RowsOK
<1>2. Render
  <2>1. Sent = report /\ report' # report /\ report'.at # "idle"
    BY <1>1 DEF Sent
  <2>2. ~(AgentFiles \/ AgentClaims \/ AgentCompletes \/ AgentDeletes \/ MachineFiles)
    BY <2>1 DEF AgentFiles, AgentClaims, AgentCompletes, AgentDeletes, MachineFiles, Keep
  <2>3. ~DayPasses
    BY <1>1, <2>1 DEF DayPasses, IdleReport
  <2>4. ~(BeginBriefing \/ Count \/ List \/ SeenBefore)
    BY <1>1 DEF BeginBriefing, Count, List, SeenBefore, Running
  <2>5. ~BriefingFails
    BY <2>1, IdleFacts DEF BriefingFails
  <2>6. ~UNCHANGED allVars
    BY <2>1 DEF allVars, briefVars
  <2> QED BY <2>2, <2>3, <2>4, <2>5, <2>6 DEF BriefingNext
<1> QED BY <1>1, <1>2 DEF Render, IdleReport

(* The rows each section is about. *)
Class(section) ==
  CASE section = "waiting" -> RowsOf(report.rows, report.operator)
    [] section = "failing" ->
         {i \in DOMAIN report.rows : Failing(report.rows[i], report.operator)}
    [] section = "stuck" -> {i \in DOMAIN report.rows : Stuck(report.rows[i], report.operator)}

LEMMA ClassIs ==
  /\ Class("waiting") = RowsOf(report.rows, report.operator)
  /\ Class("failing") = {i \in DOMAIN report.rows : Failing(report.rows[i], report.operator)}
  /\ Class("stuck") = {i \in DOMAIN report.rows : Stuck(report.rows[i], report.operator)}
BY DEF Class

LEMMA SectionsOfClasses ==
  ASSUME ReportInv, [BriefingNext]_allVars, Answering, NEW s \in Sections
  PROVE  /\ report'.sections[s] = Section(report.rows, Class(s))
         /\ Class(s) \subseteq DOMAIN report.rows
         /\ Ranked(report.rows, Class(s))
<1> DEFINE rows == report.rows
<1>1. report'.sections[s] = Section(rows, Class(s))
  <2>1. CASE s = "waiting"
    BY <2>1, OnlyRender, ClassIs DEF Triage
  <2>2. CASE s = "failing"
    BY <2>2, OnlyRender, ClassIs DEF Triage
  <2>3. CASE s = "stuck"
    BY <2>3, OnlyRender, ClassIs DEF Triage
  <2> QED BY <2>1, <2>2, <2>3 DEF Sections
<1>2. Class(s) \subseteq DOMAIN rows
  BY ClassIs DEF Sections, RowsOf
<1>3. /\ IsFiniteSet(DOMAIN rows)
      /\ \A i \in DOMAIN rows : rows[i].rank \in Nat
      /\ \A i, j \in DOMAIN rows : i # j => rows[i].rank # rows[j].rank
  BY DEF ReportInv, RowsOK, BriefRow
<1>4. Ranked(rows, Class(s))
  BY <1>2, <1>3, FS_Subset DEF Ranked
<1> QED BY <1>1, <1>2, <1>4

(***************************************************************************)
(* What was due all along is in its class: what it is judged by either     *)
(* never changes or is read with the list.                                 *)
(***************************************************************************)
LEMMA DueInClass ==
  ASSUME ReportInv, report.at = "triage", NEW i \in stayed, NEW s \in Sections, Due(s, i)
  PROVE  i \in Class(s) /\ report.rows[i].rank = filed[i].rank
<1> DEFINE b == report.rows[i]
           f == filed[i]
           row == handoffs[i]
           operator == report.operator
<1>1. /\ i \in DOMAIN report.rows /\ b \in BriefRow /\ operator \in Agents /\ operator # NULL
      /\ b.machine = f.machine /\ b.urgent = f.urgent /\ b.age = f.age /\ b.rank = f.rank
      /\ b.from = row.from_agent /\ b.to = row.to_agent
  BY BusAssumption DEF ReportInv, Followed, HasList, RowsOK, Running
<1>2. i \in DOMAIN handoffs /\ f \in Columns /\ (f.machine => row.to_agent # NULL)
  BY DEF ReportInv, BriefingTypeOK, OpenActions, ColumnsOK
<1>3. \/ s = "waiting" /\ row.to_agent = operator
      \/ s = "failing" /\ f.machine /\ f.urgent /\ row.to_agent # operator
      \/ /\ s = "stuck" /\ row.to_agent \notin {NULL, operator, row.from_agent}
         /\ ~f.machine /\ f.age > StuckAccepted
  BY DEF Due, Sections
<1> HIDE DEF b, f, row, operator
<1>4. ASSUME s = "waiting"
      PROVE  i \in Class("waiting")
  <2>1. Recipient(b) = operator
    BY <1>1, <1>3, <1>4 DEF Recipient
  <2> QED BY <1>1, <2>1, ClassIs DEF RowsOf, b, operator
<1>5. ASSUME s = "failing"
      PROVE  i \in Class("failing")
  <2>1. Failing(b, operator)
    BY <1>1, <1>2, <1>3, <1>5 DEF Failing, Recipient
  <2> QED BY <1>1, <2>1, ClassIs DEF b, operator
<1>6. ASSUME s = "stuck"
      PROVE  i \in Class("stuck")
  <2>1. Recipient(b) # operator /\ ~IsSelfAddressed(b) /\ ~b.machine
    BY <1>1, <1>3, <1>6 DEF Recipient, IsSelfAddressed
  <2>2. b.status \in Open /\ b.age \in Nat /\ b.age > StuckAccepted
    BY <1>1, <1>3, <1>6, BriefingAssumption DEF BriefRow
  <2>3. IsStuck(b.status, b.age)
    BY <2>2, BriefingAssumption DEF IsStuck, Open
  <2>4. Stuck(b, operator)
    BY <2>1, <2>3 DEF Stuck
  <2> QED BY <1>1, <2>4, ClassIs DEF b, operator
<1> QED BY <1>1, <1>4, <1>5, <1>6 DEF Sections, b, f

(***************************************************************************)
(* The five properties of an answer, each under [BriefingNext]_allVars.    *)
(***************************************************************************)
LEMMA AnswerTitles ==
  ASSUME ReportInv, [BriefingNext]_allVars, Answering
  PROVE  LET answer == report'.sections IN
         /\ \A i \in stayed, s \in Sections :
              Due(s, i) => i \in answer[s].items \/ answer[s].truncated
         /\ \A s, t \in Sections : s # t => answer[s].items \cap answer[t].items = {}
<1>1. ASSUME NEW i \in stayed, NEW s \in Sections, Due(s, i), ~report'.sections[s].truncated
      PROVE  i \in report'.sections[s].items
  <2>1. i \in Class(s)
    BY <1>1, DueInClass DEF Answering
  <2> QED BY <1>1, <2>1, SectionsOfClasses, SectionWhole
<1>2. ASSUME NEW s \in Sections, NEW t \in Sections, s # t
      PROVE  report'.sections[s].items \cap report'.sections[t].items = {}
  <2>1. Class(s) \cap Class(t) = {}
    BY <1>2, ClassIs DEF Sections, RowsOf, Failing, Stuck
  <2>2. report'.sections[s].items \subseteq Class(s) /\ report'.sections[t].items \subseteq Class(t)
    BY SectionsOfClasses, SectionCut
  <2> QED BY <2>1, <2>2
<1> QED BY <1>1, <1>2

LEMMA AnswerOldest ==
  ASSUME ReportInv, [BriefingNext]_allVars, Answering,
         NEW i \in stayed, NEW j \in stayed, NEW s \in Sections, Due(s, i), Due(s, j),
         filed[i].age > filed[j].age, j \in report'.sections[s].items
  PROVE  i \in report'.sections[s].items
<1>1. i \in Class(s) /\ report.rows[i].rank = filed[i].rank /\ report.rows[j].rank = filed[j].rank
  BY DueInClass DEF Answering
<1>2. /\ i \in DOMAIN filed /\ j \in DOMAIN filed
      /\ filed[i] \in Columns /\ filed[j] \in Columns
  BY DEF ReportInv, BriefingTypeOK, OpenActions
<1>3. /\ filed[i].age \in Nat /\ filed[j].age \in Nat
      /\ filed[i].rank \in Nat /\ filed[j].rank \in Nat
  BY <1>2, BriefingAssumption DEF Columns
<1>4. filed[i].rank < filed[j].rank
  <2>1. filed[i].rank # filed[j].rank /\ ~(filed[j].age >= filed[i].age)
    BY <1>2, <1>3 DEF ReportInv, BriefingTypeOK
  <2>2. ~(filed[j].rank < filed[i].rank)
    BY <1>2, <2>1 DEF ReportInv, BriefingTypeOK
  <2> QED BY <1>3, <2>1, <2>2
<1> QED BY <1>1, <1>4, SectionsOfClasses, SectionOldest

LEMMA AnswerAgrees ==
  ASSUME ReportInv, [BriefingNext]_allVars, Answering
  PROVE  /\ report.counts.open = report.counts.pending + report.counts.accepted
         /\ ~moved => report.counts.open = SumOf(report'.sections.by_recipient)
<1>1. /\ report.counts.open = report.counts.pending + report.counts.accepted
      /\ ~moved => report.counts.open = Cardinality(DOMAIN report.rows)
  BY DEF Answering, ReportInv, HeaderOK, HasList
<1>2. SumOf(report'.sections.by_recipient) = Cardinality(DOMAIN report.rows)
  BY OnlyRender, RecipientsAddUp DEF ReportInv, RowsOK
<1> QED BY <1>1, <1>2

LEMMA AnswerHonest ==
  ASSUME ReportInv, [BriefingNext]_allVars, Answering
  PROVE  /\ report'.sections.waiting.total = 0 => \A i \in stayed : ~Due("waiting", i)
         /\ ~report'.seen => \A i \in stayed :
              report.operator \notin {handoffs[i].from_agent, handoffs[i].to_agent}
<1>1. ASSUME report'.sections.waiting.total = 0, NEW i \in stayed, Due("waiting", i)
      PROVE  FALSE
  <2>1. "waiting" \in Sections
    BY DEF Sections
  <2>2. Cardinality(Class("waiting")) = 0 /\ IsFiniteSet(Class("waiting"))
    BY <1>1, <2>1, SectionsOfClasses, SectionCut DEF Ranked
  <2>3. i \in Class("waiting")
    BY <1>1, <2>1, DueInClass DEF Answering
  <2> QED BY <2>2, <2>3, FS_EmptySet
<1>2. ~report'.seen => \A i \in stayed :
        report.operator \notin {handoffs[i].from_agent, handoffs[i].to_agent}
  BY OnlyRender DEF Answering, ReportInv, DoubtOK
<1> QED BY <1>1, <1>2

LEMMA AnswerTotals ==
  ASSUME ReportInv, [BriefingNext]_allVars, Answering, NEW s \in Sections
  PROVE  LET section == report'.sections[s] IN
         /\ section.total >= Cardinality({i \in stayed : Due(s, i)})
         /\ section.truncated <=> section.total > Cardinality(section.items)
<1> DEFINE due == {i \in stayed : Due(s, i)}
           section == report'.sections[s]
<1>1. /\ section = Section(report.rows, Class(s)) /\ Ranked(report.rows, Class(s))
  BY SectionsOfClasses
<1>2. due \subseteq Class(s)
  BY DueInClass DEF Answering
<1> HIDE DEF due, section
<1>3. Cardinality(due) <= Cardinality(Class(s))
      /\ Cardinality(due) \in Nat /\ Cardinality(Class(s)) \in Nat
  BY <1>1, <1>2, FS_Subset, FS_CardinalityType DEF Ranked
<1>4. /\ section.total = Cardinality(Class(s))
      /\ section.truncated <=> section.total > Cardinality(section.items)
  BY <1>1, SectionCut
<1>5. section.total >= Cardinality(due)
  BY <1>3, <1>4
<1> QED BY <1>4, <1>5 DEF due, section

(***************************************************************************)
(* Nothing that needs the operator's eye is lost or said twice: what was   *)
(* due all along is on the list the sections are made of, as it is now,    *)
(* and a section that is not cut short titles its whole class.             *)
(***************************************************************************)
THEOREM NothingIsLost == BriefingSpec => TitledOnce
<1>1. ReportInv /\ [BriefingNext]_allVars =>
        [Answering => LET answer == report'.sections IN
           /\ \A i \in stayed, s \in Sections :
                Due(s, i) => i \in answer[s].items \/ answer[s].truncated
           /\ \A s, t \in Sections : s # t => answer[s].items \cap answer[t].items = {}]_allVars
  BY AnswerTitles
<1> QED BY <1>1, ReportHolds, PTL DEF BriefingSpec, TitledOnce

(***************************************************************************)
(* A section that is cut short keeps the oldest: ranks order the rows as   *)
(* their ages do, and what is ahead of the older is ahead of the younger.  *)
(***************************************************************************)
THEOREM OldestComeFirst == BriefingSpec => OldestTitled
<1>1. ReportInv /\ [BriefingNext]_allVars =>
        [Answering =>
           \A i, j \in stayed, s \in Sections :
             /\ Due(s, i) /\ Due(s, j) /\ filed[i].age > filed[j].age
             /\ j \in report'.sections[s].items
             => i \in report'.sections[s].items]_allVars
  BY AnswerOldest
<1> QED BY <1>1, ReportHolds, PTL DEF BriefingSpec, OldestTitled

(***************************************************************************)
(* The header's counts always add up, and are the sum of the recipients'   *)
(* counts whenever no action handoff moved between the two statements.     *)
(***************************************************************************)
THEOREM HeaderAndListAgree == BriefingSpec => HeaderAgrees
<1>1. ReportInv /\ [BriefingNext]_allVars =>
        [Answering =>
           /\ report.counts.open = report.counts.pending + report.counts.accepted
           /\ ~moved => report.counts.open = SumOf(report'.sections.by_recipient)]_allVars
  BY AnswerAgrees
<1> QED BY <1>1, ReportHolds, PTL DEF BriefingSpec, HeaderAgrees

(***************************************************************************)
(* Silence is never false: neither an empty waiting section nor a doubt of *)
(* the operator's name is contradicted by a handoff that stayed open.      *)
(***************************************************************************)
THEOREM SilenceIsHonest == BriefingSpec => QuietIsHonest
<1>1. ReportInv /\ [BriefingNext]_allVars =>
        [Answering =>
           /\ report'.sections.waiting.total = 0 => \A i \in stayed : ~Due("waiting", i)
           /\ ~report'.seen => \A i \in stayed :
                report.operator \notin {handoffs[i].from_agent, handoffs[i].to_agent}]_allVars
  BY AnswerHonest
<1> QED BY <1>1, ReportHolds, PTL DEF BriefingSpec, QuietIsHonest

(***************************************************************************)
(* A page length never passes for a total, and a section says it is cut    *)
(* short exactly when it titles fewer than it counts.                      *)
(***************************************************************************)
THEOREM TotalsCountAll == BriefingSpec => TotalsNotPages
<1>1. ReportInv /\ [BriefingNext]_allVars =>
        [Answering => \A s \in Sections : LET section == report'.sections[s] IN
           /\ section.total >= Cardinality({i \in stayed : Due(s, i)})
           /\ section.truncated <=> section.total > Cardinality(section.items)]_allVars
  BY AnswerTotals
<1> QED BY <1>1, ReportHolds, PTL DEF BriefingSpec, TotalsNotPages
===============================================================================
