------------------------------ MODULE QueueView -------------------------------
(* HandoffBus as a report reads it: the mapping under which it implements BusMoves. *)
EXTENDS BusMoves

(* Merged work is as closed to a report as completed work. *)
AsRead(row) ==
  [from_agent |-> row.from_agent, to_agent |-> row.to_agent,
   status |-> IF Closed(row) THEN "completed" ELSE row.status,
   accepted_by |-> row.accepted_by, category |-> row.category, in_reply_to |-> NULL,
   commit_hash |-> NULL, merge_commit |-> NULL, dedupe_key |-> row.dedupe_key,
   repeat_count |-> row.repeat_count]

Queue == [i \in DOMAIN handoffs |-> AsRead(handoffs[i])]

(* An id drawn by a create that has not inserted its row is nobody's yet. *)
Moves == INSTANCE BusMoves WITH
  handoffs <- Queue, audit <- <<>>, drawn <- Known, calls <- [p \in Calls |-> Idle],
  Categories <- Spellings

(***************************************************************************)
(* A report may take the bus for what BusMoves says it is: whatever the    *)
(* calls, writers of one row among them, do between their statements, a    *)
(* handoff is claimed at most once, by somebody, it stays closed once it   *)
(* is closed, an id is never filed twice, and nothing else it reads        *)
(* changes.                                                                *)
(***************************************************************************)
ReportsSeeMoves == Moves!MovesSpec
===============================================================================
