------------------------------- MODULE BusMoves -------------------------------
(***************************************************************************)
(* The bus as a report sees it that reads open handoffs, and of closed     *)
(* ones no more than whom they name: no calls, no tombstones, no commits   *)
(* and no replies, only rows that are filed, claimed, closed and deleted,  *)
(* each in one step.  `drawn' are the ids that were ever a row's.          *)
(* QueueView shows that HandoffBus, whatever its calls are in the middle   *)
(* of, makes no other move; Briefing runs against these.                   *)
(***************************************************************************)
EXTENDS HandoffBus

Closed(row) == row.status \notin Open

Files ==
  /\ \E i \in Ids \ drawn, from \in Agents, to \in Agents \cup {NULL}, cat \in Categories :
       /\ Insert(i, PendingRow(from, to, cat, NULL, NULL))
       /\ drawn' = drawn \cup {i}
  /\ UNCHANGED <<audit, calls>>

(* Nobody claims a broadcast without a name. *)
Claims ==
  /\ \E i \in DOMAIN handoffs, agent \in Agents \cup {NULL} :
       /\ handoffs[i].status = "pending"
       /\ IsBroadcast(handoffs[i]) => agent # NULL
       /\ Update(i, AcceptedRow(handoffs[i], agent))
  /\ UNCHANGED <<audit, drawn, calls>>

Completes ==
  /\ \E i \in DOMAIN handoffs :
       ~Closed(handoffs[i]) /\ Update(i, CompletedRow(handoffs[i], NULL))
  /\ UNCHANGED <<audit, drawn, calls>>

Deletes ==
  /\ \E i \in DOMAIN handoffs : Remove(i)
  /\ UNCHANGED <<audit, drawn, calls>>

MovesSpec == Init /\ [][Files \/ Claims \/ Completes \/ Deletes \/ Ingest]_vars
===============================================================================
