----------------------------- MODULE BriefingInv ------------------------------
(***************************************************************************)
(* The inductive invariant behind Briefing's properties: what a report,    *)
(* between its statements, still knows of a table that moves on.           *)
(***************************************************************************)
EXTENDS Briefing

(* The bus under a report has no calls and leaves no tombstones. *)
TableOK ==
  /\ TypeOK /\ audit = <<>> /\ calls = [p \in Calls |-> Idle]
  /\ DOMAIN handoffs \subseteq drawn /\ IsFiniteSet(drawn)

(* A rank counts earlier rows only, and machines address what they file. *)
ColumnsOK ==
  \A i \in DOMAIN filed :
    /\ filed[i].rank < Cardinality(drawn)
    /\ filed[i].machine => handoffs[i].to_agent # NULL

BriefRow == [machine : BOOLEAN, urgent : BOOLEAN, age : 0 .. MaxAge, rank : Nat,
             from : Agents, to : Agents \cup {NULL}, status : Open,
             holder : Agents \cup {NULL}, repeats : 0 .. MaxRepeat]

(* The list in hand is a list of distinct open rows. *)
RowsOK ==
  /\ DOMAIN report = DOMAIN IdleReport
  /\ IsFiniteSet(DOMAIN report.rows)
  /\ report.rows \in [DOMAIN report.rows -> BriefRow]
  /\ \A i, j \in DOMAIN report.rows : i # j => report.rows[i].rank # report.rows[j].rank
  /\ Running => report.operator \in Agents

HasList == report.at \in {"seen", "triage"}

(* What stayed open is on the list, as it is now in all that never changes. *)
Followed ==
  HasList => \A i \in stayed :
    /\ i \in DOMAIN report.rows
    /\ LET b == report.rows[i]
       IN /\ b.machine = filed[i].machine /\ b.urgent = filed[i].urgent
          /\ b.age = filed[i].age /\ b.rank = filed[i].rank
          /\ b.from = handoffs[i].from_agent /\ b.to = handoffs[i].to_agent

(* The header is of the queue that was listed, unless that moved between. *)
HeaderOK ==
  LET c == report.counts
  IN /\ report.at = "list" \/ HasList => c.open = c.pending + c.accepted
     /\ report.at = "list" /\ ~moved => c.open = Cardinality(OpenActions)
     /\ HasList /\ ~moved => c.open = Cardinality(DOMAIN report.rows)

(* A name in doubt was on no row when it was looked up, and rows keep theirs. *)
DoubtOK ==
  report.at = "triage" /\ ~report.seen => \A i \in stayed :
    report.operator \notin {handoffs[i].from_agent, handoffs[i].to_agent}

(***************************************************************************)
(* Whatever the bus and the calendar do between the statements of a        *)
(* report, its list follows what stayed open, its header is of the listed  *)
(* queue unless that moved, and its doubt of the operator's name is        *)
(* founded.                                                                *)
(***************************************************************************)
ReportInv ==
  /\ BriefingTypeOK /\ TableOK /\ ColumnsOK /\ RowsOK /\ Followed /\ HeaderOK /\ DoubtOK
===============================================================================
