------------------------------- MODULE Briefing -------------------------------
(***************************************************************************)
(* POST /api/briefing, the fleet-wide report for the operator, against a   *)
(* bus that keeps moving.  Its header comes from one statement, its        *)
(* sections from a second, and what it says of an empty queue from a third *)
(* that is issued only if the queue is empty.  A briefing writes nothing,  *)
(* so one at a time shows all that can happen to it; and it reads nothing  *)
(* of a call but the open rows, so the bus is here what BusMoves makes of   *)
(* it.                                                                     *)
(*                                                                         *)
(* The columns that only the briefing reads (origin, priority, created_at) *)
(* are kept beside the bus's rows.  A list of rows is a set of ids, with   *)
(* the order of created_at, id as a rank of each row: the first n of a     *)
(* list are those with fewer than n before them.  The markdown, the        *)
(* grouping of the stuck by recipient and the legacy title lists are left  *)
(* out.                                                                    *)
(***************************************************************************)
EXTENDS BusMoves

CONSTANTS
  StuckPending,    \* STUCK_PENDING_DAYS
  StuckAccepted,   \* STUCK_ACCEPTED_DAYS
  Cap,             \* OPERATOR_SECTION_CAP, FAILING_SECTION_CAP, STUCK_SECTION_CAP
  MaxAge,          \* ages from here on are not told apart
  MaxMoves         \* the most steps of bus and calendar while one briefing runs

ASSUME BriefingAssumption ==
  /\ StuckPending \in Nat /\ StuckAccepted \in Nat /\ Cap \in Nat \ {0}
  /\ StuckPending <= StuckAccepted /\ MaxAge \in Nat /\ StuckAccepted < MaxAge
  /\ MaxMoves \in Nat
  /\ NULL \notin Nat \cup BOOLEAN

VARIABLES
  filed,     \* id |-> these columns, for the rows that exist
  report,    \* the locals of the handler, with its answer
  stayed,    \* the action handoffs that were open ever since the briefing began
  moved,     \* an action handoff was opened, claimed or closed between header and list
  moves      \* steps of bus and calendar since the briefing began

briefVars == <<filed, report, stayed, moved, moves>>
allVars == <<vars, briefVars>>

-------------------------------------------------------------------------------
(* `rank' is how many rows were inserted before, `age' the days since. *)
Columns == [machine : BOOLEAN, urgent : BOOLEAN, age : 0 .. MaxAge, rank : Nat]

OpenAction(row) == row.status \in Open /\ row.category = "action"

OpenActions == {i \in DOMAIN handoffs : OpenAction(handoffs[i])}

(* One line of the projection of list_open_action_briefs. *)
Brief(i) ==
  LET row == handoffs[i]
      f == filed[i]
  IN [machine |-> f.machine, urgent |-> f.urgent, age |-> f.age, rank |-> f.rank,
      from |-> row.from_agent, to |-> row.to_agent, status |-> row.status,
      holder |-> row.accepted_by, repeats |-> row.repeat_count]

Listed == [i \in OpenActions |-> Brief(i)]

FaultyNewestFirst(b, c) == b.rank > c.rank

(* ORDER BY created_at, id *)
OldestFirst(b, c) == b.rank < c.rank

FaultyCounted == {i \in OpenActions : handoffs[i].to_agent # NULL}

(* The filter of count_open_handoffs. *)
Counted == OpenActions

WithStatus(ids, status) == Cardinality({i \in ids : handoffs[i].status = status})

FaultyNamesRecipient(row, agent) == row.to_agent = agent

(* agent_seen_before: acceptors do not count. *)
Names(row, agent) == row.from_agent = agent \/ row.to_agent = agent

-------------------------------------------------------------------------------
(* triage *)

(* The addressed recipient or the acceptor of a claimed broadcast; NULL is
   "(unaddressed)". *)
Recipient(b) == IF b.to # NULL THEN b.to ELSE IF b.status = "accepted" THEN b.holder ELSE NULL

IsSelfAddressed(b) == b.to # NULL /\ b.to = b.from

IsStuck(status, age) ==
  \/ status = "pending" /\ age > StuckPending
  \/ status = "accepted" /\ age > StuckAccepted

FaultyFailing(b, operator) == b.machine /\ b.urgent

Failing(b, operator) == b.machine /\ b.urgent /\ Recipient(b) # operator

Stuck(b, operator) ==
  /\ Recipient(b) # operator /\ ~IsSelfAddressed(b) /\ ~b.machine
  /\ IsStuck(b.status, b.age)

(* The rows of a list that come before one of them. *)
Ahead(rows, ids, i) == {j \in ids : OldestFirst(rows[j], rows[i])}

FaultyTotal(ids) == IF Cardinality(ids) > Cap THEN Cap ELSE Cardinality(ids)

(* A total is never the length of a page. *)
Total(ids) == Cardinality(ids)

Section(rows, ids) ==
  [total |-> Total(ids), truncated |-> Cardinality(ids) > Cap,
   items |-> {i \in ids : Cardinality(Ahead(rows, ids, i)) < Cap}]

Bucket(rows, ids) ==
  [count |-> Cardinality(ids),
   oldest |-> IF ids = {} THEN NULL ELSE rows[CHOOSE i \in ids : Ahead(rows, ids, i) = {}].age,
   repeating |-> Cardinality({i \in ids : rows[i].repeats > 0})]

RowsOf(rows, who) == {i \in DOMAIN rows : Recipient(rows[i]) = who}

Triage(rows, operator) ==
  [waiting |-> Section(rows, RowsOf(rows, operator)),
   failing |-> Section(rows, {i \in DOMAIN rows : Failing(rows[i], operator)}),
   stuck |-> Section(rows, {i \in DOMAIN rows : Stuck(rows[i], operator)}),
   by_recipient |-> [who \in {Recipient(rows[i]) : i \in DOMAIN rows} |->
                      Cardinality(RowsOf(rows, who))],
   self_addressed |-> Bucket(rows, {i \in DOMAIN rows : IsSelfAddressed(rows[i])}),
   machine_findings |-> Bucket(rows, {i \in DOMAIN rows : rows[i].machine})]

-------------------------------------------------------------------------------
(* generate_briefing_inner *)

BriefingSteps == {"idle", "count", "list", "seen", "triage", "answered"}

NoCounts == [open |-> 0, pending |-> 0, accepted |-> 0]

NoRows == [i \in {} |-> NULL]

IdleReport == [at |-> "idle", operator |-> NULL, counts |-> NoCounts, rows |-> NoRows,
               seen |-> NULL, sections |-> NULL]

Running == report.at \notin {"idle", "answered"}

BeginBriefing ==
  /\ ~Running
  /\ \E operator \in Agents :
       report' = [IdleReport EXCEPT !.at = "count", !.operator = operator]
  /\ stayed' = OpenActions /\ moved' = FALSE /\ moves' = 0
  /\ UNCHANGED <<vars, filed>>

Count ==
  /\ report.at = "count"
  /\ report' = [report EXCEPT !.at = "list",
                  !.counts = [open |-> Cardinality(Counted),
                              pending |-> WithStatus(Counted, "pending"),
                              accepted |-> WithStatus(Counted, "accepted")]]
  /\ moved' = FALSE
  /\ UNCHANGED <<vars, filed, stayed, moves>>

(* The third statement is spared if the queue is not empty. *)
List ==
  /\ report.at = "list"
  /\ LET waits == RowsOf(Listed, report.operator) # {}
     IN report' = [report EXCEPT !.rows = Listed, !.seen = IF waits THEN TRUE ELSE NULL,
                                 !.at = IF waits THEN "triage" ELSE "seen"]
  /\ UNCHANGED <<vars, filed, stayed, moved, moves>>

FaultyFamiliar(failed, operator) ==
  IF failed THEN NULL ELSE \E i \in DOMAIN handoffs : Names(handoffs[i], operator)

(* If the statement fails the operator is taken to be known. *)
Familiar(failed, operator) ==
  failed \/ \E i \in DOMAIN handoffs : Names(handoffs[i], operator)

SeenBefore ==
  /\ report.at = "seen"
  /\ \E failed \in BOOLEAN :
       report' = [report EXCEPT !.at = "triage", !.seen = Familiar(failed, report.operator)]
  /\ UNCHANGED <<vars, filed, stayed, moved, moves>>

(* The clock is read now: the ages are those of the answer. *)
Render ==
  /\ report.at = "triage"
  /\ report' = [report EXCEPT !.at = "answered", !.rows = NoRows,
                              !.sections = Triage(report.rows, report.operator)]
  /\ stayed' = {} /\ moved' = FALSE /\ moves' = 0
  /\ UNCHANGED <<vars, filed>>

(* The next step of the system finds the answer sent. *)
Sent == IF report.at = "answered" THEN IdleReport ELSE report

(* A statement fails, the caller goes away or the server restarts. *)
BriefingFails ==
  /\ Running
  /\ report' = IdleReport /\ stayed' = {} /\ moved' = FALSE /\ moves' = 0
  /\ UNCHANGED <<vars, filed>>

-------------------------------------------------------------------------------
(* The bus and the calendar *)

Born(machine, urgent) ==
  [machine |-> machine, urgent |-> urgent, age |-> 0, rank |-> Cardinality(drawn)]

WithinMoves ==
  /\ Running => moves < MaxMoves
  /\ moves' = IF Running THEN moves + 1 ELSE 0

(* What a statement of the bus does to the columns beside its rows. *)
Keep(machine) ==
  LET new == DOMAIN handoffs' \ DOMAIN handoffs
      open == {i \in DOMAIN handoffs' : OpenAction(handoffs'[i])}
  IN /\ \E urgent \in IF machine /\ new # {} THEN BOOLEAN ELSE {FALSE} :
          filed' = [i \in DOMAIN handoffs' |->
                     IF i \in new THEN Born(machine, urgent) ELSE filed[i]]
     /\ stayed' = stayed \cap open
     /\ moved' = (moved \/ /\ report.at = "list"
                           /\ \/ open # OpenActions
                              \/ \E i \in open : handoffs'[i].status # handoffs[i].status)
     /\ WithinMoves /\ report' = Sent

AgentFiles == Files /\ Keep(FALSE)

AgentClaims == Claims /\ Keep(FALSE)

AgentCompletes == Completes /\ Keep(FALSE)

AgentDeletes == Deletes /\ Keep(FALSE)

MachineFiles == Ingest /\ Keep(TRUE)

Older(age) == IF age < MaxAge THEN age + 1 ELSE MaxAge

AllOlder(rows) == [i \in DOMAIN rows |-> [rows[i] EXCEPT !.age = Older(rows[i].age)]]

DayPasses ==
  /\ \E i \in DOMAIN filed : filed[i].age < MaxAge
  /\ filed' = AllOlder(filed)
  /\ report' = [Sent EXCEPT !.rows = AllOlder(Sent.rows)]
  /\ WithinMoves
  /\ UNCHANGED <<vars, stayed, moved>>

BriefingInit ==
  /\ Init
  /\ filed = NoRows /\ report = IdleReport /\ stayed = {} /\ moved = FALSE /\ moves = 0

BriefingNext ==
  \/ AgentFiles \/ AgentClaims \/ AgentCompletes \/ AgentDeletes \/ MachineFiles \/ DayPasses
  \/ BeginBriefing \/ Count \/ List \/ SeenBefore \/ Render \/ BriefingFails

BriefingSpec == BriefingInit /\ [][BriefingNext]_allVars

-------------------------------------------------------------------------------
(* Properties *)

(***************************************************************************)
(* Every row has its columns and no two have one rank; who comes first is  *)
(* no younger; and an answer always knows whether the operator was ever    *)
(* named, whatever became of the third statement.                          *)
(***************************************************************************)
BriefingTypeOK ==
  /\ filed \in [DOMAIN handoffs -> Columns]
  /\ \A i, j \in DOMAIN filed :
       /\ i # j => filed[i].rank # filed[j].rank
       /\ filed[i].rank < filed[j].rank => filed[i].age >= filed[j].age
  /\ report.at \in BriefingSteps /\ report.operator \in Agents \cup {NULL}
  /\ report.at \in {"triage", "answered"} => report.seen \in BOOLEAN
  /\ stayed \subseteq OpenActions /\ moved \in BOOLEAN /\ moves \in 0 .. MaxMoves

Answering == report.at = "triage" /\ report'.at = "answered"

(* What belongs in each section, whatever is claimed meanwhile: what is     *)
(* addressed to the operator, a failing check of somebody else, and what    *)
(* another agent owes to a third for too long even if it is claimed.        *)
Due(section, i) ==
  LET row == handoffs[i]
      f == filed[i]
  IN CASE section = "waiting" -> row.to_agent = report.operator
       [] section = "failing" -> f.machine /\ f.urgent /\ row.to_agent # report.operator
       [] section = "stuck" ->
            /\ row.to_agent \notin {NULL, report.operator, row.from_agent}
            /\ ~f.machine /\ f.age > StuckAccepted

Sections == {"waiting", "failing", "stuck"}

(***************************************************************************)
(* Nothing that needs the operator's eye is lost or said twice: a handoff  *)
(* open throughout the briefing that is addressed to the operator, is a    *)
(* failing check, or is overdue with another agent, is titled in its       *)
(* section, unless that is cut short and says so; and no handoff is titled *)
(* in two.                                                                 *)
(***************************************************************************)
TitledOnce ==
  [][Answering => LET answer == report'.sections IN
       /\ \A i \in stayed, s \in Sections :
            Due(s, i) => i \in answer[s].items \/ answer[s].truncated
       /\ \A s, t \in Sections : s # t => answer[s].items \cap answer[t].items = {}]_allVars

(***************************************************************************)
(* A section that is cut short keeps the oldest: of two handoffs that both *)
(* were due in it throughout, the younger is never titled in place of the  *)
(* older.                                                                  *)
(***************************************************************************)
OldestTitled ==
  [][Answering =>
       \A i, j \in stayed, s \in Sections :
         /\ Due(s, i) /\ Due(s, j) /\ filed[i].age > filed[j].age
         /\ j \in report'.sections[s].items
         => i \in report'.sections[s].items]_allVars

SumOf(counts) == Cardinality(UNION {{<<who, n>> : n \in 1 .. counts[who]} : who \in DOMAIN counts})

(***************************************************************************)
(* The header, the per-recipient counts and the sections are three views   *)
(* of one queue: the counts of the first two agree whenever no action      *)
(* handoff moved between the two statements, and within the header pending *)
(* and accepted always add up.                                             *)
(***************************************************************************)
HeaderAgrees ==
  [][Answering =>
       /\ report.counts.open = report.counts.pending + report.counts.accepted
       /\ ~moved => report.counts.open = SumOf(report'.sections.by_recipient)]_allVars

(***************************************************************************)
(* Silence is never false: the briefing says that nothing waits only if no *)
(* handoff was addressed to the operator all along, and it doubts the      *)
(* operator's name only if no handoff that stayed open bears it.           *)
(***************************************************************************)
QuietIsHonest ==
  [][Answering =>
       /\ report'.sections.waiting.total = 0 => \A i \in stayed : ~Due("waiting", i)
       /\ ~report'.seen => \A i \in stayed :
            report.operator \notin {handoffs[i].from_agent, handoffs[i].to_agent}]_allVars

(***************************************************************************)
(* A page length never passes for a total: a section counts every handoff  *)
(* of its class that was open throughout, and says it is cut short exactly *)
(* when it titles fewer than it counts.                                    *)
(***************************************************************************)
TotalsNotPages ==
  [][Answering => \A s \in Sections : LET section == report'.sections[s] IN
       /\ section.total >= Cardinality({i \in stayed : Due(s, i)})
       /\ section.truncated <=> section.total > Cardinality(section.items)]_allVars

===============================================================================
