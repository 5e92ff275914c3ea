--------------------------- MODULE HandoffLifecycle ---------------------------
(***************************************************************************)
(* What the bus promises about one handoff, with nothing said about how    *)
(* the promise is kept: every handoff moves through its life in single     *)
(* indivisible steps, a claim always has a holder, work is bundled into a  *)
(* merge only if it carries a commit, and a handoff once deleted stays     *)
(* deleted.  HandoffBus, whose handlers are chains of separate SQL         *)
(* statements from many callers at once, is shown to implement this.       *)
(***************************************************************************)
CONSTANTS
  Ids,       \* handoff ids
  Agents,    \* agent slugs
  Commits,   \* commit references with at least one non-blank character
  Blank,     \* a commit reference of white space only
  NULL

VARIABLE life

Phases == {"unfiled", "pending", "accepted", "completed", "merged", "deleted"}

(***************************************************************************)
(* `holder' is the agent that holds the claim, `work' the commit recorded  *)
(* at completion, `merge' the commit that bundled the work.                *)
(***************************************************************************)
Life == [phase : Phases,
         holder : Agents \cup {NULL},
         work : Commits \cup {Blank, NULL},
         merge : Commits \cup {NULL}]

Unfiled == [phase |-> "unfiled", holder |-> NULL, work |-> NULL, merge |-> NULL]
Deleted == [Unfiled EXCEPT !.phase = "deleted"]

Become(i, new) == life' = [life EXCEPT ![i] = new]

File(i) ==
  /\ life[i].phase = "unfiled"
  /\ Become(i, [Unfiled EXCEPT !.phase = "pending"])

Claim(i) ==
  /\ life[i].phase = "pending"
  /\ \E a \in Agents :
       Become(i, [life[i] EXCEPT !.phase = "accepted", !.holder = a])

Complete(i) ==
  /\ life[i].phase \in {"pending", "accepted"}
  /\ \E c \in Commits \cup {Blank, NULL} :
       Become(i, [life[i] EXCEPT !.phase = "completed", !.work = c])

Merge(i) ==
  /\ life[i].phase = "completed"
  /\ life[i].work \in Commits
  /\ \E c \in Commits :
       Become(i, [life[i] EXCEPT !.phase = "merged", !.merge = c])

Delete(i) ==
  /\ life[i].phase \notin {"unfiled", "deleted"}
  /\ Become(i, Deleted)

Init == life = [i \in Ids |-> Unfiled]

Next == \E i \in Ids : File(i) \/ Claim(i) \/ Complete(i) \/ Merge(i) \/ Delete(i)

Spec == Init /\ [][Next]_life
===============================================================================
