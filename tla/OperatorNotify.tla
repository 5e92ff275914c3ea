---------------------------- MODULE OperatorNotify ----------------------------
(***************************************************************************)
(* operator-notify.sh: a cron job that polls GET /api/pending with a       *)
(* `since' cursor kept in a file, mails what is new, and moves the cursor. *)
(*                                                                         *)
(* Time is counted in ticks, TicksPerSecond to the second.  An UPDATE of a *)
(* handoff stamps updated_at with the start of its transaction and is seen *)
(* from its commit on, at most Lag ticks later.  The cursor is the script  *)
(* host's clock, which is Ahead ticks ahead of the database's, cut to the  *)
(* whole second; nothing happens exactly on a whole second, so a stamp is  *)
(* later than the cursor when its second is not earlier.                   *)
(*                                                                         *)
(* Runs are cron jobs nothing keeps from overlapping.  A run may stop      *)
(* after any step.                                                         *)
(*                                                                         *)
(* Neither the lag of commits nor the page of a poll is covered by the     *)
(* cursor.  The history variables `late' and `cut' (and the field `left'   *)
(* of a run) record what fell through; no guard reads them.                *)
(***************************************************************************)
EXTENDS Naturals, FiniteSets

CONSTANTS
  Items,           \* action handoffs addressed to the operator
  Runs,            \* runs of the script in progress at once
  PageLimit,       \* the default limit of /api/pending
  TicksPerSecond,
  Lag,             \* how long a commit may come after its timestamp
  Ahead,           \* how far the script host's clock is ahead
  MaxTime,         \* the last tick of the instance
  NULL

ASSUME NotifyAssumption ==
  /\ PageLimit \in Nat \ {0} /\ TicksPerSecond \in Nat \ {0}
  /\ Lag \in Nat /\ Ahead \in Nat /\ MaxTime \in Nat
  /\ NULL \notin Nat

VARIABLES
  now,       \* the database's clock
  queue,     \* item |-> updated_at of the committed row; NULL if it is not open
  writing,   \* item |-> the stamp of the UPDATE in flight on its row, or NULL
  closed,    \* the items completed
  cursor,    \* the second the cursor file holds; NULL if missing or empty
  runs,      \* run |-> the script's variables
  reported,  \* the <<item, stamp>> pairs that went out in a digest
  late,      \* history: the pairs committed behind a cursor or a poll
  cut        \* history: the pairs a page left out and a cursor then passed

server == <<queue, writing, closed>>
script == <<cursor, runs, reported>>
vars == <<now, server, script, late, cut>>

-------------------------------------------------------------------------------
Second(t) == t \div TicksPerSecond

Stages == {"idle", "starting", "polling", "sending", "sent", "saving"}

Pairs == Items \X Nat

(***************************************************************************)
(* since is dropped once it is polled with and items once it is mailed;    *)
(* left is what matched, was not on the page, and is older than started.   *)
(***************************************************************************)
Run == [at : Stages, since : Nat \cup {NULL}, started : Nat,
        items : SUBSET Pairs, left : SUBSET Pairs]

IdleRun == [at |-> "idle", since |-> NULL, started |-> 0, items |-> {}, left |-> {}]

FaultySince(stamp, since) == since = NULL \/ Second(stamp) > since

(* `updated_at > since', or no cursor at all. *)
Since(stamp, since) == since = NULL \/ Second(stamp) >= since

IsOpen(i) == queue[i] # NULL

(***************************************************************************)
(* list_pending_for_agent: the newest PageLimit of the open items touched  *)
(* after the cursor.                                                       *)
(***************************************************************************)
Matching(since) == {<<i, queue[i]>> : i \in {i \in Items : IsOpen(i) /\ Since(queue[i], since)}}

FullPages(rows) ==
  {s \in SUBSET rows : /\ Cardinality(s) = PageLimit
                       /\ \A x \in s, y \in rows \ s : x[2] >= y[2]}

Pages(rows) == IF Cardinality(rows) <= PageLimit THEN {rows} ELSE FullPages(rows)

-------------------------------------------------------------------------------
(* The server *)

(***************************************************************************)
(* A stamp of t appears when the cursor, or what a run in progress already *)
(* read, is past it: the run will not poll it and will leave a cursor that *)
(* is later still.                                                         *)
(***************************************************************************)
Overtaken(t) ==
  \/ cursor # NULL /\ Second(t) < cursor
  \/ \E r \in Runs : /\ runs[r].at = "polling" /\ runs[r].since # NULL
                     /\ Second(t) < runs[r].since
  \/ \E r \in Runs : /\ runs[r].at \in {"sending", "sent", "saving"}
                     /\ Second(t) < runs[r].started

(***************************************************************************)
(* An INSERT or UPDATE of an item begins: a filing, a suppressed filing, a *)
(* claim, a stored embedding.  Two of one row are apart by a tick or more  *)
(* and the row lock keeps the second waiting.                              *)
(***************************************************************************)
BeginWrite(i) ==
  /\ i \notin closed /\ writing[i] = NULL /\ queue[i] # now
  /\ writing' = [writing EXCEPT ![i] = now]
  /\ UNCHANGED <<queue, closed, now, script, late, cut>>

CommitWrite(i) ==
  /\ writing[i] # NULL
  /\ queue' = [queue EXCEPT ![i] = writing[i]]
  /\ writing' = [writing EXCEPT ![i] = NULL]
  /\ late' = late \cup {x \in {<<i, writing[i]>>} : Overtaken(x[2])}
  /\ UNCHANGED <<closed, now, script, cut>>

Close(i) ==
  /\ IsOpen(i) /\ writing[i] = NULL
  /\ queue' = [queue EXCEPT ![i] = NULL]
  /\ closed' = closed \cup {i}
  /\ UNCHANGED <<writing, now, script, late, cut>>

(* Time does not pass a transaction by for longer than Lag. *)
Tick ==
  /\ now < MaxTime
  /\ \A i \in Items : writing[i] # NULL => now < writing[i] + Lag
  /\ now' = now + 1
  /\ UNCHANGED <<server, script, late, cut>>

-------------------------------------------------------------------------------
(* The script *)

FaultyCursorAfter(r) == Second(now + Ahead)

(***************************************************************************)
(* The cursor a successful run leaves: poll_started, never the time the    *)
(* poll returned or the mail went out.                                     *)
(***************************************************************************)
CursorAfter(r) == runs[r].started

Start(r) ==
  /\ runs[r].at = "idle"
  /\ runs' = [runs EXCEPT ![r] = [IdleRun EXCEPT !.at = "starting",
                                                 !.started = Second(now + Ahead)]]
  /\ UNCHANGED <<now, server, cursor, reported, late, cut>>

ReadCursor(r) ==
  /\ runs[r].at = "starting"
  /\ runs' = [runs EXCEPT ![r].at = "polling", ![r].since = cursor]
  /\ UNCHANGED <<now, server, cursor, reported, late, cut>>

Stop(r) ==
  /\ runs' = [runs EXCEPT ![r] = IdleRun]
  /\ UNCHANGED <<now, server, cursor, reported, late, cut>>

Poll(r) ==
  /\ runs[r].at = "polling"
  /\ \E page \in Pages(Matching(runs[r].since)) :
       runs' = [runs EXCEPT ![r].since = NULL,
                            ![r].items = page,
                            ![r].left = {x \in Matching(runs[r].since) \ page :
                                           Second(x[2]) < runs[r].started},
                            ![r].at = IF page = {} THEN "sent" ELSE "sending"]
  /\ UNCHANGED <<now, server, cursor, reported, late, cut>>

(***************************************************************************)
(* curl failed, or the answer did not have the poll's shape.               *)
(***************************************************************************)
PollFails(r) == runs[r].at = "polling" /\ Stop(r)

Send(r) ==
  /\ runs[r].at = "sending"
  /\ runs' = [runs EXCEPT ![r].at = "sent", ![r].items = {}]
  /\ reported' = reported \cup runs[r].items
  /\ UNCHANGED <<now, server, cursor, late, cut>>

FaultySendFails(r) ==
  /\ runs[r].at = "sending"
  /\ runs' = [runs EXCEPT ![r].at = "sent", ![r].items = {}]
  /\ UNCHANGED <<now, server, cursor, reported, late, cut>>

SendFails(r) == runs[r].at = "sending" /\ Stop(r)

(***************************************************************************)
(* The shell's redirection empties the file before echo fills it.          *)
(***************************************************************************)
EmptyCursor(r) ==
  /\ runs[r].at = "sent"
  /\ runs' = [runs EXCEPT ![r].at = "saving"]
  /\ cursor' = NULL
  /\ UNCHANGED <<now, server, reported, late, cut>>

SaveCursor(r) ==
  /\ runs[r].at = "saving"
  /\ runs' = [runs EXCEPT ![r] = IdleRun]
  /\ cursor' = CursorAfter(r)
  /\ cut' = cut \cup runs[r].left
  /\ UNCHANGED <<now, server, reported, late>>

Crash(r) == runs[r].at # "idle" /\ Stop(r)

Reset ==
  /\ cursor' = NULL
  /\ UNCHANGED <<now, server, runs, reported, late, cut>>

-------------------------------------------------------------------------------
Init ==
  /\ now = 0
  /\ queue = [i \in Items |-> NULL]
  /\ writing = [i \in Items |-> NULL]
  /\ closed = {}
  /\ cursor = NULL
  /\ runs = [r \in Runs |-> IdleRun]
  /\ reported = {}
  /\ late = {}
  /\ cut = {}

Write(i) == BeginWrite(i) \/ CommitWrite(i) \/ Close(i)

Work(r) == ReadCursor(r) \/ Poll(r) \/ Send(r) \/ EmptyCursor(r) \/ SaveCursor(r)

Trouble(r) == PollFails(r) \/ SendFails(r) \/ Crash(r)

Next ==
  \/ Tick \/ Reset
  \/ \E i \in Items : Write(i)
  \/ \E r \in Runs : Start(r) \/ Work(r) \/ Trouble(r)

Spec == Init /\ [][Next]_vars

(* Days on which nothing fails and nobody resets the cursor. *)
QuietNext ==
  \/ Tick
  \/ \E i \in Items : Write(i)
  \/ \E r \in Runs : Start(r) \/ Work(r)

QuietSpec == Init /\ [][QuietNext]_vars

(***************************************************************************)
(* cron starts run after run and a run takes its steps; runs may be        *)
(* killed, and polling and sending may fail, but not for ever.             *)
(***************************************************************************)
CronFairness ==
  \A r \in Runs : /\ WF_vars(Start(r)) /\ WF_vars(Work(r) \/ Trouble(r))
                  /\ SF_vars(ReadCursor(r)) /\ SF_vars(Poll(r)) /\ SF_vars(Send(r))

CommitFairness == \A i \in Items : WF_vars(CommitWrite(i))

FairSpec == Spec /\ CronFairness /\ CommitFairness

-------------------------------------------------------------------------------
TypeOK ==
  /\ now \in Nat
  /\ queue \in [Items -> Nat \cup {NULL}]
  /\ writing \in [Items -> Nat \cup {NULL}]
  /\ closed \subseteq Items
  /\ cursor \in Nat \cup {NULL}
  /\ runs \in [Runs -> Run]
  /\ reported \subseteq Pairs /\ late \subseteq Pairs /\ cut \subseteq Pairs

AsItStands(i) == <<i, queue[i]>>

IsReported(i) == AsItStands(i) \in reported

(* The items a cursor of `second' says were dealt with. *)
Before(second) == {i \in Items : IsOpen(i) /\ Second(queue[i]) < second}

(***************************************************************************)
(* What docs/operator-notify.md says of the digest: anything new since the *)
(* last run.  An open item the cursor has passed went out as it stands.    *)
(***************************************************************************)
NothingSkipped == cursor # NULL => \A i \in Before(cursor) : IsReported(i)

(* A whole second may begin between the stamp and the end of lag and skew. *)
StraddlesASecond(t) == Second(t) < Second(t + Lag + Ahead)

(* A page's worth of rows not older than t went out. *)
Crowd(t) ==
  \E s \in SUBSET reported : Cardinality(s) = PageLimit /\ \A x \in s : x[2] >= t

(***************************************************************************)
(* An open item that the cursor has passed went out in a digest as it      *)
(* stands now, whichever polls and sends failed, wherever runs stopped and *)
(* however they overlapped, but for two reasons: its commit came behind a  *)
(* cursor or a poll, with a stamp that lag and skew carry over a whole     *)
(* second; or a full page of newer items went out in its place.            *)
(***************************************************************************)
SkipsExplained ==
  cursor # NULL =>
    \A i \in Before(cursor) :
      \/ IsReported(i)
      \/ AsItStands(i) \in late /\ StraddlesASecond(queue[i])
      \/ AsItStands(i) \in cut /\ Crowd(queue[i])

-------------------------------------------------------------------------------
(* The inductive invariant *)

Explained(i) == AsItStands(i) \in reported \cup late \cup cut

CursorCovered == cursor # NULL => \A i \in Before(cursor) : Explained(i)

(***************************************************************************)
(* What a run in progress may rely on: it will cover all that its new      *)
(* cursor passes, but for what its page left out.                          *)
(***************************************************************************)
Covered(r) ==
  LET run == runs[r]
  IN /\ run.at = "polling" /\ run.since # NULL => \A i \in Before(run.since) : Explained(i)
     /\ run.at = "sending" =>
          \A i \in Before(run.started) :
            Explained(i) \/ AsItStands(i) \in run.items \cup run.left
     /\ run.at \in {"sent", "saving"} =>
          \A i \in Before(run.started) : Explained(i) \/ AsItStands(i) \in run.left

(***************************************************************************)
(* A page leaves something out only when it is full of what is not older,  *)
(* and that has been mailed when the run moves on.                         *)
(***************************************************************************)
PageFull(r) ==
  LET run == runs[r]
  IN \A y \in run.left :
       \/ run.at = "sending" /\ Cardinality(run.items) = PageLimit
                            /\ \A x \in run.items : x[2] >= y[2]
       \/ run.at \in {"sent", "saving"} /\ Crowd(y[2])

Clocks ==
  /\ cursor # NULL => cursor <= Second(now + Ahead)
  /\ \A r \in Runs : /\ runs[r].started <= Second(now + Ahead)
                     /\ runs[r].since # NULL => runs[r].since <= Second(now + Ahead)
  /\ \A i \in Items : writing[i] # NULL => writing[i] <= now /\ now <= writing[i] + Lag

Histories ==
  /\ \A x \in late : StraddlesASecond(x[2])
  /\ \A x \in cut : Crowd(x[2])

(***************************************************************************)
(* What SkipsExplained rests on: the cursor and every run in progress have *)
(* covered all that they pass, and what fell through did so for a reason.  *)
(***************************************************************************)
NotifyInv ==
  /\ TypeOK /\ Clocks /\ Histories /\ CursorCovered
  /\ \A r \in Runs : Covered(r) /\ PageFull(r)

(***************************************************************************)
(* A handoff to the operator is mailed in the end as it stands, unless it  *)
(* is completed or changes again first, committed behind the cursor, or    *)
(* was left out of a page.                                                 *)
(***************************************************************************)
Delivered ==
  \A i \in Items, t \in 0 .. MaxTime :
    queue[i] = t ~> (queue[i] # t \/ <<i, t>> \in reported \cup late \cup cut)
===============================================================================
