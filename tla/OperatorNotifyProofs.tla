------------------------- MODULE OperatorNotifyProofs -------------------------
(***************************************************************************)
(* operator-notify.sh passes over nothing without one of the two reasons   *)
(* SkipsExplained names, for any number of items and of overlapping runs,  *)
(* any lag of commits, any skew of the clocks and any page size.           *)
(***************************************************************************)
EXTENDS OperatorNotify, Integers, FiniteSetTheorems, TLAPS

(* Whole quotients do not decrease. *)
LEMMA DivisionGrows ==
  ASSUME NEW d \in Nat \ {0}, NEW m \in Nat, NEW n \in Nat, m <= n
  PROVE  m \div d \in Nat /\ n \div d \in Nat /\ m \div d <= n \div d
<1> DEFINE p == m \div d
           q == n \div d
<1>1. p \in Int /\ m = d * p + (m % d) /\ m % d \in 0 .. d - 1
  OBVIOUS
<1>2. q \in Int /\ n = d * q + (n % d) /\ n % d \in 0 .. d - 1
  OBVIOUS
<1>3. p >= 0 /\ q >= 0
  OBVIOUS
<1>4. ASSUME p >= q + 1 PROVE FALSE
  <2>1. d * p >= d * (q + 1)
    BY <1>1, <1>2, <1>4
  <2>2. d * (q + 1) = d * q + d
    BY <1>2
  <2> QED BY <1>1, <1>2, <2>1, <2>2
<1> QED BY <1>1, <1>2, <1>3, <1>4

(* Seconds are natural numbers and do not run backwards. *)
LEMMA SecondsGrow ==
  /\ \A t \in Nat : Second(t) \in Nat
  /\ \A t, u \in Nat : t <= u => Second(t) <= Second(u)
BY NotifyAssumption, DivisionGrows DEF Second

(* What a page is made of. *)
LEMMA PageFacts ==
  ASSUME NEW rows, NEW page \in Pages(rows)
  PROVE  /\ page \subseteq rows
         /\ rows \ page # {} => /\ Cardinality(page) = PageLimit
                                 /\ \A x \in page, y \in rows \ page : x[2] >= y[2]
BY DEF Pages, FullPages

(* What matches a cursor are open items as they stand. *)
LEMMA MatchingFacts ==
  ASSUME TypeOK, NEW since
  PROVE  /\ Matching(since) \subseteq Pairs
         /\ \A i \in Items : IsOpen(i) /\ Since(queue[i], since) => AsItStands(i) \in Matching(since)
BY DEF TypeOK, Matching, Pairs, IsOpen, AsItStands

(* Crowds do not disperse. *)
LEMMA CrowdsStay ==
  ASSUME NEW t, Crowd(t), reported \subseteq reported'
  PROVE  Crowd(t)'
BY DEF Crowd

-------------------------------------------------------------------------------
(* Steps of the server *)

(***************************************************************************)
(* What a write does to the items behind a cursor: they are fewer, stay as *)
(* they are, or were committed late.                                       *)
(***************************************************************************)
LEMMA WritesExplain ==
  ASSUME NotifyInv, NEW i \in Items, Write(i)
  PROVE  /\ UNCHANGED <<now, cursor, runs, reported, cut>>
         /\ late \subseteq late'
         /\ \A second \in Nat, j \in Items :
              j \in Before(second)' =>
                \/ j \in Before(second) /\ queue'[j] = queue[j]
                \/ /\ j = i /\ CommitWrite(i) /\ queue'[j] = writing[i]
                   /\ writing[i] # NULL /\ Second(writing[i]) < second
<1>1. queue \in [Items -> Nat \cup {NULL}]
  BY DEF NotifyInv, TypeOK
<1>2. CASE BeginWrite(i)
  BY <1>2 DEF BeginWrite, script, Before, IsOpen
<1>3. CASE CommitWrite(i)
  BY <1>1, <1>3 DEF CommitWrite, script, Before, IsOpen
<1>4. CASE Close(i)
  BY <1>1, <1>4 DEF Close, script, Before, IsOpen
<1> QED BY <1>2, <1>3, <1>4 DEF Write

(***************************************************************************)
(* What is committed behind the cursor or a run in progress is in `late'.  *)
(***************************************************************************)
LEMMA OvertakenIsLate ==
  ASSUME NotifyInv, NEW i \in Items, CommitWrite(i), Overtaken(writing[i])
  PROVE  AsItStands(i)' \in late'
<1>1. queue' = [queue EXCEPT ![i] = writing[i]] /\ i \in DOMAIN queue
  BY DEF NotifyInv, TypeOK, CommitWrite
<1>2. late' = late \cup {x \in {<<i, writing[i]>>} : Overtaken(x[2])}
  BY DEF CommitWrite
<1>3. <<i, writing[i]>>[2] = writing[i]
  OBVIOUS
<1>4. <<i, writing[i]>> \in {x \in {<<i, writing[i]>>} : Overtaken(x[2])}
  BY <1>3
<1> QED BY <1>1, <1>2, <1>4 DEF AsItStands

(***************************************************************************)
(* What is in `late' was committed within Lag of its stamp, behind a       *)
(* cursor that no clock of the script had passed.                          *)
(***************************************************************************)
LEMMA LateStraddles ==
  ASSUME NotifyInv, NEW i \in Items, CommitWrite(i), Overtaken(writing[i])
  PROVE  StraddlesASecond(writing[i])
<1> DEFINE t == writing[i]
<1>1. t \in Nat /\ now \in Nat /\ now <= t + Lag /\ Lag \in Nat /\ Ahead \in Nat
  BY NotifyAssumption DEF NotifyInv, TypeOK, Clocks, CommitWrite
<1>2. Second(now + Ahead) <= Second(t + Lag + Ahead)
  BY <1>1, SecondsGrow
<1>3. Second(t) \in Nat /\ Second(now + Ahead) \in Nat /\ Second(t + Lag + Ahead) \in Nat
  BY <1>1, SecondsGrow
<1>4. \E second \in Nat : Second(t) < second /\ second <= Second(now + Ahead)
  <2>1. CASE cursor # NULL /\ Second(t) < cursor
    BY <2>1 DEF NotifyInv, TypeOK, Clocks
  <2>2. ASSUME NEW r \in Runs, runs[r].since # NULL, Second(t) < runs[r].since
        PROVE  \E second \in Nat : Second(t) < second /\ second <= Second(now + Ahead)
    BY <2>2 DEF NotifyInv, TypeOK, Clocks, Run
  <2>3. ASSUME NEW r \in Runs, Second(t) < runs[r].started
        PROVE  \E second \in Nat : Second(t) < second /\ second <= Second(now + Ahead)
    BY <2>3 DEF NotifyInv, TypeOK, Clocks, Run
  <2> QED BY <2>1, <2>2, <2>3 DEF Overtaken
<1> QED BY <1>2, <1>3, <1>4 DEF StraddlesASecond

LEMMA WritesKeepInv ==
  ASSUME NotifyInv, NEW i \in Items, Write(i)
  PROVE  NotifyInv'
<1> USE DEF NotifyInv
<1>1. TypeOK'
  BY DEF TypeOK, Write, BeginWrite, CommitWrite, Close, script, Pairs
<1>2. /\ UNCHANGED <<now, cursor, runs, reported, cut>> /\ late \subseteq late'
      /\ writing \in [Items -> Nat \cup {NULL}] /\ now \in Nat /\ Lag \in Nat
  BY WritesExplain, NotifyAssumption DEF TypeOK
<1>3. Clocks'
  BY <1>2, NotifyAssumption DEF Clocks, Write, BeginWrite, CommitWrite, Close
<1>4. Histories'
  <2>1. \A x \in late' : x \in late \/ (CommitWrite(i) /\ x[2] = writing[i] /\ Overtaken(writing[i]))
    BY DEF Write, BeginWrite, CommitWrite, Close
  <2>2. \A x \in late' : StraddlesASecond(x[2])
    BY <2>1, LateStraddles DEF Histories
  <2> QED BY <1>2, <2>2 DEF Histories, Crowd, StraddlesASecond
<1>5. CursorCovered'
  <2> SUFFICES ASSUME cursor # NULL, NEW j \in Before(cursor)' PROVE Explained(j)'
    BY <1>2 DEF CursorCovered
  <2>1. cursor \in Nat /\ j \in Items
    BY DEF TypeOK, Before
  <2>2. CASE j \in Before(cursor) /\ queue'[j] = queue[j]
    BY <1>2, <2>2 DEF CursorCovered, Explained, AsItStands
  <2>3. CASE j = i /\ CommitWrite(i) /\ Second(writing[i]) < cursor
    BY <2>3, OvertakenIsLate DEF Overtaken, Explained
  <2> QED BY <2>1, <2>2, <2>3, WritesExplain
<1>6. ASSUME NEW r \in Runs PROVE Covered(r)'
  <2>1. runs[r] \in Run /\ runs'[r] = runs[r] /\ Covered(r)
    BY <1>2 DEF TypeOK
  <2>2. ASSUME NEW second \in Nat, NEW j \in Before(second)',
               \/ runs[r].at = "polling" /\ runs[r].since = second /\ runs[r].since # NULL
               \/ runs[r].at \in {"sending", "sent", "saving"} /\ runs[r].started = second
        PROVE  \/ j \in Before(second) /\ queue'[j] = queue[j]
               \/ Explained(j)'
    <3>1. j \in Items
      BY DEF Before
    <3>2. CASE j = i /\ CommitWrite(i) /\ Second(writing[i]) < second
      BY <2>2, <3>2, OvertakenIsLate DEF Overtaken, Explained
    <3> QED BY <3>1, <3>2, WritesExplain
  <2>3. \A j : Explained(j) /\ queue'[j] = queue[j] => Explained(j)'
    BY <1>2 DEF Explained, AsItStands
  <2>4. runs[r].at = "polling" /\ runs[r].since # NULL =>
          \A j \in Before(runs[r].since)' : Explained(j)'
    BY <2>1, <2>2, <2>3 DEF Covered, Run
  <2>5. runs[r].at \in {"sending", "sent", "saving"} =>
          \A j \in Before(runs[r].started)' :
            \/ j \in Before(runs[r].started) /\ queue'[j] = queue[j]
            \/ Explained(j)'
    BY <2>1, <2>2 DEF Run
  <2>6. runs[r].at = "sending" =>
          \A j \in Before(runs[r].started)' :
            Explained(j)' \/ AsItStands(j)' \in runs[r].items \cup runs[r].left
    BY <2>1, <2>3, <2>5 DEF Covered, AsItStands
  <2>7. runs[r].at \in {"sent", "saving"} =>
          \A j \in Before(runs[r].started)' : Explained(j)' \/ AsItStands(j)' \in runs[r].left
    BY <2>1, <2>3, <2>5 DEF Covered, AsItStands
  <2>8. \A second : Before(second)' = {j \in Items : IsOpen(j)' /\ Second(queue'[j]) < second}
    BY DEF Before, Second
  <2> QED BY <2>1, <2>4, <2>6, <2>7, <2>8 DEF Covered, Before, Second
<1>7. ASSUME NEW r \in Runs PROVE PageFull(r)'
  BY <1>2 DEF PageFull, Crowd
<1> QED BY <1>1, <1>3, <1>4, <1>5, <1>6, <1>7

LEMMA TicksKeepInv ==
  ASSUME NotifyInv, Tick
  PROVE  NotifyInv'
<1> USE DEF NotifyInv
<1>1. /\ now \in Nat /\ now' = now + 1 /\ Ahead \in Nat /\ Lag \in Nat
      /\ Second(now + Ahead) \in Nat /\ Second(now' + Ahead) \in Nat
      /\ Second(now + Ahead) <= Second(now' + Ahead)
  BY NotifyAssumption, SecondsGrow DEF TypeOK, Tick
<1>2. UNCHANGED <<queue, writing, closed, cursor, runs, reported, late, cut>>
  BY DEF Tick, server, script
<1>3. TypeOK'
  BY <1>1, <1>2 DEF TypeOK
<1>4. Clocks'
  <2>1. \A i \in Items : writing[i] # NULL =>
          writing[i] \in Nat /\ writing[i] <= now /\ now < writing[i] + Lag
    BY DEF TypeOK, Tick, Clocks
  <2>2. \A r \in Runs : runs[r].started \in Nat /\ runs[r].since \in Nat \cup {NULL}
    BY DEF TypeOK, Run
  <2> QED BY <1>1, <1>2, <2>1, <2>2 DEF TypeOK, Clocks
<1>5. Histories' /\ CursorCovered'
  BY <1>2 DEF Histories, StraddlesASecond, Crowd, CursorCovered, Before, IsOpen, Explained, AsItStands
<1>6. ASSUME NEW r \in Runs PROVE Covered(r)' /\ PageFull(r)'
  BY <1>2 DEF Covered, PageFull, Crowd, Before, IsOpen, Explained, AsItStands
<1> QED BY <1>3, <1>4, <1>5, <1>6

-------------------------------------------------------------------------------
(* Steps of the script *)

(***************************************************************************)
(* A step of one run that leaves the others alone and only adds reports,   *)
(* and rows left out of a page that have a crowd.                          *)
(***************************************************************************)
LEMMA OneRunMoves ==
  ASSUME NotifyInv, NEW r \in Runs, NEW new \in Run,
         UNCHANGED <<now, server, late>>, runs' = [runs EXCEPT ![r] = new],
         new.started <= Second(now + Ahead),
         new.since # NULL => new.since <= Second(now + Ahead),
         reported \subseteq reported', reported' \subseteq Pairs,
         cut \subseteq cut', cut' \subseteq Pairs,
         \A x \in cut' \ cut : Crowd(x[2]),
         cursor' \in Nat \cup {NULL},
         cursor' # NULL => cursor' <= Second(now + Ahead),
         CursorCovered', Covered(r)', PageFull(r)'
  PROVE  NotifyInv'
<1> USE DEF NotifyInv
<1>1. UNCHANGED <<now, queue, writing, closed>>
  BY DEF server
<1>2. TypeOK'
  BY <1>1 DEF TypeOK
<1>3. Clocks'
  <2>1. \A q \in Runs : runs'[q] = new \/ runs'[q] = runs[q]
    BY DEF TypeOK
  <2> QED BY <1>1, <2>1 DEF Clocks
<1>4. Histories'
  <2>1. \A x \in cut' : Crowd(x[2])
    BY DEF Histories
  <2>2. \A x \in cut' : Crowd(x[2])'
    BY <2>1, CrowdsStay
  <2> QED BY <2>2 DEF Histories, StraddlesASecond
<1>5. ASSUME NEW q \in Runs \ {r} PROVE Covered(q)' /\ PageFull(q)'
  <2>1. Covered(q) /\ PageFull(q) /\ runs'[q] = runs[q]
    BY DEF TypeOK
  <2>2. Covered(q)'
    BY <1>1, <2>1 DEF Covered, Before, IsOpen, Explained, AsItStands
  <2>3. PageFull(q)'
    <3>1. \A y \in runs[q].left : Crowd(y[2]) => Crowd(y[2])'
      BY CrowdsStay
    <3> QED BY <2>1, <3>1 DEF PageFull
  <2> QED BY <2>2, <2>3
<1> QED BY <1>2, <1>3, <1>4, <1>5

(* A step that changes neither the queue nor the histories, nor the cursor. *)
LEMMA CursorStaysCovered ==
  ASSUME CursorCovered, UNCHANGED <<server, cursor, late, cut>>, reported \subseteq reported'
  PROVE  CursorCovered'
BY DEF CursorCovered, Before, IsOpen, Explained, AsItStands, server

(***************************************************************************)
(* The answer to a poll, with what it left out, covers what the run's new  *)
(* cursor passes and its old one had not.                                  *)
(***************************************************************************)
LEMMA PollCovers ==
  ASSUME NotifyInv, NEW r \in Runs, runs[r].at = "polling",
         NEW i \in Before(runs[r].started)
  PROVE  Explained(i) \/ AsItStands(i) \in Matching(runs[r].since)
<1>1. runs[r] \in Run /\ Covered(r) /\ i \in Items /\ IsOpen(i) /\ queue[i] \in Nat
  BY DEF NotifyInv, TypeOK, IsOpen, Before
<1>2. Second(queue[i]) \in Nat
  BY <1>1, SecondsGrow
<1>3. CASE Since(queue[i], runs[r].since)
  BY <1>1, <1>3, MatchingFacts DEF NotifyInv
<1>4. CASE ~Since(queue[i], runs[r].since)
  <2>1. runs[r].since # NULL /\ runs[r].since \in Nat /\ Second(queue[i]) < runs[r].since
    BY <1>1, <1>2, <1>4 DEF Since, Run
  <2> QED BY <1>1, <2>1 DEF Covered, Before
<1> QED BY <1>3, <1>4

LEMMA PollsKeepInv ==
  ASSUME NotifyInv, NEW r \in Runs, Poll(r)
  PROVE  NotifyInv'
<1>1. PICK page \in Pages(Matching(runs[r].since)) :
        runs' = [runs EXCEPT ![r].since = NULL,
                             ![r].items = page,
                             ![r].left = {x \in Matching(runs[r].since) \ page :
                                            Second(x[2]) < runs[r].started},
                             ![r].at = IF page = {} THEN "sent" ELSE "sending"]
  BY DEF Poll
<1> DEFINE M == Matching(runs[r].since)
           left == {x \in M \ page : Second(x[2]) < runs[r].started}
           at == IF page = {} THEN "sent" ELSE "sending"
           new == [runs[r] EXCEPT !.since = NULL, !.items = page, !.left = left, !.at = at]
<1>2. /\ runs[r].at = "polling" /\ UNCHANGED <<now, server, cursor, reported, late, cut>>
      /\ TypeOK /\ Clocks /\ CursorCovered /\ runs[r] \in Run
  BY DEF Poll, NotifyInv, TypeOK
<1>3. /\ M \subseteq Pairs /\ page \subseteq M
      /\ M \ page # {} => /\ Cardinality(page) = PageLimit
                          /\ \A x \in page, y \in M \ page : x[2] >= y[2]
  BY <1>2, PageFacts, MatchingFacts
<1>4. new \in Run /\ runs' = [runs EXCEPT ![r] = new] /\ runs'[r] = new
  BY <1>1, <1>2, <1>3 DEF Run, Stages, TypeOK
<1>5. /\ new.at = at /\ new.since = NULL /\ new.started = runs[r].started
      /\ new.items = page /\ new.left = left
  BY <1>2 DEF Run
<1>6. \A i \in Before(runs[r].started) : Explained(i) \/ AsItStands(i) \in page \cup left
  <2> SUFFICES ASSUME NEW i \in Before(runs[r].started), ~Explained(i), AsItStands(i) \notin page
               PROVE  AsItStands(i) \in left
    OBVIOUS
  <2>1. AsItStands(i) \in M /\ Second(queue[i]) < runs[r].started
    BY <1>2, PollCovers DEF Before
  <2> QED BY <2>1 DEF AsItStands
<1>7. Covered(r)'
  <2>1. runs'[r].started = runs[r].started
    BY <1>4, <1>5
  <2>2. \A i \in Before(runs[r].started)' :
          Explained(i)' \/ AsItStands(i)' \in page \cup left
    BY <1>2, <1>6, <2>1 DEF Before, IsOpen, Explained, AsItStands, server
  <2>3. page = {} => runs'[r].at = "sent"
    BY <1>4, <1>5
  <2>4. runs'[r].at # "polling" /\ (page # {} => runs'[r].at = "sending")
    <3>1. runs'[r].at = IF page = {} THEN "sent" ELSE "sending"
      BY <1>4, <1>5
    <3> QED BY <3>1
  <2>5. runs'[r].items = page /\ runs'[r].left = left
    BY <1>4, <1>5
  <2> HIDE DEF left, at, new
  <2> QED BY <2>1, <2>2, <2>3, <2>4, <2>5 DEF Covered, Before
<1>8. PageFull(r)'
  <2> SUFFICES ASSUME NEW y \in left
               PROVE  /\ at = "sending" /\ Cardinality(page) = PageLimit
                      /\ \A x \in page : x[2] >= y[2]
    BY <1>4, <1>5 DEF PageFull
  <2>1. Cardinality(page) = PageLimit /\ \A x \in page : x[2] >= y[2]
    BY <1>3
  <2>2. page # {}
    BY <2>1, FS_EmptySet, NotifyAssumption
  <2> QED BY <2>1, <2>2
<1>9. CursorCovered'
  BY <1>2, CursorStaysCovered
<1> HIDE DEF new, left, at
<1> QED BY <1>2, <1>4, <1>5, <1>7, <1>8, <1>9, OneRunMoves DEF TypeOK, Clocks

LEMMA RunsKeepInv ==
  ASSUME NotifyInv, NEW r \in Runs, Start(r) \/ Work(r) \/ Trouble(r)
  PROVE  NotifyInv'
<1>1. /\ TypeOK /\ Clocks /\ CursorCovered /\ Covered(r) /\ PageFull(r)
      /\ runs[r] \in Run /\ Second(now + Ahead) \in Nat /\ 0 <= Second(now + Ahead)
      /\ runs[r].started <= Second(now + Ahead)
      /\ runs[r].since # NULL => runs[r].since <= Second(now + Ahead)
      /\ NULL \notin Nat
  BY NotifyAssumption, SecondsGrow DEF NotifyInv, TypeOK, Clocks
<1>2. IdleRun \in Run /\ IdleRun.started = 0 /\ IdleRun.since = NULL
  BY DEF IdleRun, Run, Stages
<1>3. CASE Start(r)
  <2> DEFINE new == [IdleRun EXCEPT !.at = "starting", !.started = Second(now + Ahead)]
  <2>1. /\ runs' = [runs EXCEPT ![r] = new]
        /\ UNCHANGED <<now, server, cursor, reported, late, cut>>
    BY <1>3 DEF Start
  <2>2. /\ new \in Run /\ new.started = Second(now + Ahead) /\ new.since = NULL
        /\ new.at = "starting" /\ new.left = {}
    BY <1>1 DEF Run, Stages, IdleRun
  <2>3. CursorCovered'
    BY <1>1, <2>1, CursorStaysCovered
  <2>4. Covered(r)' /\ PageFull(r)'
    BY <1>1, <2>1, <2>2 DEF Covered, PageFull, TypeOK
  <2>5. /\ reported \subseteq Pairs /\ cut \subseteq Pairs /\ cursor \in Nat \cup {NULL}
        /\ cursor # NULL => cursor <= Second(now + Ahead)
        /\ new.started <= Second(now + Ahead)
    BY <1>1, <2>2 DEF TypeOK, Clocks
  <2> HIDE DEF new
  <2> QED BY <2>1, <2>2, <2>3, <2>4, <2>5, OneRunMoves
<1>4. CASE Stop(r)
  <2>1. /\ runs' = [runs EXCEPT ![r] = IdleRun]
        /\ UNCHANGED <<now, server, cursor, reported, late, cut>>
    BY <1>4 DEF Stop
  <2>2. CursorCovered'
    BY <1>1, <2>1, CursorStaysCovered
  <2>3. Covered(r)' /\ PageFull(r)'
    BY <1>1, <2>1 DEF Covered, PageFull, IdleRun, TypeOK
  <2> QED BY <1>1, <1>2, <2>1, <2>2, <2>3, OneRunMoves DEF TypeOK, Clocks
<1>5. CASE Send(r)
  <2> DEFINE new == [runs[r] EXCEPT !.at = "sent", !.items = {}]
  <2>1. /\ runs[r].at = "sending" /\ runs' = [runs EXCEPT ![r] = new] /\ runs'[r] = new
        /\ reported' = reported \cup runs[r].items
        /\ UNCHANGED <<now, server, cursor, late, cut>>
    BY <1>1, <1>5 DEF Send, TypeOK
  <2>2. /\ new \in Run /\ new.at = "sent" /\ new.started = runs[r].started
        /\ new.since = runs[r].since /\ new.left = runs[r].left
    BY <1>1 DEF Run, Stages
  <2>3. reported' \subseteq Pairs
    BY <1>1, <2>1 DEF TypeOK, Run
  <2>4. CursorCovered'
    BY <1>1, <2>1, CursorStaysCovered
  <2>5. Covered(r)'
    <3>1. \A i \in Before(runs[r].started)' : i \in Before(runs[r].started)
      BY <2>1, <2>2 DEF Before, IsOpen, server
    <3>2. \A i \in Before(runs[r].started) : Explained(i)' \/ AsItStands(i)' \in runs[r].left
      BY <1>1, <2>1 DEF Covered, Explained, AsItStands, server
    <3>3. runs'[r].at = "sent" /\ runs'[r].left = runs[r].left
      BY <2>1, <2>2
    <3> HIDE DEF new
    <3> QED BY <3>1, <3>2, <3>3 DEF Covered, Before
  <2>6. PageFull(r)'
    <3>1. \A y \in runs[r].left : Crowd(y[2])'
      BY <1>1, <2>1 DEF PageFull, Crowd
    <3> QED BY <2>1, <2>2, <3>1 DEF PageFull
  <2> HIDE DEF new
  <2> QED BY <1>1, <2>1, <2>2, <2>3, <2>4, <2>5, <2>6, OneRunMoves DEF TypeOK, Clocks
<1>6. CASE EmptyCursor(r)
  <2> DEFINE new == [runs[r] EXCEPT !.at = "saving"]
  <2>1. /\ runs[r].at = "sent" /\ runs' = [runs EXCEPT ![r] = new] /\ runs'[r] = new
        /\ cursor' = NULL /\ UNCHANGED <<now, server, reported, late, cut>>
    BY <1>1, <1>6 DEF EmptyCursor, TypeOK
  <2>2. /\ new \in Run /\ new.at = "saving" /\ new.started = runs[r].started
        /\ new.since = runs[r].since /\ new.left = runs[r].left
    BY <1>1 DEF Run, Stages
  <2>3. CursorCovered'
    BY <2>1 DEF CursorCovered
  <2>4. Covered(r)' /\ PageFull(r)'
    BY <1>1, <2>1, <2>2 DEF Covered, PageFull, Crowd, Before, IsOpen, Explained, AsItStands, server
  <2> HIDE DEF new
  <2> QED BY <1>1, <2>1, <2>2, <2>3, <2>4, OneRunMoves DEF TypeOK, Clocks
<1>7. CASE SaveCursor(r)
  <2>1. /\ runs[r].at = "saving" /\ runs' = [runs EXCEPT ![r] = IdleRun]
        /\ cursor' = runs[r].started /\ cut' = cut \cup runs[r].left
        /\ UNCHANGED <<now, server, reported, late>>
    BY <1>7 DEF SaveCursor, CursorAfter
  <2>2. /\ cursor' \in Nat /\ cursor' <= Second(now + Ahead)
        /\ cut \subseteq cut' /\ cut' \subseteq Pairs
        /\ \A x \in cut' \ cut : Crowd(x[2])
    BY <1>1, <2>1 DEF TypeOK, Run, PageFull
  <2>3. CursorCovered'
    <3>1. \A i \in Before(cursor)' : i \in Before(runs[r].started)
      BY <2>1 DEF Before, IsOpen, server
    <3>2. \A i \in Before(runs[r].started) : Explained(i)'
      BY <1>1, <2>1 DEF Covered, Explained, AsItStands, server
    <3> QED BY <3>1, <3>2 DEF CursorCovered, Before
  <2>4. Covered(r)' /\ PageFull(r)'
    BY <1>1, <2>1 DEF Covered, PageFull, IdleRun, TypeOK
  <2> QED BY <1>1, <1>2, <2>1, <2>2, <2>3, <2>4, OneRunMoves DEF TypeOK
<1>8. CASE ReadCursor(r)
  <2> DEFINE new == [runs[r] EXCEPT !.at = "polling", !.since = cursor]
  <2>1. /\ runs[r].at = "starting" /\ runs' = [runs EXCEPT ![r] = new] /\ runs'[r] = new
        /\ UNCHANGED <<now, server, cursor, reported, late, cut>>
    BY <1>1, <1>8 DEF ReadCursor, TypeOK
  <2>2. /\ new \in Run /\ new.at = "polling" /\ new.started = runs[r].started
        /\ new.since = cursor /\ new.left = runs[r].left
    BY <1>1 DEF Run, Stages, TypeOK
  <2>3. CursorCovered'
    BY <1>1, <2>1, CursorStaysCovered
  <2>4. Covered(r)' /\ PageFull(r)'
    BY <1>1, <2>1, <2>2, <2>3 DEF Covered, PageFull, CursorCovered, Before, IsOpen, Explained,
                                 AsItStands, server
  <2> HIDE DEF new
  <2> QED BY <1>1, <2>1, <2>2, <2>3, <2>4, OneRunMoves DEF TypeOK, Clocks
<1>9. CASE Poll(r)
  BY <1>9, PollsKeepInv
<1>10. Stop(r) \/ Start(r) \/ ReadCursor(r) \/ Poll(r) \/ Send(r) \/ EmptyCursor(r) \/ SaveCursor(r)
  BY DEF Work, Trouble, PollFails, SendFails, Crash
<1> QED BY <1>3, <1>4, <1>5, <1>6, <1>7, <1>8, <1>9, <1>10

-------------------------------------------------------------------------------
(***************************************************************************)
(* The cursor and every run in progress have covered all that they pass,   *)
(* and what fell through did so for a reason.                              *)
(***************************************************************************)
THEOREM NotifyInductive == Spec => []NotifyInv
<1>1. Init => NotifyInv
  <2> SUFFICES ASSUME Init PROVE NotifyInv
    OBVIOUS
  <2>1. TypeOK
    BY DEF Init, TypeOK, IdleRun, Run, Stages
  <2>2. Clocks /\ Histories /\ CursorCovered
    <3>1. 0 <= Second(0 + Ahead)
      BY NotifyAssumption, SecondsGrow
    <3> QED BY <3>1 DEF Init, Clocks, Histories, CursorCovered, IdleRun
  <2>3. \A r \in Runs : Covered(r) /\ PageFull(r)
    BY DEF Init, Covered, PageFull, IdleRun
  <2> QED BY <2>1, <2>2, <2>3 DEF NotifyInv
<1>2. NotifyInv /\ [Next]_vars => NotifyInv'
  <2> SUFFICES ASSUME NotifyInv, [Next]_vars PROVE NotifyInv'
    OBVIOUS
  <2>1. CASE Tick
    BY <2>1, TicksKeepInv
  <2>2. CASE Reset \/ UNCHANGED vars
    BY <2>2 DEF Reset, vars, server, script, NotifyInv, TypeOK, Clocks, Histories, CursorCovered,
                Covered, PageFull, Crowd, StraddlesASecond, Before, IsOpen, Explained, AsItStands
  <2>3. CASE \E i \in Items : Write(i)
    BY <2>3, WritesKeepInv
  <2>4. CASE \E r \in Runs : Start(r) \/ Work(r) \/ Trouble(r)
    BY <2>4, RunsKeepInv
  <2> QED BY <2>1, <2>2, <2>3, <2>4 DEF Next
<1> QED BY <1>1, <1>2, PTL DEF Spec

(***************************************************************************)
(* What the cursor has passed was mailed, committed late across a whole    *)
(* second, or crowded out of a full page.                                  *)
(***************************************************************************)
THEOREM SkipsAreExplained == Spec => []SkipsExplained
<1>1. NotifyInv => SkipsExplained
  <2> SUFFICES ASSUME NotifyInv, cursor # NULL, NEW i \in Before(cursor), ~IsReported(i)
               PROVE  \/ AsItStands(i) \in late /\ StraddlesASecond(queue[i])
                      \/ AsItStands(i) \in cut /\ Crowd(queue[i])
    BY DEF SkipsExplained
  <2>1. AsItStands(i) \in late \cup cut /\ AsItStands(i)[2] = queue[i]
    BY DEF NotifyInv, CursorCovered, Explained, IsReported, AsItStands
  <2> QED BY <2>1 DEF NotifyInv, Histories
<1> QED BY <1>1, NotifyInductive, PTL
===============================================================================
