---------------------------- MODULE KnowledgeProofs ----------------------------
(***************************************************************************)
(* The knowledge base keeps its promises for any entries, calls, clients,  *)
(* tokens and texts that KnowledgeAssumption allows.                       *)
(***************************************************************************)
EXTENDS Knowledge, TLAPS

(* NULL is told apart from every value. *)
LEMMA NullIsApart ==
  /\ NULL \notin Ids /\ NULL \notin Clients /\ NULL \notin Agents /\ NULL \notin Tokens
  /\ NULL \notin Texts /\ NULL \notin Operations /\ Restricted \subseteq Tokens
BY KnowledgeAssumption

(* A handler's locals over any sets of values. *)
Locals(Op, At, Token, Id, Text, Client, Safe, Author, Flag, Vector, Batch, Rows) ==
  [op : Op, at : At, token : Token, id : Id, text : Text, client : Client, safe : Safe,
   author : Author, acknowledge : Flag, vector : Vector, batch : Batch, met : Rows, todo : Rows]

LEMMA RevisedLocals ==
  ASSUME NEW Op, NEW At, NEW Token, NEW Id, NEW Text, NEW Client, NEW Safe, NEW Author, NEW Flag,
         NEW Vector, NEW Batch, NEW Rows,
         NEW c \in Locals(Op, At, Token, Id, Text, Client, Safe, Author, Flag, Vector, Batch, Rows)
  PROVE  LET L == Locals(Op, At, Token, Id, Text, Client, Safe, Author, Flag, Vector, Batch, Rows)
         IN /\ \A v \in Op : [c EXCEPT !.op = v] \in L
            /\ \A v \in At : [c EXCEPT !.at = v] \in L
            /\ \A v \in Token : [c EXCEPT !.token = v] \in L
            /\ \A v \in Id : [c EXCEPT !.id = v] \in L
            /\ \A v \in Text : [c EXCEPT !.text = v] \in L
            /\ \A v \in Client : [c EXCEPT !.client = v] \in L
            /\ \A v \in Safe : [c EXCEPT !.safe = v] \in L
            /\ \A v \in Author : [c EXCEPT !.author = v] \in L
            /\ \A v \in Flag : [c EXCEPT !.acknowledge = v] \in L
            /\ \A v \in Vector : [c EXCEPT !.vector = v] \in L
            /\ \A v \in Batch : [c EXCEPT !.batch = v] \in L
            /\ \A v \in Rows : [c EXCEPT !.met = v] \in L /\ [c EXCEPT !.todo = v] \in L
BY DEF Locals

(* A handler that revises one local has well-typed locals. *)
LEMMA Revised ==
  ASSUME NEW c \in Call
  PROVE  /\ \A v \in Operations \cup {NULL} : [c EXCEPT !.op = v] \in Call
         /\ \A v \in Stages : [c EXCEPT !.at = v] \in Call
         /\ \A v \in Tokens \cup {NULL} : [c EXCEPT !.token = v] \in Call
         /\ \A v \in Ids \cup {NULL} : [c EXCEPT !.id = v] \in Call
         /\ \A v \in Texts \cup {NULL} : [c EXCEPT !.text = v] \in Call
         /\ \A v \in Clients \cup {NULL} : [c EXCEPT !.client = v] \in Call
         /\ \A v \in BOOLEAN \cup {NULL} : [c EXCEPT !.safe = v] \in Call
         /\ \A v \in Agents \cup {NULL} : [c EXCEPT !.author = v] \in Call
         /\ \A v \in BOOLEAN : [c EXCEPT !.acknowledge = v] \in Call
         /\ \A v \in Texts \cup {NULL} : [c EXCEPT !.vector = v] \in Call
         /\ \A v \in Seq(Ids \X Texts) : [c EXCEPT !.batch = v] \in Call
         /\ \A v \in SUBSET (Ids \X Disclosures) :
              [c EXCEPT !.met = v] \in Call /\ [c EXCEPT !.todo = v] \in Call
<1> DEFINE Op == Operations \cup {NULL}
           Token == Tokens \cup {NULL}
           Id == Ids \cup {NULL}
           Text == Texts \cup {NULL}
           Client == Clients \cup {NULL}
           Safe == BOOLEAN \cup {NULL}
           Author == Agents \cup {NULL}
           Batch == Seq(Ids \X Texts)
           Rows == SUBSET (Ids \X Disclosures)
<1>1. Call = Locals(Op, Stages, Token, Id, Text, Client, Safe, Author, BOOLEAN, Text, Batch, Rows)
  BY DEF Call, Locals
<1> HIDE DEF Op, Token, Id, Text, Client, Safe, Author, Batch, Rows
<1>2. /\ \A v \in Op : [c EXCEPT !.op = v] \in Call
      /\ \A v \in Stages : [c EXCEPT !.at = v] \in Call
      /\ \A v \in Token : [c EXCEPT !.token = v] \in Call
      /\ \A v \in Id : [c EXCEPT !.id = v] \in Call
      /\ \A v \in Text : [c EXCEPT !.text = v] \in Call
      /\ \A v \in Client : [c EXCEPT !.client = v] \in Call
      /\ \A v \in Safe : [c EXCEPT !.safe = v] \in Call
      /\ \A v \in Author : [c EXCEPT !.author = v] \in Call
      /\ \A v \in BOOLEAN : [c EXCEPT !.acknowledge = v] \in Call
      /\ \A v \in Text : [c EXCEPT !.vector = v] \in Call
      /\ \A v \in Batch : [c EXCEPT !.batch = v] \in Call
      /\ \A v \in Rows : [c EXCEPT !.met = v] \in Call /\ [c EXCEPT !.todo = v] \in Call
  BY <1>1, RevisedLocals
<1> QED BY <1>2 DEF Op, Token, Id, Text, Client, Safe, Author, Batch, Rows

(* A handler that is done has nothing left to do or to account for. *)
LEMMA IdleIsSound == Idle \in Call /\ Sound(Idle)
<1>1. Idle \in Call
  BY DEF Idle, Call, Stages
<1>2. Shaped(Idle) /\ Accounted(Idle)
  BY DEF Idle, Shaped, Accounted, Adding
<1>3. FromOwnText(Idle) /\ FromLastText(Idle)
  BY DEF Idle, FromOwnText, FromLastText, Stored
<1>4. Confined(Idle)
  BY NullIsApart DEF Idle, Confined
<1> QED BY <1>1, <1>2, <1>3, <1>4 DEF Sound

-------------------------------------------------------------------------------
(***************************************************************************)
(* Steps that move one handler on and leave the table alone.  The handler  *)
(* may leave an entry unembedded only if that entry stops counting as      *)
(* written alone.                                                          *)
(***************************************************************************)
LEMMA OneCallMoves ==
  ASSUME KnowledgeInv, NEW p \in Calls, NEW c \in Call, calls' = [calls EXCEPT ![p] = c],
         UNCHANGED <<table, had>>, alone' \subseteq alone, Sound(c),
         \A i \in alone' : Stored(calls[p]) /\ calls[p].id = i => Stored(c) /\ c.id = i
  PROVE  KnowledgeInv'
<1> USE DEF KnowledgeInv
<1>1. UNCHANGED <<entries, audit, drawn, had>>
  BY DEF table
<1>2. calls'[p] = c /\ \A q \in Calls \ {p} : calls'[q] = calls[q]
  BY DEF TypeOK
<1>3. TypeOK'
  BY <1>1 DEF TypeOK
<1>4. ASSUME NEW d, Sound(d)
      PROVE  Sound(d)'
  <2>1. Shaped(d)' /\ FromOwnText(d)' /\ Accounted(d)'
    BY <1>1, <1>4 DEF Sound, Shaped, FromOwnText, Accounted, Stored, Source, Adding
  <2>2. FromLastText(d)'
    BY <1>1, <1>4 DEF Sound, FromLastText, Stored, Source
  <2>3. Confined(d)'
    BY <1>1, <1>4 DEF Sound, Confined, Exists, CanModify
  <2> QED BY <2>1, <2>2, <2>3 DEF Sound
<1>5. \A q \in Calls : Sound(calls[q])'
  <2> SUFFICES ASSUME NEW q \in Calls PROVE Sound(calls[q])'
    OBVIOUS
  <2>1. Sound(calls[q]) /\ Sound(c)'
    BY <1>4
  <2> QED BY <1>2, <1>4, <2>1
<1>6. ASSUME NEW i \in alone' \cap DOMAIN entries'
      PROVE  Attended(i)'
  <2>1. Attended(i)
    BY <1>1
  <2>2. CASE entries[i].vector = entries[i].text
    BY <1>1, <2>2 DEF Attended
  <2>3. CASE \E q \in Calls : Stored(calls[q]) /\ calls[q].id = i
    BY <1>2, <2>3 DEF Attended, Stored
  <2> QED BY <2>1, <2>2, <2>3 DEF Attended
<1>7. (\A i \in DOMAIN entries : entries[i].text \in had[i])' /\ OwnVector'
  BY <1>1 DEF OwnVector
<1> QED BY <1>3, <1>5, <1>6, <1>7

(* Such a step that ends the call, whatever it was doing. *)
LEMMA CallEnds ==
  ASSUME KnowledgeInv, NEW p \in Calls, Answer(p), UNCHANGED <<table, had>>,
         alone' \subseteq alone, Stored(calls[p]) => calls[p].id \notin alone'
  PROVE  KnowledgeInv'
BY IdleIsSound, OneCallMoves DEF Answer

(* An action that only moves handler p on. *)
LEMMA CallMovesOn ==
  ASSUME KnowledgeInv, NEW p \in Calls, NEW c \in Call,
         calls' = [calls EXCEPT ![p] = c], UNCHANGED <<table, history>>, Sound(c),
         Stored(calls[p]) => Stored(c) /\ c.id = calls[p].id
  PROVE  KnowledgeInv'
<1>1. UNCHANGED <<table, had>> /\ alone' = alone
  BY DEF history
<1> QED BY <1>1, OneCallMoves

(* What is known of a handler. *)
LEMMA CallFacts ==
  ASSUME KnowledgeInv, NEW p \in Calls
  PROVE  calls[p] \in Call /\ Sound(calls[p]) /\ calls \in [Calls -> Call]
BY DEF KnowledgeInv, TypeOK

-------------------------------------------------------------------------------
(* Asking *)

(* A call starts. *)
LEMMA StartKeepsInv ==
  ASSUME KnowledgeInv, NEW p \in Calls, NEW c \in Call, Start(p, c), Sound(c)
  PROVE  KnowledgeInv'
<1>1. /\ calls' = [calls EXCEPT ![p] = c] /\ UNCHANGED <<table, history>>
      /\ ~Stored(calls[p])
  BY DEF Start, Stored
<1> QED BY <1>1, CallMovesOn

LEMMA AskAddKeepsInv ==
  ASSUME KnowledgeInv, NEW p \in Calls, AskAdd(p)
  PROVE  KnowledgeInv'
<1> USE NullIsApart
<1>1. PICK t \in Tokens, text \in Texts, safe \in Flags, force \in BOOLEAN :
      \E author \in Authors(t), client \in ClientsFor(t) :
        Start(p, [Idle EXCEPT !.op = "add", !.token = t, !.text = text, !.client = client,
                    !.safe = safe, !.author = author,
                    !.at = IF force THEN "insert" ELSE "candidate"])
  BY DEF AskAdd
<1>2. PICK author \in Authors(t), client \in ClientsFor(t) :
        Start(p, [Idle EXCEPT !.op = "add", !.token = t, !.text = text, !.client = client,
                    !.safe = safe, !.author = author,
                    !.at = IF force THEN "insert" ELSE "candidate"])
  BY <1>1
<1> DEFINE c == [Idle EXCEPT !.op = "add", !.token = t, !.text = text, !.client = client,
                   !.safe = safe, !.author = author,
                   !.at = IF force THEN "insert" ELSE "candidate"]
<1>3. author \in Agents /\ client \in Clients \cup {NULL} /\ safe \in BOOLEAN
      /\ (t \in Restricted => client = NULL /\ author \in BoundTo[t])
  BY KnowledgeAssumption DEF Authors, ClientsFor
<1>4. c \in Call
  <2>1. "add" \in Operations /\ (IF force THEN "insert" ELSE "candidate") \in Stages
    BY DEF Operations, Stages
  <2>2. PICK op \in Operations, at \in Stages :
          op = "add" /\ at = (IF force THEN "insert" ELSE "candidate")
    BY <2>1
  <2>3. [Idle EXCEPT !.op = op, !.token = t, !.text = text, !.client = client,
                     !.safe = safe, !.author = author, !.at = at] \in Call
    BY <1>3, IdleIsSound, Revised
  <2> QED BY <2>2, <2>3
<1>5. /\ c.op = "add" /\ c.token = t /\ c.text = text /\ c.client = client /\ c.safe = safe
      /\ c.author = author /\ c.at = (IF force THEN "insert" ELSE "candidate")
      /\ c.vector = NULL /\ c.batch = <<>> /\ c.todo = {} /\ c.met = {}
  BY DEF Idle
<1>6. Sound(c)
  <2>1. Shaped(c) /\ Accounted(c)
    BY <1>3, <1>5 DEF Shaped, Accounted, Adding
  <2>2. FromOwnText(c) /\ FromLastText(c)
    BY <1>5 DEF FromOwnText, FromLastText, Stored
  <2>3. Confined(c)
    BY <1>3, <1>5 DEF Confined
  <2> QED BY <2>1, <2>2, <2>3 DEF Sound
<1> HIDE DEF c
<1> QED BY <1>2, <1>4, <1>6, StartKeepsInv DEF c

LEMMA AskUpdateKeepsInv ==
  ASSUME KnowledgeInv, NEW p \in Calls, AskUpdate(p)
  PROVE  KnowledgeInv'
<1> USE NullIsApart
<1>1. PICK t \in Tokens, i \in drawn, text \in Texts \cup {NULL}, safe \in Flags \cup {NULL} :
        Start(p, [Idle EXCEPT !.op = "update", !.token = t, !.id = i, !.text = text,
                    !.safe = safe, !.at = "check"])
  BY DEF AskUpdate
<1> DEFINE c == [Idle EXCEPT !.op = "update", !.token = t, !.id = i, !.text = text,
                   !.safe = safe, !.at = "check"]
<1>2. i \in Ids /\ safe \in BOOLEAN \cup {NULL}
  BY KnowledgeAssumption DEF KnowledgeInv, TypeOK
<1>3. c \in Call
  <2>1. "update" \in Operations /\ "check" \in Stages
    BY DEF Operations, Stages
  <2> QED BY <1>2, <2>1, IdleIsSound, Revised
<1>4. /\ c.id = i /\ c.at = "check" /\ c.batch = <<>> /\ c.todo = {} /\ c.met = {}
  BY DEF Idle
<1>5. Sound(c)
  BY <1>4 DEF Sound, Shaped, Accounted, FromOwnText, FromLastText, Stored, Confined, Adding
<1> HIDE DEF c
<1> QED BY <1>1, <1>3, <1>5, StartKeepsInv DEF c

LEMMA AskDeleteKeepsInv ==
  ASSUME KnowledgeInv, NEW p \in Calls, AskDelete(p)
  PROVE  KnowledgeInv'
<1> USE NullIsApart
<1>1. PICK t \in Tokens, i \in drawn :
        Start(p, [Idle EXCEPT !.op = "delete", !.token = t, !.id = i,
                    !.at = IF t \in Restricted THEN "check" ELSE "write"])
  BY DEF AskDelete
<1> DEFINE c == [Idle EXCEPT !.op = "delete", !.token = t, !.id = i,
                   !.at = IF t \in Restricted THEN "check" ELSE "write"]
<1>2. i \in Ids
  BY DEF KnowledgeInv, TypeOK
<1>3. c \in Call
  <2>1. "delete" \in Operations /\ (IF t \in Restricted THEN "check" ELSE "write") \in Stages
    BY DEF Operations, Stages
  <2>2. PICK op \in Operations, at \in Stages :
          op = "delete" /\ at = (IF t \in Restricted THEN "check" ELSE "write")
    BY <2>1
  <2>3. [Idle EXCEPT !.op = op, !.token = t, !.id = i, !.at = at] \in Call
    BY <1>2, IdleIsSound, Revised
  <2> QED BY <2>2, <2>3
<1>4. /\ c.id = i /\ c.at = (IF t \in Restricted THEN "check" ELSE "write") /\ c.token = t
      /\ c.op = "delete" /\ c.batch = <<>> /\ c.todo = {} /\ c.met = {}
  BY DEF Idle
<1>5. Sound(c)
  BY <1>4 DEF Sound, Shaped, Accounted, FromOwnText, FromLastText, Stored, Confined, Adding
<1> HIDE DEF c
<1> QED BY <1>1, <1>3, <1>5, StartKeepsInv DEF c

LEMMA AskSearchKeepsInv ==
  ASSUME KnowledgeInv, NEW p \in Calls, AskSearch(p)
  PROVE  KnowledgeInv'
<1> USE NullIsApart
<1>1. PICK t \in Tokens, acknowledge \in BOOLEAN : \E client \in ClientsFor(t) :
        Start(p, [Idle EXCEPT !.op = "search", !.token = t, !.client = client,
                    !.acknowledge = acknowledge, !.at = "read"])
  BY DEF AskSearch
<1>2. PICK client \in ClientsFor(t) :
        Start(p, [Idle EXCEPT !.op = "search", !.token = t, !.client = client,
                    !.acknowledge = acknowledge, !.at = "read"])
  BY <1>1
<1> DEFINE c == [Idle EXCEPT !.op = "search", !.token = t, !.client = client,
                   !.acknowledge = acknowledge, !.at = "read"]
<1>3. client \in Clients \cup {NULL}
  BY DEF ClientsFor
<1>4. c \in Call
  <2>1. "search" \in Operations /\ "read" \in Stages
    BY DEF Operations, Stages
  <2> QED BY <1>3, <2>1, IdleIsSound, Revised
<1>5. c.at = "read" /\ c.batch = <<>> /\ c.todo = {}
  BY DEF Idle
<1>6. Sound(c)
  BY <1>5 DEF Sound, Shaped, Accounted, FromOwnText, FromLastText, Stored, Confined, Adding
<1> HIDE DEF c
<1> QED BY <1>2, <1>4, <1>6, StartKeepsInv DEF c

LEMMA AskBackfillKeepsInv ==
  ASSUME KnowledgeInv, NEW p \in Calls, AskBackfill(p)
  PROVE  KnowledgeInv'
<1> DEFINE c == [Idle EXCEPT !.op = "backfill", !.at = "fetch"]
<1>1. c \in Call
  <2>1. "backfill" \in Operations /\ "fetch" \in Stages
    BY DEF Operations, Stages
  <2> QED BY <2>1, IdleIsSound, Revised
<1>2. c.at = "fetch" /\ c.batch = <<>> /\ c.todo = {} /\ c.token = NULL
  BY DEF Idle
<1>3. Sound(c)
  BY <1>2, NullIsApart DEF Sound, Shaped, Accounted, FromOwnText, FromLastText, Stored, Confined, Adding
<1> HIDE DEF c
<1> QED BY <1>1, <1>3, StartKeepsInv DEF AskBackfill, c

-------------------------------------------------------------------------------
(* The duplicate check of an add *)

LEMMA AddGoesOn ==
  ASSUME KnowledgeInv, NEW p \in Calls, calls[p].at \in Adding,
         NEW at \in {"similar", "insert"}, NEW vector,
         vector \in {NULL, calls[p].text}, at = "similar" => vector = calls[p].text,
         calls' = [calls EXCEPT ![p] = [calls[p] EXCEPT !.vector = vector, !.at = at]],
         UNCHANGED <<table, history>>
  PROVE  KnowledgeInv'
<1> DEFINE c == [calls[p] EXCEPT !.vector = vector, !.at = at]
<1>1. calls[p] \in Call /\ Sound(calls[p])
  BY CallFacts
<1>2. calls[p].text \in Texts
  BY <1>1 DEF Sound, Shaped
<1>3. c \in Call
  <2>1. at \in Stages /\ vector \in Texts \cup {NULL}
    BY <1>2 DEF Stages
  <2> QED BY <1>1, <2>1, Revised
<1>4. /\ c.op = calls[p].op /\ c.token = calls[p].token /\ c.text = calls[p].text
      /\ c.client = calls[p].client /\ c.safe = calls[p].safe /\ c.author = calls[p].author
      /\ c.vector = vector /\ c.at = at /\ c.batch = calls[p].batch /\ c.todo = calls[p].todo
  BY <1>1 DEF Call
<1> HIDE DEF c
<1>5. Sound(c)
  <2>1. Shaped(c)
    BY <1>1, <1>4 DEF Sound, Shaped, Adding
  <2>2. FromOwnText(c) /\ FromLastText(c) /\ Accounted(c)
    BY <1>1, <1>4 DEF Sound, Shaped, FromOwnText, FromLastText, Accounted, Stored, Adding
  <2>3. Confined(c)
    BY <1>1, <1>4 DEF Sound, Confined, Adding
  <2> QED BY <2>1, <2>2, <2>3 DEF Sound
<1>6. ~Stored(calls[p]) /\ calls' = [calls EXCEPT ![p] = c]
  BY <1>1 DEF Stored, Adding, c
<1> QED BY <1>3, <1>5, <1>6, CallMovesOn

LEMMA CandidateKeepsInv ==
  ASSUME KnowledgeInv, NEW p \in Calls, CandidateEmbedded(p) \/ CandidateFails(p)
  PROVE  KnowledgeInv'
<1>1. calls[p].at \in Adding /\ UNCHANGED <<table, history>>
  BY DEF CandidateEmbedded, CandidateFails, Adding
<1>2. calls[p] \in Call /\ Sound(calls[p]) /\ calls \in [Calls -> Call]
  BY CallFacts
<1>3. CASE CandidateEmbedded(p)
  <2>1. calls' = [calls EXCEPT ![p] = [calls[p] EXCEPT !.vector = calls[p].text, !.at = "similar"]]
    BY <1>2, <1>3 DEF CandidateEmbedded
  <2> QED BY <1>1, <2>1, AddGoesOn
<1>4. CASE CandidateFails(p)
  <2>1. calls' = [calls EXCEPT ![p] = [calls[p] EXCEPT !.vector = calls[p].vector, !.at = "insert"]]
    BY <1>2, <1>4 DEF CandidateFails, Goto, Call
  <2>2. calls[p].vector \in {NULL, calls[p].text}
    BY <1>1, <1>2 DEF Sound, Shaped
  <2> QED BY <1>1, <2>1, <2>2, AddGoesOn
<1> QED BY <1>3, <1>4

LEMMA SimilarKeepsInv ==
  ASSUME KnowledgeInv, NEW p \in Calls, FindSimilar(p) \/ SimilarFails(p)
  PROVE  KnowledgeInv'
<1>1. /\ calls[p].at \in Adding /\ calls[p].at = "similar" /\ ~Stored(calls[p])
      /\ UNCHANGED <<table, history>>
  BY DEF FindSimilar, SimilarFails, Adding, Stored
<1>2. calls[p] \in Call /\ Sound(calls[p]) /\ calls \in [Calls -> Call]
  BY CallFacts
<1>3. calls[p].vector = calls[p].text
  BY <1>1, <1>2 DEF Sound, Shaped
<1>4. CASE Goto(p, "insert")
  <2>1. calls' = [calls EXCEPT ![p] = [calls[p] EXCEPT !.vector = calls[p].vector, !.at = "insert"]]
    BY <1>2, <1>4 DEF Goto, Call
  <2> QED BY <1>1, <1>3, <2>1, AddGoesOn
<1>5. CASE Answer(p)
  BY <1>1, <1>5, CallEnds DEF history
<1> QED BY <1>4, <1>5 DEF FindSimilar, SimilarFails

-------------------------------------------------------------------------------
(* Ends of calls *)

LEMMA EndsKeepInv ==
  ASSUME KnowledgeInv, NEW p \in Calls, StaysUnembedded(p) \/ Fails(p) \/ Backfilled(p) \/ Abandon(p)
  PROVE  KnowledgeInv'
<1>1. CASE StaysUnembedded(p)
  BY <1>1, CallEnds DEF StaysUnembedded
<1>2. CASE Fails(p)
  BY <1>2, CallEnds DEF Fails, Stored, history
<1>3. CASE Backfilled(p)
  BY <1>3, CallEnds DEF Backfilled, Stored, history
<1>4. CASE Abandon(p)
  BY <1>4, CallEnds DEF Abandon, Stored, Answer
<1> QED BY <1>1, <1>2, <1>3, <1>4

-------------------------------------------------------------------------------
(* The checks, reads and requests of the other calls *)

LEMMA CheckEntryKeepsInv ==
  ASSUME KnowledgeInv, NEW p \in Calls, CheckEntry(p)
  PROVE  KnowledgeInv'
<1> DEFINE c == [calls[p] EXCEPT !.at = "write"]
<1>1. /\ calls[p] \in Call /\ Sound(calls[p]) /\ calls \in [Calls -> Call]
      /\ calls[p].at = "check" /\ ~Stored(calls[p])
      /\ UNCHANGED <<table, had, alone>> /\ UNCHANGED <<table, history>>
  BY DEF KnowledgeInv, TypeOK, CheckEntry, Stored, history
<1>2. CASE Exists(calls[p].id) /\ CanModify(calls[p].token, entries[calls[p].id])
  <2>1. calls' = [calls EXCEPT ![p] = c]
    BY <1>1, <1>2 DEF CheckEntry, Goto
  <2>2. c \in Call
    <3>1. "write" \in Stages
      BY DEF Stages
    <3> QED BY <1>1, <3>1, Revised
  <2>3. /\ c.id = calls[p].id /\ c.op = calls[p].op /\ c.token = calls[p].token /\ c.at = "write"
        /\ c.client = calls[p].client /\ c.batch = calls[p].batch /\ c.todo = calls[p].todo
    BY <1>1 DEF Call
  <2>4. c.op \in {"update", "delete"}
    BY <1>1, <2>3 DEF Sound, Shaped
  <2> HIDE DEF c
  <2>5. Shaped(c) /\ Accounted(c)
    BY <1>1, <2>3, <2>4 DEF Sound, Shaped, Accounted, Adding
  <2>6. FromOwnText(c) /\ FromLastText(c)
    BY <1>1, <2>3 DEF Sound, FromOwnText, FromLastText, Stored
  <2>7. Confined(c)
    BY <1>2, <2>3 DEF Confined, Adding
  <2> QED BY <1>1, <2>1, <2>2, <2>5, <2>6, <2>7, CallMovesOn DEF Sound
<1>3. CASE ~(Exists(calls[p].id) /\ CanModify(calls[p].token, entries[calls[p].id]))
  BY <1>1, <1>3, CallEnds DEF CheckEntry
<1> QED BY <1>2, <1>3

LEMMA EmbeddedKeepsInv ==
  ASSUME KnowledgeInv, NEW p \in Calls, Embedded(p)
  PROVE  KnowledgeInv'
<1> USE NullIsApart
<1> DEFINE c == [calls[p] EXCEPT !.vector = calls[p].text, !.text = NULL, !.at = "store"]
<1>1. /\ calls[p] \in Call /\ Sound(calls[p]) /\ calls \in [Calls -> Call]
      /\ calls[p].at = "embed" /\ Stored(calls[p])
      /\ UNCHANGED <<table, history>>
  BY DEF KnowledgeInv, TypeOK, Embedded, Stored
<1>2. calls' = [calls EXCEPT ![p] = c]
  BY <1>1 DEF Embedded
<1>3. c \in Call
  <2>1. "store" \in Stages /\ calls[p].text \in Texts \cup {NULL}
    BY <1>1 DEF Stages, Call
  <2> QED BY <1>1, <2>1, Revised
<1>4. /\ c.id = calls[p].id /\ c.token = calls[p].token /\ c.at = "store" /\ c.vector = calls[p].text
      /\ c.client = calls[p].client /\ c.batch = calls[p].batch /\ c.todo = calls[p].todo
  BY <1>1 DEF Call
<1> HIDE DEF c
<1>5. Stored(c) /\ Source(c) = Source(calls[p])
  BY <1>1, <1>4 DEF Stored, Source
<1>6. Shaped(c) /\ Accounted(c)
  BY <1>1, <1>4 DEF Sound, Shaped, Accounted, Adding
<1>7. FromOwnText(c) /\ FromLastText(c)
  BY <1>1, <1>4, <1>5 DEF Sound, FromOwnText, FromLastText
<1>8. Confined(c)
  BY <1>1, <1>4 DEF Sound, Confined, Adding
<1> QED BY <1>1, <1>2, <1>3, <1>4, <1>5, <1>6, <1>7, <1>8, CallMovesOn DEF Sound

LEMMA ReadKeepsInv ==
  ASSUME KnowledgeInv, NEW p \in Calls, Read(p)
  PROVE  KnowledgeInv'
<1> USE NullIsApart
<1>1. PICK found \in Findable(calls[p].token) :
        LET met == Met(found, calls[p].client, calls[p].acknowledge)
        IN calls' = [calls EXCEPT ![p] =
             [Idle EXCEPT !.op = "search", !.client = calls[p].client, !.at = "log",
                          !.met = met, !.todo = met]]
  BY DEF Read
<1> DEFINE met == Met(found, calls[p].client, calls[p].acknowledge)
           c == [Idle EXCEPT !.op = "search", !.client = calls[p].client, !.at = "log",
                   !.met = met, !.todo = met]
<1>2. /\ calls[p] \in Call /\ calls[p].at = "read"
      /\ ~Stored(calls[p]) /\ UNCHANGED <<table, history>>
  BY DEF KnowledgeInv, TypeOK, Read, Stored
<1>3. calls[p].client \in Clients \cup {NULL}
  BY <1>2 DEF Call
<1>4. met \in SUBSET (Ids \X Disclosures)
  <2>1. found \subseteq Ids
    BY DEF Findable, Visible, KnowledgeInv, TypeOK
  <2>2. \A row, acknowledge : Disclosure(row, acknowledge) \in Disclosures
    BY DEF Disclosure, Disclosures
  <2> QED BY <2>1, <2>2 DEF Met
<1>5. met # {} => calls[p].client \in Clients
  BY <1>3 DEF Met, Foreign
<1> HIDE DEF met
<1>6. c \in Call
  <2>1. PICK op \in Operations, at \in Stages : op = "search" /\ at = "log"
    BY DEF Stages, Operations
  <2>2. [Idle EXCEPT !.op = op, !.client = calls[p].client, !.at = at, !.met = met, !.todo = met] \in Call
    BY <1>3, <1>4, IdleIsSound, Revised
  <2> QED BY <2>1, <2>2
<1>7. /\ c.at = "log" /\ c.batch = <<>> /\ c.todo = met /\ c.met = met
      /\ c.client = calls[p].client /\ c.token = NULL
  BY DEF Idle
<1> HIDE DEF c
<1>8. Sound(c)
  BY <1>5, <1>7 DEF Sound, Shaped, Accounted, FromOwnText, FromLastText, Stored, Confined, Adding
<1> QED BY <1>1, <1>2, <1>6, <1>8, CallMovesOn DEF c, met

LEMMA RespondKeepsInv ==
  ASSUME KnowledgeInv, NEW p \in Calls, Respond(p)
  PROVE  KnowledgeInv'
<1> DEFINE c == [calls[p] EXCEPT !.at = "answered"]
<1>1. /\ calls[p] \in Call /\ Sound(calls[p]) /\ calls \in [Calls -> Call]
      /\ calls[p].at = "log" /\ calls[p].todo = {}
      /\ ~Stored(calls[p]) /\ UNCHANGED <<table, history>>
  BY DEF KnowledgeInv, TypeOK, Respond, Stored
<1>2. calls' = [calls EXCEPT ![p] = c]
  BY <1>1 DEF Respond, Goto
<1>3. c \in Call
  <2>1. "answered" \in Stages
    BY DEF Stages
  <2> QED BY <1>1, <2>1, Revised
<1>4. /\ c.at = "answered" /\ c.batch = calls[p].batch /\ c.todo = {} /\ c.met = calls[p].met
      /\ c.client = calls[p].client /\ c.token = calls[p].token
  BY <1>1 DEF Call
<1> HIDE DEF c
<1>5. Sound(c)
  BY <1>1, <1>4 DEF Sound, Shaped, Accounted, FromOwnText, FromLastText, Stored, Confined, Adding
<1> QED BY <1>1, <1>2, <1>3, <1>5, CallMovesOn

-------------------------------------------------------------------------------
(* The backfill *)

LEMMA Rebatched ==
  ASSUME NEW c \in Call, NEW batch \in Seq(Ids \X Texts), NEW at \in Stages
  PROVE  [c EXCEPT !.batch = batch, !.at = at] \in Call
BY Revised

LEMMA FetchKeepsInv ==
  ASSUME KnowledgeInv, NEW p \in Calls, Fetch(p)
  PROVE  KnowledgeInv'
<1> DEFINE missing == {i \in DOMAIN entries : entries[i].vector = NULL}
<1>1. PICK size \in 0..BatchSize : \E ids \in [1..size -> missing] :
        calls' = [calls EXCEPT ![p].batch = [n \in 1..size |-> <<ids[n], entries[ids[n]].text>>],
                               ![p].at = IF size = 0 THEN "storing" ELSE "batch"]
  BY DEF Fetch
<1>2. PICK ids \in [1..size -> missing] :
        calls' = [calls EXCEPT ![p].batch = [n \in 1..size |-> <<ids[n], entries[ids[n]].text>>],
                               ![p].at = IF size = 0 THEN "storing" ELSE "batch"]
  BY <1>1
<1> DEFINE batch == [n \in 1..size |-> <<ids[n], entries[ids[n]].text>>]
<1>3. /\ calls[p] \in Call /\ Sound(calls[p]) /\ calls \in [Calls -> Call]
      /\ calls[p].at = "fetch" /\ ~Stored(calls[p])
      /\ UNCHANGED <<table, history>>
  BY DEF KnowledgeInv, TypeOK, Fetch, Stored
<1>4. size \in Nat
  BY KnowledgeAssumption
<1>5. \A n \in 1..size : /\ ids[n] \in DOMAIN entries /\ ids[n] \in Ids /\ ids[n] \in drawn
                         /\ entries[ids[n]].text \in Texts
                         /\ entries[ids[n]].text \in had[ids[n]]
  <2> SUFFICES ASSUME NEW n \in 1..size
               PROVE  /\ ids[n] \in DOMAIN entries /\ ids[n] \in Ids /\ ids[n] \in drawn
                      /\ entries[ids[n]].text \in Texts /\ entries[ids[n]].text \in had[ids[n]]
    OBVIOUS
  <2>1. ids[n] \in DOMAIN entries
    OBVIOUS
  <2> QED BY <2>1 DEF KnowledgeInv, TypeOK, Row
<1>6. batch \in Seq(Ids \X Texts) /\ DOMAIN batch = 1..size
      /\ \A n \in 1..size : batch[n][1] = ids[n] /\ batch[n][2] = entries[ids[n]].text
  BY <1>4, <1>5
<1>7. size = 0 => batch = <<>>
  BY <1>4
<1> HIDE DEF batch, missing
<1>8. PICK at \in Stages : at = IF size = 0 THEN "storing" ELSE "batch"
  BY DEF Stages
<1> DEFINE c == [calls[p] EXCEPT !.batch = batch, !.at = at]
<1>9. calls' = [calls EXCEPT ![p] = c]
  BY <1>2, <1>3, <1>8 DEF batch
<1>10. c \in Call
  <2>1. batch \in Seq(Ids \X Texts)
    BY <1>6
  <2> QED BY <1>3, <2>1, Rebatched
<1>11. /\ c.at = at /\ at \in {"batch", "storing"} /\ c.batch = batch /\ c.todo = calls[p].todo
       /\ c.client = calls[p].client /\ c.token = calls[p].token
  BY <1>3, <1>8 DEF Call
<1> HIDE DEF c
<1>12. Shaped(c) /\ Accounted(c) /\ Confined(c)
  BY <1>3, <1>11 DEF Sound, Shaped, Accounted, Confined, Adding
<1>13. FromOwnText(c)
  BY <1>5, <1>6, <1>11 DEF FromOwnText, Stored
<1>14. FromLastText(c)
  BY <1>5, <1>6, <1>11 DEF FromLastText, Stored
<1> QED BY <1>3, <1>9, <1>10, <1>12, <1>13, <1>14, CallMovesOn DEF Sound

(* A vector found by its index is the one that came with that index. *)
LEMMA ReplyIsSorted ==
  ASSUME NEW reply, NEW n \in DOMAIN reply, NEW m \in DOMAIN reply, reply[m].index = n,
         \A k \in DOMAIN reply : reply[k].index = n => reply[k].vector = reply[m].vector
  PROVE  ByIndex(reply)[n] = reply[m].vector
<1> DEFINE items == {reply[k] : k \in DOMAIN reply}
<1>1. ByIndex(reply)[n] = (CHOOSE d \in items : d.index = n).vector
  BY DEF ByIndex
<1>2. reply[m] \in items /\ \A d \in items : d.index = n => d.vector = reply[m].vector
  OBVIOUS
<1> HIDE DEF items
<1>3. (CHOOSE d \in items : d.index = n) \in items /\ (CHOOSE d \in items : d.index = n).index = n
  BY <1>2
<1> QED BY <1>1, <1>2, <1>3

LEMMA EmbedBatchKeepsInv ==
  ASSUME KnowledgeInv, NEW p \in Calls, EmbedBatch(p)
  PROVE  KnowledgeInv'
<1> DEFINE batch == calls[p].batch
           indices == DOMAIN batch
<1>1. PICK order \in [indices -> indices] :
        /\ \A n \in indices : \E m \in indices : order[m] = n
        /\ LET vectors == ByIndex([n \in indices |-> [index |-> order[n],
                                                      vector |-> batch[order[n]][2]]])
           IN calls' = [calls EXCEPT ![p].at = "storing",
                          ![p].batch = [n \in indices |-> <<batch[n][1], vectors[n]>>]]
  BY DEF EmbedBatch
<1>2. /\ calls[p] \in Call /\ Sound(calls[p]) /\ calls \in [Calls -> Call]
      /\ calls[p].at = "batch" /\ ~Stored(calls[p])
      /\ UNCHANGED <<table, history>> /\ batch \in Seq(Ids \X Texts)
  BY DEF KnowledgeInv, TypeOK, EmbedBatch, Stored, Call
<1> DEFINE reply == [n \in indices |-> [index |-> order[n], vector |-> batch[order[n]][2]]]
           vectors == ByIndex(reply)
<1>4. \A n \in indices : vectors[n] = batch[n][2]
  <2> SUFFICES ASSUME NEW n \in indices
               PROVE  ByIndex(reply)[n] = batch[n][2]
    OBVIOUS
  <2>1. PICK m \in indices : order[m] = n
    BY <1>1
  <2>2. DOMAIN reply = indices /\ reply[m].index = n /\ reply[m].vector = batch[n][2]
    BY <2>1
  <2>3. \A k \in DOMAIN reply : reply[k].index = n => reply[k].vector = reply[m].vector
    BY <2>2
  <2> HIDE DEF reply
  <2> QED BY <2>2, <2>3, ReplyIsSorted
<1>5. [n \in indices |-> <<batch[n][1], vectors[n]>>] = batch
  <2>1. \A n \in indices : batch[n] \in Ids \X Texts
    BY <1>2
  <2>2. \A n \in indices : <<batch[n][1], batch[n][2]>> = batch[n]
    BY <2>1
  <2> HIDE DEF vectors
  <2>3. [n \in indices |-> <<batch[n][1], vectors[n]>>] = [n \in indices |-> batch[n]]
    BY <1>4, <2>2
  <2>4. batch = [n \in DOMAIN batch |-> batch[n]]
    <3>1. PICK k \in Nat : batch \in [1..k -> Ids \X Texts]
      BY <1>2
    <3> QED BY <3>1
  <2> QED BY <2>3, <2>4
<1> HIDE DEF vectors, reply
<1> DEFINE c == [calls[p] EXCEPT !.at = "storing"]
<1>6. calls' = [calls EXCEPT ![p] = c]
  <2>1. calls' = [calls EXCEPT ![p].at = "storing", ![p].batch = batch]
    BY <1>1, <1>5 DEF vectors, reply
  <2>2. [c EXCEPT !.batch = batch] = c
    BY <1>2 DEF Call
  <2> QED BY <1>2, <2>1, <2>2
<1>7. c \in Call
  <2>1. "storing" \in Stages
    BY DEF Stages
  <2> QED BY <1>2, <2>1, Revised
<1>8. /\ c.at = "storing" /\ c.batch = batch /\ c.todo = calls[p].todo
      /\ c.client = calls[p].client /\ c.token = calls[p].token
  BY <1>2 DEF Call
<1> HIDE DEF c
<1>9. Sound(c)
  BY <1>2, <1>8 DEF Sound, Shaped, Accounted, FromOwnText, FromLastText, Stored, Confined, Adding
<1> QED BY <1>2, <1>6, <1>7, <1>9, CallMovesOn

-------------------------------------------------------------------------------
(* Storing a vector: of a text the entry has had and, if it was written alone,
   of the text it has. *)

LEMMA StoringKeepsInv ==
  ASSUME KnowledgeInv, NEW p \in Calls, NEW c \in Call, NEW i \in drawn, NEW v \in had[i],
         SetVector(i, v), calls' = [calls EXCEPT ![p] = c],
         UNCHANGED <<audit, drawn, had, alone>>, Sound(c),
         i \in alone \cap DOMAIN entries => v = entries[i].text,
         Stored(calls[p]) => calls[p].id = i
  PROVE  KnowledgeInv'
<1> USE DEF KnowledgeInv
<1>1. calls'[p] = c /\ calls' \in [Calls -> Call] /\ \A q \in Calls \ {p} : calls'[q] = calls[q]
  BY DEF TypeOK
<1>2. i \in Ids /\ v \in Texts
  BY DEF TypeOK
<1>3. /\ DOMAIN entries' = DOMAIN entries
      /\ \A j \in DOMAIN entries : /\ j # i => entries'[j] = entries[j]
                                  /\ entries'[j].text = entries[j].text
                                  /\ entries'[j].client = entries[j].client
                                  /\ entries'[j].author = entries[j].author
                                  /\ entries'[j] \in Row
      /\ i \in DOMAIN entries => entries'[i].vector = v
  <2>1. \A j \in DOMAIN entries : entries[j] \in Row
    BY DEF TypeOK
  <2> QED BY <1>2, <2>1 DEF SetVector, Row
<1>4. TypeOK'
  BY <1>1, <1>3 DEF TypeOK
<1>5. ASSUME NEW d, Sound(d)
      PROVE  Sound(d)'
  <2>1. Shaped(d)' /\ FromOwnText(d)' /\ Accounted(d)'
    BY <1>5 DEF Sound, Shaped, FromOwnText, Accounted, Stored, Source, Adding
  <2>2. FromLastText(d)'
    BY <1>3, <1>5 DEF Sound, FromLastText, Stored, Source
  <2>3. Confined(d)'
    BY <1>3, <1>5 DEF Sound, Confined, Exists, CanModify
  <2> QED BY <2>1, <2>2, <2>3 DEF Sound
<1>6. \A q \in Calls : Sound(calls[q])'
  <2> SUFFICES ASSUME NEW q \in Calls PROVE Sound(calls[q])'
    OBVIOUS
  <2>1. Sound(c)'
    BY <1>5
  <2>2. Sound(calls[q])
    OBVIOUS
  <2> QED BY <1>1, <1>5, <2>1, <2>2
<1>7. ASSUME NEW j \in alone' \cap DOMAIN entries'
      PROVE  Attended(j)'
  <2>1. j \in alone \cap DOMAIN entries /\ Attended(j)
    BY <1>3, <1>7
  <2>2. CASE j = i
    BY <1>3, <2>1, <2>2 DEF Attended
  <2>3. CASE j # i /\ entries[j].vector = entries[j].text
    BY <1>3, <2>1, <2>3 DEF Attended
  <2>4. CASE j # i /\ \E q \in Calls : Stored(calls[q]) /\ calls[q].id = j
    BY <1>1, <2>4 DEF Attended, Stored
  <2> QED BY <2>1, <2>2, <2>3, <2>4 DEF Attended
<1>8. (\A j \in DOMAIN entries : entries[j].text \in had[j])' /\ OwnVector'
  BY <1>3 DEF OwnVector
<1> QED BY <1>4, <1>6, <1>7, <1>8

LEMMA StoreKeepsInv ==
  ASSUME KnowledgeInv, NEW p \in Calls, Store(p)
  PROVE  KnowledgeInv'
<1>1. Sound(calls[p]) /\ Stored(calls[p]) /\ Source(calls[p]) = calls[p].vector
  BY DEF KnowledgeInv, Store, Stored, Source
<1>2. calls[p].id \in drawn /\ calls[p].vector \in had[calls[p].id]
  BY <1>1 DEF Sound, FromOwnText
<1>3. calls[p].id \in alone \cap DOMAIN entries => calls[p].vector = entries[calls[p].id].text
  BY <1>1 DEF Sound, FromLastText
<1>4. /\ SetVector(calls[p].id, calls[p].vector)
      /\ calls' = [calls EXCEPT ![p] = Idle] /\ UNCHANGED <<audit, drawn, had, alone>>
  BY DEF Store, Answer
<1> QED BY <1>1, <1>2, <1>3, <1>4, IdleIsSound, StoringKeepsInv

LEMMA RestOfBatch ==
  ASSUME NEW batch \in Seq(Ids \X Texts), batch # <<>>
  PROVE  /\ Tail(batch) \in Seq(Ids \X Texts) /\ 1 \in DOMAIN batch
         /\ \A n \in DOMAIN Tail(batch) : n + 1 \in DOMAIN batch /\ Tail(batch)[n] = batch[n + 1]
OBVIOUS

LEMMA StoreNextKeepsInv ==
  ASSUME KnowledgeInv, NEW p \in Calls, StoreNext(p)
  PROVE  KnowledgeInv'
<1> DEFINE batch == calls[p].batch
           c == [calls[p] EXCEPT !.batch = Tail(batch)]
<1>1. /\ calls[p] \in Call /\ Sound(calls[p]) /\ calls[p].at = "storing" /\ batch # <<>>
      /\ ~Stored(calls[p]) /\ batch \in Seq(Ids \X Texts)
  BY DEF KnowledgeInv, TypeOK, StoreNext, Stored, Call
<1>2. /\ Tail(batch) \in Seq(Ids \X Texts) /\ 1 \in DOMAIN batch
      /\ \A n \in DOMAIN Tail(batch) : n + 1 \in DOMAIN batch /\ Tail(batch)[n] = batch[n + 1]
  BY <1>1, RestOfBatch
<1>3. batch[1][1] \in drawn /\ batch[1][2] \in had[batch[1][1]]
  BY <1>1, <1>2 DEF Sound, FromOwnText
<1>4. batch[1][1] \in alone \cap DOMAIN entries => batch[1][2] = entries[batch[1][1]].text
  BY <1>1, <1>2 DEF Sound, FromLastText
<1>5. c \in Call
  BY <1>1, <1>2, Revised
<1>6. /\ c.at = "storing" /\ c.batch = Tail(batch) /\ c.todo = calls[p].todo
      /\ c.client = calls[p].client /\ c.token = calls[p].token
  BY <1>1 DEF Call
<1>7. /\ SetVector(batch[1][1], batch[1][2])
      /\ calls' = [calls EXCEPT ![p] = c] /\ UNCHANGED <<audit, drawn, had, alone>>
  <2>1. calls \in [Calls -> Call]
    BY DEF KnowledgeInv, TypeOK
  <2> QED BY <2>1 DEF StoreNext
<1> HIDE DEF c
<1>8. Shaped(c) /\ Accounted(c) /\ Confined(c)
  BY <1>1, <1>6 DEF Sound, Shaped, Accounted, Confined, Adding
<1>9. FromOwnText(c) /\ FromLastText(c)
  <2>1. \A n \in DOMAIN batch : batch[n][1] \in drawn /\ batch[n][2] \in had[batch[n][1]]
    BY <1>1 DEF Sound, FromOwnText
  <2>2. \A i \in alone \cap DOMAIN entries : \A n \in DOMAIN batch :
          batch[n][1] = i => batch[n][2] = entries[i].text
    BY <1>1 DEF Sound, FromLastText
  <2>3. c.batch = Tail(batch) /\ ~Stored(c)
    BY <1>6 DEF Stored
  <2> HIDE DEF batch
  <2> QED BY <1>2, <2>1, <2>2, <2>3 DEF FromOwnText, FromLastText
<1> QED BY <1>1, <1>3, <1>4, <1>5, <1>7, <1>8, <1>9, StoringKeepsInv DEF Sound

-------------------------------------------------------------------------------
(* The audit rows of a search *)

(* Crossing off an audit row leaves a handler with well-typed locals. *)
LEMMA Logged ==
  ASSUME NEW c \in Call, NEW todo \in SUBSET (Ids \X Disclosures),
         NEW met \in SUBSET (Ids \X Disclosures)
  PROVE  [c EXCEPT !.todo = todo, !.met = met] \in Call
BY Revised

LEMMA LogAccessKeepsInv ==
  ASSUME KnowledgeInv, NEW p \in Calls, LogAccess(p)
  PROVE  KnowledgeInv'
<1> USE DEF KnowledgeInv
<1>1. PICK row \in calls[p].todo, written \in BOOLEAN :
        /\ calls[p].at = "log"
        /\ calls' = [calls EXCEPT ![p].todo = @ \ {row},
                                  ![p].met = IF written THEN @ ELSE @ \ {row}]
        /\ audit' = IF written THEN audit \cup {<<calls[p].client, row>>} ELSE audit
        /\ UNCHANGED <<entries, drawn, history>>
  BY DEF LogAccess
<1> DEFINE todo == calls[p].todo \ {row}
           met == IF written THEN calls[p].met ELSE calls[p].met \ {row}
           next == [calls[p] EXCEPT !.todo = todo, !.met = met]
<1>2. /\ calls[p] \in Call /\ Sound(calls[p]) /\ calls \in [Calls -> Call]
      /\ UNCHANGED <<entries, drawn, had, alone>> /\ ~Stored(calls[p])
  BY <1>1 DEF TypeOK, history, Stored
<1>3. /\ calls[p].todo \subseteq calls[p].met /\ calls[p].client \in Clients
      /\ calls[p].met \in SUBSET (Ids \X Disclosures)
  BY <1>1, <1>2 DEF Sound, Shaped, Call
<1>4. todo \in SUBSET (Ids \X Disclosures) /\ met \in SUBSET (Ids \X Disclosures)
      /\ todo \subseteq met
  BY <1>3
<1>5. \A other \in met \ todo : <<calls[p].client, other>> \in audit'
  <2>1. \A other \in calls[p].met \ calls[p].todo : <<calls[p].client, other>> \in audit
    BY <1>1, <1>2 DEF Sound, Accounted
  <2> QED BY <1>1, <2>1
<1> HIDE DEF todo, met
<1>6. calls' = [calls EXCEPT ![p] = next]
  BY <1>1, <1>2 DEF todo, met
<1>7. next \in Call
  BY <1>2, <1>4, Logged
<1>8. /\ next.at = "log" /\ next.todo = todo /\ next.met = met
       /\ next.client = calls[p].client /\ next.batch = calls[p].batch
       /\ next.token = calls[p].token
  BY <1>1, <1>2 DEF Call
<1> HIDE DEF next
<1>9. PICK c : c = next
  OBVIOUS
<1>10. /\ c.at = "log" /\ c.todo = todo /\ c.met = met /\ c.client = calls[p].client
      /\ c.batch = calls[p].batch /\ c.token = calls[p].token
  BY <1>8, <1>9
<1>11. calls'[p] = c /\ \A q \in Calls \ {p} : calls'[q] = calls[q]
  BY <1>2, <1>6, <1>9
<1>12. TypeOK'
  <2>1. <<calls[p].client, row>> \in Clients \X (Ids \X Disclosures)
    BY <1>3
  <2> QED BY <1>1, <1>2, <1>6, <1>7, <2>1 DEF TypeOK
<1>13. Sound(c)'
  <2> HIDE DEF KnowledgeInv
  <2>1. Shaped(c)' /\ Confined(c)'
    BY <1>1, <1>2, <1>3, <1>4, <1>10 DEF Sound, Shaped, Confined, Adding
  <2>3. Accounted(c)'
    BY <1>5, <1>10 DEF Accounted
  <2>2. FromOwnText(c)' /\ FromLastText(c)'
    BY <1>2, <1>10 DEF Sound, FromOwnText, FromLastText, Stored
  <2> QED BY <2>1, <2>2, <2>3 DEF Sound
<1>14. ASSUME NEW d, Sound(d)
       PROVE  Sound(d)'
  <2>1. Shaped(d)' /\ FromOwnText(d)' /\ Confined(d)'
    BY <1>2, <1>14 DEF Sound, Shaped, FromOwnText, Confined, Stored, Source, Adding, Exists, CanModify
  <2>2. FromLastText(d)'
    BY <1>2, <1>14 DEF Sound, FromLastText, Stored, Source
  <2>3. Accounted(d)'
    BY <1>1, <1>14 DEF Sound, Accounted
  <2> QED BY <2>1, <2>2, <2>3 DEF Sound
<1>15. \A q \in Calls : Sound(calls[q])'
  <2> SUFFICES ASSUME NEW q \in Calls PROVE Sound(calls[q])'
    OBVIOUS
  <2>1. Sound(calls[q])
    OBVIOUS
  <2> QED BY <1>11, <1>13, <1>14, <2>1
<1>16. ASSUME NEW i \in alone' \cap DOMAIN entries'
       PROVE  Attended(i)'
  <2>1. Attended(i)
    BY <1>2
  <2> QED BY <1>2, <1>11, <2>1 DEF Attended, Stored
<1>17. (\A i \in DOMAIN entries : entries[i].text \in had[i])' /\ OwnVector'
  BY <1>2 DEF OwnVector
<1> QED BY <1>12, <1>15, <1>16, <1>17

-------------------------------------------------------------------------------
(* The writing statements *)

(* What a handler starts on, or goes on with, has well-typed locals. *)
LEMMA Begun ==
  ASSUME NEW op \in Operations, NEW at \in Stages, NEW t \in Tokens, NEW i \in Ids,
         NEW text \in Texts \cup {NULL}, NEW vector \in Texts \cup {NULL}
  PROVE  [Idle EXCEPT !.op = op, !.token = t, !.id = i, !.text = text,
                      !.vector = vector, !.at = at] \in Call
BY IdleIsSound, Revised

LEMMA InsertKeepsInv ==
  ASSUME KnowledgeInv, NEW p \in Calls, Insert(p)
  PROVE  KnowledgeInv'
<1>1. PICK i \in Ids \ drawn, acknowledged \in BOOLEAN :
        /\ calls[p].at = "insert" /\ drawn' = drawn \cup {i}
        /\ entries' = [j \in DOMAIN entries \cup {i} |->
             IF j = i THEN [text |-> calls[p].text, client |-> calls[p].client,
                            safe |-> calls[p].safe, author |-> calls[p].author, vector |-> NULL]
                      ELSE entries[j]]
        /\ had' = [had EXCEPT ![i] = {calls[p].text}]
        /\ alone' = (IF acknowledged THEN alone \cup {i} ELSE alone)
        /\ IF acknowledged
             THEN calls' = [calls EXCEPT ![p] =
                    [Idle EXCEPT !.op = "add", !.token = calls[p].token, !.id = i,
                       !.text = IF calls[p].vector = NULL THEN calls[p].text ELSE NULL,
                       !.vector = calls[p].vector,
                       !.at = IF calls[p].vector = NULL THEN "embed" ELSE "store"]]
             ELSE Answer(p)
        /\ UNCHANGED audit
  BY DEF Insert
<1> USE NullIsApart DEF KnowledgeInv
<1> DEFINE a == calls[p]
           new == [text |-> a.text, client |-> a.client, safe |-> a.safe, author |-> a.author,
                   vector |-> NULL]
           text == IF a.vector = NULL THEN a.text ELSE NULL
           at == IF a.vector = NULL THEN "embed" ELSE "store"
           inserted == [Idle EXCEPT !.op = "add", !.token = a.token, !.id = i, !.text = text,
                          !.vector = a.vector, !.at = at]
           next == IF acknowledged THEN inserted ELSE Idle
<1>2. /\ a \in Call /\ Sound(a) /\ calls \in [Calls -> Call] /\ a.at = "insert"
      /\ ~Stored(a) /\ i \in Ids /\ i \notin drawn /\ i \notin DOMAIN entries
  BY <1>1 DEF TypeOK, Stored
<1>3. /\ a.text \in Texts /\ a.safe \in BOOLEAN /\ a.author \in Agents /\ a.token \in Tokens
      /\ a.client \in Clients \cup {NULL} /\ a.vector \in {NULL, a.text}
      /\ (a.token \in Restricted => a.client = NULL /\ a.author \in BoundTo[a.token])
  BY <1>2 DEF Sound, Shaped, Confined, Adding, Call
<1>4. new \in Row
  BY <1>3 DEF Row
<1>5. /\ DOMAIN entries' = DOMAIN entries \cup {i} /\ entries'[i] = new
      /\ \A j \in DOMAIN entries : entries'[j] = entries[j]
  BY <1>1, <1>2
<1>6. /\ had'[i] = {a.text} /\ \A j \in Ids \ {i} : had'[j] = had[j]
      /\ had' \in [Ids -> SUBSET Texts]
  BY <1>1, <1>2, <1>3 DEF TypeOK
<1>7. next \in Call
  <2>1. PICK op \in Operations, stage \in Stages : op = "add" /\ stage = at
    BY DEF Operations, Stages
  <2>2. text \in Texts \cup {NULL} /\ a.vector \in Texts \cup {NULL}
    BY <1>3
  <2> HIDE DEF text, at
  <2>3. [Idle EXCEPT !.op = op, !.token = a.token, !.id = i, !.text = text,
                     !.vector = a.vector, !.at = stage] \in Call
    BY <1>2, <1>3, <2>2, Begun
  <2> QED BY <2>1, <2>3, IdleIsSound
<1>8. PICK c : c = next
  OBVIOUS
<1>9. /\ calls'[p] = c /\ calls' \in [Calls -> Call]
      /\ \A q \in Calls \ {p} : calls'[q] = calls[q]
  <2>1. calls' = [calls EXCEPT ![p] = next]
    BY <1>1 DEF Answer
  <2> HIDE DEF next
  <2> QED BY <1>2, <1>7, <1>8, <2>1
<1>10. acknowledged =>
        /\ c.id = i /\ c.text = text /\ c.vector = a.vector /\ c.at = at /\ c.token = a.token
        /\ c.batch = <<>> /\ c.todo = {} /\ c.met = {} /\ Stored(c) /\ Source(c) = a.text
  <2>1. /\ inserted.id = i /\ inserted.text = text /\ inserted.vector = a.vector
        /\ inserted.at = at /\ inserted.token = a.token
        /\ inserted.batch = <<>> /\ inserted.todo = {} /\ inserted.met = {}
    BY DEF Idle
  <2> HIDE DEF inserted
  <2> QED BY <1>3, <1>8, <2>1 DEF Stored, Source
<1>11. ~acknowledged => c = Idle
  BY <1>8
<1> HIDE DEF next, inserted
<1>12. TypeOK'
  BY <1>1, <1>2, <1>4, <1>5, <1>6, <1>9 DEF TypeOK
<1>13. Sound(c)'
  <2>1. CASE acknowledged
    <3>1. Shaped(c)' /\ Accounted(c)'
      BY <1>10, <2>1 DEF Shaped, Accounted, Adding
    <3>2. FromOwnText(c)' /\ FromLastText(c)'
      BY <1>1, <1>5, <1>6, <1>10, <2>1 DEF FromOwnText, FromLastText
    <3>3. Confined(c)'
      BY <1>3, <1>5, <1>10, <2>1 DEF Confined, CanModify, Adding
    <3> QED BY <3>1, <3>2, <3>3 DEF Sound
  <2>2. CASE ~acknowledged
    <3>1. c = Idle
      BY <1>11, <2>2
    <3>2. Shaped(Idle)' /\ Accounted(Idle)'
      BY DEF Idle, Shaped, Accounted, Adding
    <3>3. FromOwnText(Idle)' /\ FromLastText(Idle)'
      BY DEF Idle, FromOwnText, FromLastText, Stored
    <3>4. Confined(Idle)'
      BY DEF Idle, Confined
    <3> QED BY <3>1, <3>2, <3>3, <3>4 DEF Sound
  <2> QED BY <2>1, <2>2
<1>14. ASSUME NEW d, Sound(d)
       PROVE  Sound(d)'
  <2>1. Shaped(d)' /\ Accounted(d)'
    BY <1>1, <1>14 DEF Sound, Shaped, Accounted, Adding
  <2>2. drawn \subseteq Ids
    BY DEF TypeOK
  <2>3. FromOwnText(d)'
    BY <1>1, <1>6, <1>14, <2>2 DEF Sound, FromOwnText, Stored, Source
  <2>4. FromLastText(d)'
    BY <1>1, <1>5, <1>14 DEF Sound, FromOwnText, FromLastText, Stored, Source
  <2>5. d.at \in {"write", "embed", "store"} => d.id \in drawn
    BY <1>14 DEF Sound, Shaped, FromOwnText, Stored
  <2>6. Confined(d)'
    BY <1>2, <1>5, <1>14, <2>5 DEF Sound, Confined, Exists, CanModify
  <2> QED BY <2>1, <2>3, <2>4, <2>6 DEF Sound
<1>15. \A q \in Calls : Sound(calls[q])'
  <2> SUFFICES ASSUME NEW q \in Calls PROVE Sound(calls[q])'
    OBVIOUS
  <2>1. Sound(calls[q])
    OBVIOUS
  <2> QED BY <1>9, <1>13, <1>14, <2>1
<1>16. ASSUME NEW j \in alone' \cap DOMAIN entries'
       PROVE  Attended(j)'
  <2>1. CASE j = i
    <3>1. acknowledged
      BY <1>1, <1>2, <1>16, <2>1 DEF TypeOK
    <3> QED BY <1>9, <1>10, <2>1, <3>1 DEF Attended, Stored
  <2>2. CASE j # i
    <3>1. j \in alone \cap DOMAIN entries /\ Attended(j)
      BY <1>1, <1>5, <2>2
    <3>2. CASE entries[j].vector = entries[j].text
      BY <1>5, <3>1, <3>2 DEF Attended
    <3>3. CASE \E q \in Calls : Stored(calls[q]) /\ calls[q].id = j
      BY <1>2, <1>9, <3>3 DEF Attended, Stored
    <3> QED BY <3>1, <3>2, <3>3 DEF Attended
  <2> QED BY <2>1, <2>2
<1>17. (\A j \in DOMAIN entries : entries[j].text \in had[j])' /\ OwnVector'
  <2>1. DOMAIN entries \subseteq Ids \ {i}
    BY <1>2 DEF TypeOK
  <2> QED BY <1>5, <1>6, <2>1 DEF OwnVector
<1> QED BY <1>12, <1>15, <1>16, <1>17

LEMMA UpdatingKeepsInv ==
  ASSUME KnowledgeInv, NEW p \in Calls, NEW c \in Call, NEW i \in DOMAIN entries,
         NEW text \in Texts, NEW row \in Row, NEW acknowledged \in BOOLEAN,
         calls[p].at = "write", calls' = [calls EXCEPT ![p] = c],
         entries' = [entries EXCEPT ![i] = row],
         row.text = text, row.client = entries[i].client, row.author = entries[i].author,
         row.vector = entries[i].vector,
         had' = [had EXCEPT ![i] = @ \cup {text}], Written(i, acknowledged),
         UNCHANGED <<audit, drawn>>,
         Shaped(c), Accounted(c), Confined(c), c.batch = <<>>,
         IF acknowledged THEN Stored(c) /\ c.id = i /\ Source(c) = text ELSE c = Idle
  PROVE  KnowledgeInv'
<1> USE DEF KnowledgeInv
<1>1. calls'[p] = c /\ calls' \in [Calls -> Call] /\ \A q \in Calls \ {p} : calls'[q] = calls[q]
  BY DEF TypeOK
<1>2. /\ DOMAIN entries' = DOMAIN entries
      /\ \A j \in DOMAIN entries : /\ j # i => entries'[j] = entries[j]
                                  /\ entries'[j].client = entries[j].client
                                  /\ entries'[j].author = entries[j].author
                                  /\ entries'[j].vector = entries[j].vector
                                  /\ entries'[j] \in Row
      /\ entries'[i].text = text
  BY DEF TypeOK
<1>3. /\ i \in drawn /\ i \in Ids /\ drawn \subseteq Ids /\ had' \in [Ids -> SUBSET Texts]
      /\ text \in had'[i] /\ \A j \in Ids : had[j] \subseteq had'[j]
  BY DEF TypeOK
<1>4. /\ alone' \subseteq drawn /\ \A j \in alone' : j # i => j \in alone
      /\ i \in alone' => acknowledged /\ ~UnderWay(i)
  BY <1>3 DEF Written, TypeOK
<1>5. TypeOK'
  BY <1>1, <1>2, <1>3, <1>4 DEF TypeOK
<1>6. Sound(c)'
  <2>1. Shaped(c)' /\ Accounted(c)'
    BY DEF Shaped, Accounted
  <2>2. FromOwnText(c)' /\ FromLastText(c)'
    BY <1>2, <1>3 DEF FromOwnText, FromLastText, Stored, Idle
  <2>3. Confined(c)'
    BY <1>2 DEF Confined, Exists, CanModify
  <2> QED BY <2>1, <2>2, <2>3 DEF Sound
<1>7. ASSUME NEW q \in Calls, q # p, NEW d, d = calls[q], Sound(d)
      PROVE  Sound(d)'
  <2>1. Shaped(d)' /\ Accounted(d)'
    BY <1>7 DEF Sound, Shaped, Accounted
  <2>2. FromOwnText(d)'
    BY <1>3, <1>7 DEF Sound, FromOwnText, Stored, Source
  <2>3. FromLastText(d)'
    <3> SUFFICES ASSUME NEW j \in alone' \cap DOMAIN entries'
                 PROVE  /\ Stored(d) /\ d.id = j => Source(d) = entries'[j].text
                        /\ \A n \in DOMAIN d.batch : d.batch[n][1] = j
                             => d.batch[n][2] = entries'[j].text
      BY DEF FromLastText, Stored, Source
    <3>1. CASE j = i
      BY <1>4, <1>7, <3>1 DEF UnderWay, Stored
    <3>2. CASE j # i
      BY <1>2, <1>4, <1>7, <3>2 DEF Sound, FromLastText
    <3> QED BY <3>1, <3>2
  <2>4. Confined(d)'
    BY <1>2, <1>7 DEF Sound, Confined, Exists, CanModify
  <2> QED BY <2>1, <2>2, <2>3, <2>4 DEF Sound
<1>8. \A q \in Calls : Sound(calls[q])'
  <2> SUFFICES ASSUME NEW q \in Calls PROVE Sound(calls[q])'
    OBVIOUS
  <2>1. Sound(calls[q])
    OBVIOUS
  <2> QED BY <1>1, <1>6, <1>7, <2>1
<1>9. ASSUME NEW j \in alone' \cap DOMAIN entries'
       PROVE  Attended(j)'
  <2>1. CASE j = i
    BY <1>1, <1>4, <2>1 DEF Attended, Stored
  <2>2. CASE j # i
    <3>1. j \in alone \cap DOMAIN entries /\ Attended(j)
      BY <1>2, <1>4, <2>2
    <3>2. CASE entries[j].vector = entries[j].text
      BY <1>2, <2>2, <3>1, <3>2 DEF Attended
    <3>3. CASE \E q \in Calls : Stored(calls[q]) /\ calls[q].id = j
      BY <1>1, <3>3 DEF Attended, Stored
    <3> QED BY <3>1, <3>2, <3>3 DEF Attended
  <2> QED BY <2>1, <2>2
<1>10. (\A j \in DOMAIN entries : entries[j].text \in had[j])' /\ OwnVector'
  <2>1. DOMAIN entries \subseteq Ids
    BY DEF TypeOK
  <2> QED BY <1>2, <1>3, <2>1 DEF OwnVector
<1> QED BY <1>5, <1>8, <1>9, <1>10

(* What an acknowledged UPDATE goes on with. *)
LEMMA Updated ==
  ASSUME NEW c \in Call, NEW text \in Texts \cup {NULL}, NEW safe \in BOOLEAN \cup {NULL},
         NEW at \in Stages
  PROVE  [c EXCEPT !.text = text, !.safe = safe, !.at = at] \in Call
BY Revised

LEMMA WriteUpdateKeepsInv ==
  ASSUME KnowledgeInv, NEW p \in Calls, WriteUpdate(p)
  PROVE  KnowledgeInv'
<1> DEFINE a == calls[p]
           i == a.id
           text == Coalesce(a.text, entries[i].text)
           safe == Coalesce(a.safe, entries[i].safe)
<1>1. /\ a.at = "write" /\ UNCHANGED <<audit, drawn>>
      /\ a \in Call /\ Sound(a) /\ calls \in [Calls -> Call]
      /\ ~Stored(a)
  BY DEF KnowledgeInv, TypeOK, WriteUpdate, Stored
<1>2. CASE ~Exists(i)
  <2>1. Answer(p) /\ UNCHANGED <<table, had, alone>>
    BY <1>2 DEF WriteUpdate, table, history
  <2> QED BY <1>1, <2>1, CallEnds
<1>3. CASE Exists(i)
  <2>1. PICK acknowledged \in BOOLEAN :
          /\ entries' = [entries EXCEPT ![i].text = text, ![i].safe = Coalesce(a.safe, @)]
          /\ had' = [had EXCEPT ![i] = @ \cup {text}]
          /\ Written(i, acknowledged)
          /\ IF acknowledged
               THEN calls' = [calls EXCEPT ![p].text = text, ![p].safe = NULL, ![p].at = "embed"]
               ELSE Answer(p)
    BY <1>3 DEF WriteUpdate
  <2>2. i \in DOMAIN entries /\ entries[i] \in Row
    BY <1>3 DEF Exists, KnowledgeInv, TypeOK
  <2>3. text \in Texts /\ safe \in BOOLEAN
    <3>1. a.text \in Texts \cup {NULL} /\ a.safe \in BOOLEAN \cup {NULL}
      BY <1>1 DEF Call
    <3>2. entries[i].text \in Texts /\ entries[i].safe \in BOOLEAN
      BY <2>2 DEF Row
    <3> QED BY <3>1, <3>2 DEF Coalesce
  <2>4. PICK row \in Row :
          /\ entries' = [entries EXCEPT ![i] = row] /\ row.text = text
          /\ row.client = entries[i].client /\ row.author = entries[i].author
          /\ row.vector = entries[i].vector
    <3>1. [entries[i] EXCEPT !.text = text].safe = entries[i].safe
      BY <2>2 DEF Row
    <3>2. PICK row : row = [entries[i] EXCEPT !.text = text, !.safe = safe]
      OBVIOUS
    <3>3. entries' = [entries EXCEPT ![i] = row]
      BY <2>1, <2>2, <3>1, <3>2
    <3>4. /\ row \in Row /\ row.text = text /\ row.client = entries[i].client
          /\ row.author = entries[i].author /\ row.vector = entries[i].vector
      <4> HIDE DEF text, safe
      <4> QED BY <2>2, <2>3, <3>2 DEF Row
    <3> QED BY <3>3, <3>4
  <2> DEFINE next == IF acknowledged
                       THEN [a EXCEPT !.text = text, !.safe = NULL, !.at = "embed"] ELSE Idle
  <2> HIDE DEF text, safe
  <2>5. calls' = [calls EXCEPT ![p] = next]
    BY <1>1, <2>1 DEF Answer
  <2>6. next \in Call
    <3>1. "embed" \in Stages
      BY DEF Stages
    <3> QED BY <1>1, <2>3, <3>1, Updated, IdleIsSound
  <2>7. /\ acknowledged => /\ next.at = "embed" /\ next.text = text /\ next.id = i
                          /\ next.batch = a.batch /\ next.todo = a.todo /\ next.client = a.client
                          /\ next.token = a.token
        /\ ~acknowledged => next = Idle
    BY <1>1 DEF Call
  <2> HIDE DEF next
  <2>8. next.batch = <<>>
    BY <1>1, <2>7 DEF Sound, Shaped, Idle
  <2>9. IF acknowledged THEN Stored(next) /\ next.id = i /\ Source(next) = text ELSE next = Idle
    BY <2>7 DEF Stored, Source
  <2>10. Shaped(next) /\ Accounted(next) /\ Confined(next)
    <3>1. CASE acknowledged
      <4>1. Shaped(next) /\ Accounted(next)
        BY <1>1, <2>7, <2>8, <3>1 DEF Sound, Shaped, Accounted, Adding
      <4>2. Confined(next)
        BY <1>1, <2>7, <3>1 DEF Sound, Confined, Adding
      <4> QED BY <4>1, <4>2
    <3>2. CASE ~acknowledged
      BY <2>7, <3>2, IdleIsSound DEF Sound
    <3> QED BY <3>1, <3>2
  <2> HIDE DEF i, a
  <2>11. calls[p].at = "write"
    BY <1>1 DEF a
  <2>12. /\ calls' = [calls EXCEPT ![p] = next] /\ had' = [had EXCEPT ![i] = @ \cup {text}]
         /\ Written(i, acknowledged) /\ UNCHANGED <<audit, drawn>>
    BY <1>1, <2>1, <2>5
  <2> QED BY <2>2, <2>3, <2>4, <2>6, <2>8, <2>9, <2>10, <2>11, <2>12, UpdatingKeepsInv
<1> QED BY <1>2, <1>3

LEMMA WriteDeleteKeepsInv ==
  ASSUME KnowledgeInv, NEW p \in Calls, WriteDelete(p)
  PROVE  KnowledgeInv'
<1> USE DEF KnowledgeInv
<1> DEFINE i == calls[p].id
<1>1. /\ calls[p].at = "write" /\ calls' = [calls EXCEPT ![p] = Idle]
      /\ entries' = [j \in DOMAIN entries \ {i} |-> entries[j]]
      /\ UNCHANGED <<audit, drawn, had, alone>>
  BY DEF WriteDelete, Answer
<1> HIDE DEF i
<1>2. /\ calls'[p] = Idle /\ calls' \in [Calls -> Call]
      /\ \A q \in Calls \ {p} : calls'[q] = calls[q]
  BY <1>1, IdleIsSound DEF TypeOK
<1>3. /\ DOMAIN entries' = DOMAIN entries \ {i}
      /\ \A j \in DOMAIN entries' : entries'[j] = entries[j]
  BY <1>1
<1>4. TypeOK'
  BY <1>1, <1>2, <1>3 DEF TypeOK
<1>5. ASSUME NEW d, Sound(d)
      PROVE  Sound(d)'
  <2>1. Shaped(d)' /\ FromOwnText(d)' /\ Accounted(d)'
    BY <1>1, <1>5 DEF Sound, Shaped, FromOwnText, Accounted, Stored, Source, Adding
  <2>2. FromLastText(d)'
    BY <1>1, <1>3, <1>5 DEF Sound, FromLastText, Stored, Source
  <2>3. Confined(d)'
    BY <1>3, <1>5 DEF Sound, Confined, Exists, CanModify
  <2> QED BY <2>1, <2>2, <2>3 DEF Sound
<1>6. \A q \in Calls : Sound(calls[q])'
  <2> SUFFICES ASSUME NEW q \in Calls PROVE Sound(calls[q])'
    OBVIOUS
  <2>1. Sound(calls[q]) /\ Sound(Idle)'
    BY <1>5, IdleIsSound
  <2> QED BY <1>2, <1>5, <2>1
<1>7. ASSUME NEW j \in alone' \cap DOMAIN entries'
      PROVE  Attended(j)'
  <2>1. j \in alone \cap DOMAIN entries /\ Attended(j) /\ entries'[j] = entries[j]
    BY <1>1, <1>3, <1>7
  <2>2. CASE entries[j].vector = entries[j].text
    BY <2>1, <2>2 DEF Attended
  <2>3. CASE \E q \in Calls : Stored(calls[q]) /\ calls[q].id = j
    BY <1>1, <1>2, <2>3 DEF Attended, Stored
  <2> QED BY <2>1, <2>2, <2>3 DEF Attended
<1>8. (\A j \in DOMAIN entries : entries[j].text \in had[j])' /\ OwnVector'
  BY <1>1, <1>3 DEF OwnVector
<1> QED BY <1>4, <1>6, <1>7, <1>8

-------------------------------------------------------------------------------
(* A step that changes nothing keeps the invariant. *)
LEMMA StutteringKeepsInv ==
  ASSUME KnowledgeInv, UNCHANGED vars
  PROVE  KnowledgeInv'
<1> USE DEF KnowledgeInv
<1>1. UNCHANGED <<entries, audit, drawn, calls, had, alone>>
  BY DEF vars, table, history
<1>2. TypeOK' /\ OwnVector'
  BY <1>1 DEF TypeOK, OwnVector
<1>3. ASSUME NEW d, Sound(d)
      PROVE  Sound(d)'
  <2>1. Shaped(d)' /\ FromOwnText(d)' /\ Accounted(d)'
    BY <1>1, <1>3 DEF Sound, Shaped, FromOwnText, Accounted, Stored, Source, Adding
  <2>2. FromLastText(d)'
    BY <1>1, <1>3 DEF Sound, FromLastText, Stored, Source
  <2>3. Confined(d)'
    BY <1>1, <1>3 DEF Sound, Confined, Exists, CanModify
  <2> QED BY <2>1, <2>2, <2>3 DEF Sound
<1>4. \A p \in Calls : Sound(calls[p])'
  BY <1>1, <1>3
<1>5. (\A i \in alone \cap DOMAIN entries : Attended(i))'
  BY <1>1 DEF Attended, Stored
<1>6. (\A i \in DOMAIN entries : entries[i].text \in had[i])'
  BY <1>1
<1> QED BY <1>2, <1>4, <1>5, <1>6

(***************************************************************************)
(* The inductive invariant: whatever a handler relies on after its last    *)
(* statement still holds although other handlers have run since.           *)
(***************************************************************************)
THEOREM KnowledgeInductive == Spec => []KnowledgeInv
<1>1. Init => KnowledgeInv
  <2> SUFFICES ASSUME Init PROVE KnowledgeInv
    OBVIOUS
  <2>1. /\ entries = [i \in {} |-> NULL] /\ audit = {} /\ drawn = {} /\ alone = {}
        /\ calls = [p \in Calls |-> Idle]
        /\ had = [i \in Ids |-> {}]
    BY DEF Init
  <2>2. TypeOK /\ OwnVector
    BY <2>1, IdleIsSound DEF TypeOK, OwnVector
  <2>3. \A p \in Calls : Sound(calls[p])
    BY <2>1, IdleIsSound
  <2> QED BY <2>1, <2>2, <2>3 DEF KnowledgeInv
<1>2. KnowledgeInv /\ [Next]_vars => KnowledgeInv'
  <2> SUFFICES ASSUME KnowledgeInv, [Next]_vars PROVE KnowledgeInv'
    OBVIOUS
  <2>1. CASE UNCHANGED vars
    BY <2>1, StutteringKeepsInv
  <2>2. ASSUME NEW p \in Calls, Ask(p)
        PROVE  KnowledgeInv'
    BY <2>2, AskAddKeepsInv, AskUpdateKeepsInv, AskDeleteKeepsInv, AskSearchKeepsInv,
       AskBackfillKeepsInv DEF Ask
  <2>3. ASSUME NEW p \in Calls, Step(p)
        PROVE  KnowledgeInv'
    BY <2>3, CandidateKeepsInv, SimilarKeepsInv, InsertKeepsInv, CheckEntryKeepsInv,
       WriteUpdateKeepsInv, WriteDeleteKeepsInv, EmbeddedKeepsInv, StoreKeepsInv, EndsKeepInv,
       ReadKeepsInv, LogAccessKeepsInv, RespondKeepsInv, FetchKeepsInv, EmbedBatchKeepsInv,
       StoreNextKeepsInv DEF Step
  <2>4. ASSUME NEW p \in Calls, Abandon(p)
        PROVE  KnowledgeInv'
    BY <2>4, EndsKeepInv
  <2> QED BY <2>1, <2>2, <2>3, <2>4 DEF Next
<1> QED BY <1>1, <1>2, PTL DEF Spec

-------------------------------------------------------------------------------
(***************************************************************************)
(* No entry ever bears the vector of a text that it never had.             *)
(***************************************************************************)
THEOREM VectorsStayHome == Spec => []OwnVector
<1>1. KnowledgeInv => OwnVector
  BY DEF KnowledgeInv
<1> QED BY <1>1, KnowledgeInductive, PTL

(***************************************************************************)
(* An entry written while nobody else embedded it gets the vector of its   *)
(* text, if its own embedding does not fail.                               *)
(***************************************************************************)
THEOREM LoneWritesAreCurrent == Spec => []VectorCurrent
<1>1. KnowledgeInv => VectorCurrent
  BY DEF KnowledgeInv, VectorCurrent, Attended, UnderWay, Stored
<1> QED BY <1>1, KnowledgeInductive, PTL

(***************************************************************************)
(* Whatever a search surfaced of another client is in the audit log when   *)
(* it answers, failed audit INSERTs apart.                                 *)
(***************************************************************************)
THEOREM AnswersAreAudited == Spec => []SurfacedAudited
<1>1. KnowledgeInv => SurfacedAudited
  BY DEF KnowledgeInv, SurfacedAudited, Sound, Shaped, Accounted
<1> QED BY <1>1, KnowledgeInductive, PTL

-------------------------------------------------------------------------------
(* A handler's step leaves the locals of the others alone. *)
LEMMA OthersStay ==
  ASSUME KnowledgeInv, NEW p \in Calls, NEW q \in Calls, p # q,
         Ask(q) \/ Step(q) \/ Abandon(q)
  PROVE  calls'[p] = calls[p]
<1>1. calls \in [Calls -> Call]
  BY DEF KnowledgeInv, TypeOK
<1>2. CASE Ask(q) \/ Abandon(q)
  <2>1. \A c : Start(q, c) => calls'[p] = calls[p]
    BY <1>1 DEF Start
  <2>2. AskAdd(q) \/ AskUpdate(q) \/ AskDelete(q) => calls'[p] = calls[p]
    BY <2>1, Zenon DEF AskAdd, AskUpdate, AskDelete
  <2>3. AskSearch(q) \/ AskBackfill(q) => calls'[p] = calls[p]
    BY <2>1, Zenon DEF AskSearch, AskBackfill
  <2> QED BY <1>1, <1>2, <2>2, <2>3 DEF Ask, Abandon
<1>3. CASE CandidateEmbedded(q) \/ CandidateFails(q) \/ FindSimilar(q) \/ SimilarFails(q)
  BY <1>1, <1>3 DEF CandidateEmbedded, CandidateFails, FindSimilar, SimilarFails, Goto, Answer
<1>4. CASE Insert(q)
  BY <1>1, <1>4 DEF Insert, Answer
<1>5. CASE CheckEntry(q) \/ WriteDelete(q) \/ Embedded(q) \/ Store(q) \/ StaysUnembedded(q)
  BY <1>1, <1>5 DEF CheckEntry, WriteDelete, Embedded, Store, StaysUnembedded, Goto, Answer
<1>6. CASE WriteUpdate(q)
  BY <1>1, <1>6 DEF WriteUpdate, Answer
<1>7. CASE Read(q) \/ LogAccess(q) \/ Respond(q)
  BY <1>1, <1>7 DEF Read, LogAccess, Respond, Goto
<1>8. CASE Fetch(q) \/ EmbedBatch(q)
  BY <1>1, <1>8 DEF Fetch, EmbedBatch
<1>9. CASE StoreNext(q) \/ Backfilled(q) \/ Fails(q)
  BY <1>1, <1>9 DEF StoreNext, Backfilled, Fails, Answer
<1> QED BY <1>2, <1>3, <1>4, <1>5, <1>6, <1>7, <1>8, <1>9 DEF Step

(* The statements that write the table; a restricted caller's are confined. *)
LEMMA WritesAreConfined ==
  ASSUME KnowledgeInv, NEW p \in Calls, calls[p].token \in Restricted,
         Ask(p) \/ Step(p) \/ Abandon(p)
  PROVE  /\ \A i \in DOMAIN entries :
              i \notin DOMAIN entries' \/ entries'[i] # entries[i]
                => CanModify(calls[p].token, entries[i])
         /\ \A i \in DOMAIN entries' \ DOMAIN entries : CanModify(calls[p].token, entries'[i])
<1>1. Confined(calls[p])
  BY DEF KnowledgeInv, Sound
<1>2. CASE UNCHANGED entries
  BY <1>2
<1>3. CASE Insert(p)
  <2>1. calls[p].client = NULL /\ calls[p].author \in BoundTo[calls[p].token]
    BY <1>1, <1>3 DEF Insert, Confined, Adding
  <2>2. PICK i \in Ids \ drawn :
          entries' = [j \in DOMAIN entries \cup {i} |->
            IF j = i THEN [text |-> calls[p].text, client |-> calls[p].client,
                           safe |-> calls[p].safe, author |-> calls[p].author, vector |-> NULL]
                     ELSE entries[j]]
    BY <1>3 DEF Insert
  <2>3. i \notin DOMAIN entries
    BY <2>2 DEF KnowledgeInv, TypeOK
  <2> QED BY <2>1, <2>2, <2>3 DEF CanModify
<1>4. CASE WriteUpdate(p)
  BY <1>1, <1>4 DEF WriteUpdate, Confined, Exists
<1>5. CASE WriteDelete(p)
  BY <1>1, <1>5 DEF WriteDelete, Confined, Exists
<1>6. CASE Store(p)
  BY <1>1, <1>6 DEF Store, SetVector, Confined, Exists
<1>7. ~StoreNext(p)
  BY <1>1 DEF StoreNext, Confined
<1>8. Ask(p) \/ Abandon(p) => UNCHANGED entries
  BY DEF Ask, Abandon, AskAdd, AskUpdate, AskDelete, AskSearch, AskBackfill, Start, table
<1>9. Step(p) => \/ Insert(p) \/ WriteUpdate(p) \/ WriteDelete(p) \/ Store(p) \/ StoreNext(p)
                 \/ UNCHANGED entries
  BY DEF Step, CandidateEmbedded, CandidateFails, FindSimilar, SimilarFails, CheckEntry, Embedded,
     StaysUnembedded, Read, LogAccess, Respond, Fetch, EmbedBatch, Backfilled, Fails, table
<1> QED BY <1>2, <1>3, <1>4, <1>5, <1>6, <1>7, <1>8, <1>9

(***************************************************************************)
(* A token that excludes client data writes nothing but global entries by  *)
(* its own authors, however far its check lies back.                       *)
(***************************************************************************)
THEOREM RestrictedTokensStayGlobal == Spec => RestrictedStaysGlobal
<1> DEFINE A == \A p \in Calls : calls[p].token \in Restricted /\ calls'[p] # calls[p] =>
                  /\ \A i \in DOMAIN entries :
                       i \notin DOMAIN entries' \/ entries'[i] # entries[i]
                         => CanModify(calls[p].token, entries[i])
                  /\ \A i \in DOMAIN entries' \ DOMAIN entries :
                       CanModify(calls[p].token, entries'[i])
<1>1. KnowledgeInv /\ [Next]_vars => [A]_vars
  <2> SUFFICES ASSUME KnowledgeInv, Next, NEW p \in Calls,
                      calls[p].token \in Restricted, calls'[p] # calls[p]
               PROVE  /\ \A i \in DOMAIN entries :
                           i \notin DOMAIN entries' \/ entries'[i] # entries[i]
                             => CanModify(calls[p].token, entries[i])
                      /\ \A i \in DOMAIN entries' \ DOMAIN entries :
                           CanModify(calls[p].token, entries'[i])
    OBVIOUS
  <2>1. Ask(p) \/ Step(p) \/ Abandon(p)
    BY OthersStay DEF Next
  <2> QED BY <2>1, WritesAreConfined
<1> QED BY <1>1, KnowledgeInductive, PTL DEF Spec, RestrictedStaysGlobal

===============================================================================
