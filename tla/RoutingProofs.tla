----------------------------- MODULE RoutingProofs -----------------------------
(***************************************************************************)
(* Proofs about slugs and about Routing: the Rust and the SQL form of a    *)
(* binding agree on every slug, whatever its characters; so a token's      *)
(* lists hold what it may get; and no action filing is lost to the wake    *)
(* poll.                                                                   *)
(***************************************************************************)
EXTENDS Routing, HandoffBusProofs

-------------------------------------------------------------------------------
(* Slugs, character by character *)

LEMMA FoldFacts ==
  ASSUME NEW s \in Seq(Chars)
  PROVE  /\ Fold(s) \in Seq(Chars) /\ Len(Fold(s)) = Len(s)
         /\ \A i \in 1 .. Len(s) : Fold(s)[i] = Lowercase[s[i]]
BY SlugAssumption DEF Fold

LEMMA PrefixFacts ==
  ASSUME NEW s \in Seq(Chars), NEW n \in 0 .. Len(s)
  PROVE  /\ SubSeq(s, 1, n) \in Seq(Chars) /\ Len(SubSeq(s, 1, n)) = n
         /\ \A i \in 1 .. n : SubSeq(s, 1, n)[i] = s[i]
OBVIOUS

LEMMA EqualFacts ==
  ASSUME NEW s \in Seq(Chars), NEW t \in Seq(Chars)
  PROVE  s = t <=> Len(s) = Len(t) /\ \A i \in 1 .. Len(s) : s[i] = t[i]
OBVIOUS

(* The same but for case in the first n characters. *)
Alike(s, t, n) == \A i \in 1 .. n : Lowercase[s[i]] = Lowercase[t[i]]

LEMMA SameFacts ==
  ASSUME NEW s \in Seq(Chars), NEW t \in Seq(Chars)
  PROVE  SameSlug(s, t) <=> Len(s) = Len(t) /\ Alike(s, t, Len(s))
BY FoldFacts, EqualFacts DEF SameSlug, Alike

LEMMA StartsFacts ==
  ASSUME NEW s \in Seq(Chars), NEW b \in Seq(Chars), NEW n \in 0 .. Len(b)
  PROVE  StartsWith(Fold(s), Fold(SubSeq(b, 1, n))) <=> n <= Len(s) /\ Alike(s, b, n)
<1> DEFINE pre == SubSeq(b, 1, n)
<1>1. pre \in Seq(Chars) /\ Len(pre) = n /\ \A i \in 1 .. n : pre[i] = b[i]
  BY PrefixFacts
<1> HIDE DEF pre
<1>2. Fold(pre) \in Seq(Chars) /\ Len(Fold(pre)) = n /\ \A i \in 1 .. n : Fold(pre)[i] = Lowercase[b[i]]
  BY <1>1, FoldFacts
<1>3. Fold(s) \in Seq(Chars) /\ Len(Fold(s)) = Len(s) /\ \A i \in 1 .. Len(s) : Fold(s)[i] = Lowercase[s[i]]
  BY FoldFacts
<1>4. CASE n <= Len(s)
  <2>1. /\ SubSeq(Fold(s), 1, n) \in Seq(Chars) /\ Len(SubSeq(Fold(s), 1, n)) = n
        /\ \A i \in 1 .. n : SubSeq(Fold(s), 1, n)[i] = Fold(s)[i]
    BY <1>3, <1>4, PrefixFacts
  <2>2. SubSeq(Fold(s), 1, n) = Fold(pre) <=> \A i \in 1 .. n : Fold(s)[i] = Fold(pre)[i]
    BY <1>2, <2>1, EqualFacts
  <2>3. SubSeq(Fold(s), 1, n) = Fold(pre) <=> Alike(s, b, n)
    BY <1>2, <1>3, <1>4, <2>2 DEF Alike
  <2> QED BY <1>2, <1>3, <1>4, <2>3 DEF StartsWith, pre
<1>5. CASE ~(n <= Len(s))
  BY <1>2, <1>3, <1>5 DEF StartsWith, pre
<1> QED BY <1>4, <1>5

(***************************************************************************)
(* A family in terms of characters.                                        *)
(***************************************************************************)
InFamily(b, s) ==
  LET n == Len(b) - 2
  IN /\ n <= Len(s) /\ Alike(s, b, n)
     /\ Len(s) = n \/ (Len(s) > n + 1 /\ s[n + 1] = Dash)

LEMMA FamilyFacts ==
  ASSUME NEW b \in Seq(Chars), IsFamily(b)
  PROVE  /\ Len(b) \in Nat /\ Len(b) >= 2 /\ Base(b) \in Seq(Chars) /\ Len(Base(b)) = Len(b) - 2
         /\ \A i \in 1 .. Len(b) - 2 : Base(b)[i] = b[i]
         /\ b[Len(b) - 1] = Dash
         /\ Base(b) = SubSeq(b, 1, Len(b) - 2)
<1>1. Len(b) \in Nat /\ Len(b) >= 2 /\ Len(b) - 2 \in 0 .. Len(b)
  BY DEF IsFamily
<1> QED BY <1>1, PrefixFacts DEF IsFamily, Base

LEMMA RustFamily ==
  ASSUME NEW b \in Seq(Chars), NEW s \in Seq(Chars), IsFamily(b)
  PROVE  SlugMatches(b, s) <=> InFamily(b, s)
<1> DEFINE n == Len(b) - 2
           base == Fold(Base(b))
<1>1. /\ Len(b) \in Nat /\ n \in Nat /\ n \in 0 .. Len(b)
      /\ Base(b) \in Seq(Chars) /\ Len(Base(b)) = n /\ \A i \in 1 .. n : Base(b)[i] = b[i]
  BY FamilyFacts
<1>2. Fold(s) = base <=> Len(s) = n /\ Alike(s, b, n)
  <2>1. Fold(s) = base <=> Len(s) = Len(Base(b)) /\ Alike(s, Base(b), Len(s))
    BY <1>1, SameFacts DEF SameSlug
  <2> QED BY <1>1, <2>1 DEF Alike
<1>3. StartsWith(Fold(s), base) <=> n <= Len(s) /\ Alike(s, b, n)
  BY <1>1, StartsFacts, FamilyFacts
<1>4. Len(base) = n
  BY <1>1, FoldFacts
<1>5. Len(s) > n + 1 => (Fold(s)[n + 1] = Dash <=> s[n + 1] = Dash)
  <2> SUFFICES ASSUME Len(s) > n + 1
               PROVE  Fold(s)[n + 1] = Dash <=> s[n + 1] = Dash
    OBVIOUS
  <2>1. n + 1 \in 1 .. Len(s) /\ s[n + 1] \in Chars
    BY <1>1
  <2> QED BY <2>1, FoldFacts, SlugAssumption
<1>6. SlugMatches(b, s) <=>
        \/ Fold(s) = base
        \/ Len(s) > Len(base) + 1 /\ StartsWith(Fold(s), base) /\ Fold(s)[Len(base) + 1] = Dash
  BY DEF SlugMatches
<1> HIDE DEF base
<1>7. Len(s) \in Nat /\ n \in Nat
  BY <1>1
<1> QED BY <1>2, <1>3, <1>4, <1>5, <1>6, <1>7 DEF InFamily

LEMMA SqlFamily ==
  ASSUME NEW b \in Seq(Chars), NEW s \in Seq(Chars), IsFamily(b)
  PROVE  PartyMatches(b, s) <=> InFamily(b, s)
<1> DEFINE n == Len(b) - 2
<1>1. /\ Len(b) \in Nat /\ n \in Nat /\ n + 1 = Len(b) - 1 /\ n + 1 \in 0 .. Len(b) /\ Len(s) \in Nat
      /\ Base(b) \in Seq(Chars) /\ Len(Base(b)) = n /\ \A i \in 1 .. n : Base(b)[i] = b[i]
      /\ b[n + 1] = Dash
  BY FamilyFacts
<1>2. SameSlug(s, Base(b)) <=> Len(s) = n /\ Alike(s, b, n)
  <2>1. SameSlug(s, Base(b)) <=> Len(s) = Len(Base(b)) /\ Alike(s, Base(b), Len(s))
    BY <1>1, SameFacts
  <2> QED BY <1>1, <2>1 DEF Alike
<1>3. StartsWith(Fold(s), Fold(SubSeq(b, 1, Len(b) - 1))) <=> n + 1 <= Len(s) /\ Alike(s, b, n + 1)
  BY <1>1, StartsFacts
<1>4. Len(s) > n => (Alike(s, b, n + 1) <=> Alike(s, b, n) /\ s[n + 1] = Dash)
  <2> SUFFICES ASSUME Len(s) > n
               PROVE  Alike(s, b, n + 1) <=> Alike(s, b, n) /\ s[n + 1] = Dash
    OBVIOUS
  <2>1. s[n + 1] \in Chars /\ n + 1 \in 1 .. n + 1
    BY <1>1
  <2>2. Lowercase[b[n + 1]] = Dash
    BY <1>1, SlugAssumption
  <2>3. Lowercase[s[n + 1]] = Lowercase[b[n + 1]] <=> s[n + 1] = Dash
    BY <2>1, <2>2, SlugAssumption
  <2> HIDE DEF n
  <2>4. \A m \in Nat, i \in Nat : i \in 1 .. m + 1 <=> i \in 1 .. m \/ i = m + 1
    OBVIOUS
  <2>5. \A i \in 1 .. n + 1 : i \in 1 .. n \/ i = n + 1
    BY <1>1, <2>4
  <2>6. \A i \in 1 .. n : i \in 1 .. n + 1
    BY <1>1, <2>4
  <2> QED BY <2>1, <2>3, <2>5, <2>6 DEF Alike
<1>5. SameSlug(s, b) => Len(s) = n + 2 /\ Alike(s, b, n + 1)
  <2>1. SameSlug(s, b) => Len(s) = Len(b) /\ Alike(s, b, Len(s))
    BY SameFacts
  <2> QED BY <1>1, <2>1 DEF Alike
<1>6. PartyMatches(b, s) <=>
        \/ SameSlug(s, b)
        \/ SameSlug(s, Base(b))
        \/ Len(s) > Len(b) - 1 /\ StartsWith(Fold(s), Fold(SubSeq(b, 1, Len(b) - 1)))
  BY DEF PartyMatches
<1>7. InFamily(b, s) <=> /\ n <= Len(s) /\ Alike(s, b, n)
                         /\ Len(s) = n \/ (Len(s) > n + 1 /\ s[n + 1] = Dash)
  BY DEF InFamily
<1>8. n + 2 > n + 1 /\ n + 2 >= n /\ Len(b) - 1 = n + 1
  BY <1>1
<1> HIDE DEF n
<1> QED BY <1>1, <1>2, <1>3, <1>4, <1>5, <1>6, <1>7, <1>8

(***************************************************************************)
(* slug_matches and party_clause agree on every binding and every slug,    *)
(* whatever the characters and lengths, in every mix of cases.             *)
(***************************************************************************)
THEOREM RustAgreesWithSql ==
  ASSUME NEW b \in Seq(Chars), NEW s \in Seq(Chars)
  PROVE  SlugMatches(b, s) <=> PartyMatches(b, s)
<1>1. CASE IsFamily(b)
  BY <1>1, RustFamily, SqlFamily
<1>2. CASE ~IsFamily(b)
  BY <1>2 DEF SlugMatches, PartyMatches, SameSlug
<1> QED BY <1>1, <1>2

(***************************************************************************)
(* A binding admits its slug and, with the suffix `-*', its base and every *)
(* slug that adds a dash and at least one character: what                  *)
(* docs/agent-tokens.md promises.                                          *)
(***************************************************************************)
THEOREM MembersAsDocumented ==
  ASSUME NEW b \in Seq(Chars), NEW s \in Seq(Chars)
  PROVE  PartyMatches(b, s) <=> Member(b, s)
<1>1. CASE IsFamily(b)
  <2> DEFINE n == Len(b) - 1
             stem == SubSeq(b, 1, n)
  <2>1. /\ Len(b) \in Nat /\ Len(s) \in Nat /\ n \in Nat /\ n \in 0 .. Len(b) /\ n >= 1
        /\ Base(b) \in Seq(Chars)
    BY <1>1, FamilyFacts
  <2>2. stem \in Seq(Chars) /\ Len(stem) = n /\ \A i \in 1 .. n : stem[i] = b[i]
    BY <2>1, PrefixFacts
  <2>3. StartsWith(Fold(s), Fold(stem)) <=> n <= Len(s) /\ Alike(s, b, n)
    BY <2>1, StartsFacts
  <2> HIDE DEF stem
  <2>4. ASSUME NEW k \in 1 .. Len(s) - 1
        PROVE  SameSlug(SubSeq(s, 1, k), stem) <=> k = n /\ Alike(s, b, n)
    <3>1. k \in Nat /\ k \in 0 .. Len(s)
      BY <2>1, <2>4
    <3>2. /\ SubSeq(s, 1, k) \in Seq(Chars) /\ Len(SubSeq(s, 1, k)) = k
          /\ \A i \in 1 .. k : SubSeq(s, 1, k)[i] = s[i]
      BY <3>1, PrefixFacts
    <3>3. SameSlug(SubSeq(s, 1, k), stem) <=> k = n /\ Alike(SubSeq(s, 1, k), stem, k)
      BY <2>2, <3>2, SameFacts
    <3> QED BY <2>2, <3>2, <3>3 DEF Alike
  <2>5. (\E k \in 1 .. Len(s) - 1 : SameSlug(SubSeq(s, 1, k), stem)) <=>
          Len(s) > n /\ Alike(s, b, n)
    <3> HIDE DEF n
    <3>1. Len(s) > n => n \in 1 .. Len(s) - 1
      BY <2>1
    <3>2. \A k \in 1 .. Len(s) - 1 : k = n => Len(s) > n
      BY <2>1
    <3> QED BY <2>4, <3>1, <3>2
  <2>6. SameSlug(b, s) <=> SameSlug(s, b)
    BY DEF SameSlug
  <2>7. SameSlug(Base(b), s) <=> SameSlug(s, Base(b))
    BY DEF SameSlug
  <2>8. Member(b, s) <=> \/ SameSlug(b, s)
                         \/ SameSlug(Base(b), s)
                         \/ \E k \in 1 .. Len(s) - 1 : SameSlug(SubSeq(s, 1, k), stem)
    BY <1>1 DEF Member, stem
  <2>9. PartyMatches(b, s) <=> \/ SameSlug(s, b)
                               \/ SameSlug(s, Base(b))
                               \/ Len(s) > n /\ StartsWith(Fold(s), Fold(stem))
    BY <1>1 DEF PartyMatches, stem
  <2>10. Len(s) > n => n <= Len(s)
    BY <2>1
  <2> QED BY <2>3, <2>5, <2>6, <2>7, <2>8, <2>9, <2>10
<1>2. CASE ~IsFamily(b)
  BY <1>2 DEF Member, PartyMatches, SameSlug
<1> QED BY <1>1, <1>2

-------------------------------------------------------------------------------
(* Routing runs the bus *)

LEMMA PostIngests ==
  ASSUME NEW from \in Agents, NEW to \in Agents, NEW cat \in FilingCategories,
         NEW key \in Keys \cup {NULL}, Post(from, to, cat, key)
  PROVE  Ingest
BY DEF Post, Ingest

LEMMA RoutingSteps ==
  ASSUME RoutingNext
  PROVE  \/ \E p \in Calls : Tool(p) \/ StoreEmbedding(p)
         \/ \E from, to \in Agents, cat \in FilingCategories, key \in Keys \cup {NULL} :
              Post(from, to, cat, key)
         \/ Poll
BY DEF RoutingNext

LEMMA RoutingStepsBus ==
  ASSUME [RoutingNext]_routingVars
  PROVE  [Next]_vars
<1>1. ASSUME NEW p \in Calls, Tool(p) \/ StoreEmbedding(p)
      PROVE  Next
  BY <1>1 DEF Tool, StoreEmbedding, Next
<1>2. ASSUME NEW from \in Agents, NEW to \in Agents, NEW cat \in FilingCategories,
             NEW key \in Keys \cup {NULL}, Post(from, to, cat, key)
      PROVE  Next
  BY <1>2, PostIngests DEF Next
<1>3. CASE Poll
  BY <1>3 DEF Poll
<1>4. CASE UNCHANGED routingVars
  BY <1>4 DEF routingVars
<1> QED BY <1>1, <1>2, <1>3, <1>4 DEF RoutingNext

(***************************************************************************)
(* Every behaviour of Routing is one of the bus, so all that is proved of  *)
(* the bus holds with concrete slugs.                                      *)
(***************************************************************************)
THEOREM RoutingRefinesBus == RoutingSpec => Spec
<1>1. RoutingInit => Init
  BY DEF RoutingInit
<1>2. [RoutingNext]_routingVars => [Next]_vars
  BY RoutingStepsBus
<1> QED BY <1>1, <1>2, PTL DEF RoutingSpec, Spec

-------------------------------------------------------------------------------
(* What the steps do to keys, senders and stamps *)

(* No tool call changes a dedupe key, and none files with one. *)
KeysStay ==
  /\ \A i \in DOMAIN handoffs' \cap DOMAIN handoffs :
       handoffs'[i].dedupe_key = handoffs[i].dedupe_key
  /\ \A i \in DOMAIN handoffs' \ DOMAIN handoffs : handoffs'[i].dedupe_key = NULL

LEMMA WritesKeys ==
  ASSUME NEW p \in Calls, NEW holds, NEW row, Writes(p, holds, row),
         Exists(calls[p].id) => row.dedupe_key = handoffs[calls[p].id].dedupe_key
  PROVE  KeysStay
BY DEF Writes, Updated, KeysStay

LEMMA ToolSteps ==
  ASSUME NEW p \in Calls, Tool(p) \/ StoreEmbedding(p)
  PROVE  \/ \E new : Asks(p, new)
         \/ Reading(p) \/ Accept(p) \/ Complete(p) \/ Merge(p)
         \/ Delete(p) \/ Create(p) \/ Abandon(p)
BY AskAsks DEF Tool, StoreEmbedding, Statement, Reading

LEMMA ToolKeys ==
  ASSUME Shape, NEW p \in Calls, Tool(p) \/ StoreEmbedding(p)
  PROVE  KeysStay
<1> DEFINE old == handoffs[calls[p].id]
<1>1. CASE (\E new : Asks(p, new)) \/ Reading(p) \/ Abandon(p)
  <2>1. UNCHANGED handoffs
    BY <1>1, ReadingEffect DEF Asks, Abandon, table
  <2> QED BY <2>1 DEF KeysStay
<1>2. Exists(calls[p].id) => old \in Row
  BY ShapeFacts DEF Exists
<1>3. CASE Accept(p)
  <2>1. Exists(calls[p].id) => AcceptedRow(old, calls[p].agent).dedupe_key = old.dedupe_key
    BY <1>2 DEF AcceptedRow, Row
  <2> QED BY <1>3, <2>1, AcceptEffect, WritesKeys
<1>4. CASE Complete(p)
  <2>1. Exists(calls[p].id) => CompletedRow(old, calls[p].commit).dedupe_key = old.dedupe_key
    BY <1>2 DEF CompletedRow, Row
  <2> QED BY <1>4, <2>1, CompleteEffect, WritesKeys
<1>5. CASE Merge(p)
  <2>1. Exists(calls[p].id) => MergedRow(old, calls[p].commit).dedupe_key = old.dedupe_key
    BY <1>2 DEF MergedRow, Row
  <2> QED BY <1>5, <2>1, MergeEffect, WritesKeys
<1>6. CASE Delete(p)
  BY <1>6, DeleteEffect DEF Removed, SameButParent, KeysStay
<1>7. CASE Create(p)
  <2>1. NewRow(calls[p]).dedupe_key = NULL
    BY DEF NewRow, PendingRow
  <2> QED BY <1>7, <2>1, CreateEffect DEF Inserted, KeysStay
<1> QED BY <1>1, <1>3, <1>4, <1>5, <1>6, <1>7, ToolSteps

(***************************************************************************)
(* A filing touches one row, the recipient's: a new one of the filing's    *)
(* category, or one that holds the key already.                            *)
(***************************************************************************)
Files(i, to, cat) ==
  /\ i \in DOMAIN handoffs' /\ Changed \subseteq {i}
  /\ \A j \in DOMAIN handoffs : j \in DOMAIN handoffs' /\ (j # i => handoffs'[j] = handoffs[j])
  /\ DOMAIN handoffs' \subseteq DOMAIN handoffs \cup {i}
  /\ handoffs'[i].to_agent = to
  /\ \/ /\ i \in DOMAIN handoffs
        /\ handoffs[i].dedupe_key # NULL
        /\ handoffs'[i].category = handoffs[i].category
     \/ i \in Ids \ drawn /\ handoffs'[i].category = cat

LEMMA PostFiles ==
  ASSUME Shape, NEW from \in Agents, NEW to \in Agents, NEW cat \in FilingCategories,
         NEW key \in Keys \cup {NULL}, Post(from, to, cat, key)
  PROVE  \E i \in Ids : Files(i, to, Lower(cat))
<1> DEFINE same == {i \in DOMAIN handoffs : Suppresses(handoffs[i], to, key)}
<1>1. FileMachine(from, to, Lower(cat), key) /\ TypeOK /\ DOMAIN handoffs \subseteq drawn
  BY ShapeFacts DEF Post
<1>2. CASE same # {}
  <2>1. PICK i \in same : RepeatFits(handoffs[i]) /\ Update(i, RepeatedRow(handoffs[i]))
    BY <1>1, <1>2 DEF FileMachine
  <2>2. i \in DOMAIN handoffs /\ handoffs[i] \in Row /\ Suppresses(handoffs[i], to, key)
    BY <1>1, <2>1 DEF TypeOK
  <2> HIDE DEF same
  <2>3. Updated(i, RepeatedRow(handoffs[i]))
    BY <1>1, <2>1, <2>2, RowsTyped, UpdateUpdates DEF RepeatFits
  <2>4. /\ RepeatedRow(handoffs[i]).to_agent = to
        /\ RepeatedRow(handoffs[i]).category = handoffs[i].category
        /\ handoffs[i].dedupe_key # NULL
    BY <2>2 DEF RepeatedRow, Row, Suppresses
  <2>5. Files(i, to, Lower(cat))
    BY <2>2, <2>3, <2>4 DEF Updated, Files, Changed, Exists
  <2> QED BY <1>1, <2>2, <2>5 DEF TypeOK
<1>3. CASE same = {}
  <2>1. PICK i \in Ids \ drawn : Insert(i, PendingRow(from, to, Lower(cat), NULL, key))
    BY <1>1, <1>3 DEF FileMachine
  <2>2. PendingRow(from, to, Lower(cat), NULL, key) \in Row
    BY PendingRowTyped DEF Lower, Spellings
  <2>3. Inserted(i, PendingRow(from, to, Lower(cat), NULL, key))
    BY <1>1, <2>1, <2>2, InsertInserts DEF Exists
  <2>4. Files(i, to, Lower(cat))
    BY <2>1, <2>3 DEF Inserted, Files, Changed, Exists, PendingRow
  <2> QED BY <2>1, <2>4
<1> QED BY <1>2, <1>3

(* A call about to insert its row was so before, or its id is new. *)
LEMMA ToolReserves ==
  ASSUME Shape, NEW p \in Calls, Tool(p) \/ StoreEmbedding(p)
  PROVE  \A q \in Calls : Inserting(q)' =>
           \/ Inserting(q) /\ calls'[q].id = calls[q].id
           \/ calls'[q].id \notin drawn
<1>1. calls \in [Calls -> WellFormed]
  BY DEF Shape, CallShape
<1>2. ASSUME NEW new, Asks(p, new)
      PROVE  /\ \A q \in Calls \ {p} : calls'[q] = calls[q]
             /\ calls'[p] = new /\ (new.op = "create" => new.id \notin drawn)
  BY <1>1, <1>2 DEF Asks, Start
<1>3. CASE \E new : Asks(p, new)
  BY <1>2, <1>3 DEF Inserting
<1>4. CASE Abandon(p)
  <2>1. calls'[p].op = NULL /\ \A q \in Calls \ {p} : calls'[q] = calls[q]
    BY <1>1, <1>4 DEF Abandon, Idle
  <2> QED BY <2>1, BusAssumption DEF Inserting, Operations
<1>5. CASE Reading(p)
  BY <1>5, ReadingEffect DEF Advances, Inserting
<1>6. CASE Accept(p)
  BY <1>6, AcceptEffect DEF Advances, Writes, Inserting
<1>7. CASE Complete(p)
  BY <1>7, CompleteEffect DEF Advances, Writes, Inserting
<1>8. CASE Merge(p)
  BY <1>8, MergeEffect DEF Advances, Writes, Inserting
<1>9. CASE Delete(p)
  BY <1>9, DeleteEffect DEF Advances, Inserting
<1>10. CASE Create(p)
  BY <1>10, CreateEffect DEF Advances, Inserting
<1> QED BY <1>3, <1>4, <1>5, <1>6, <1>7, <1>8, <1>9, <1>10, ToolSteps

LEMMA DrawnGrows ==
  ASSUME Shape, [Next]_vars
  PROVE  drawn \subseteq drawn' /\ DOMAIN handoffs' \subseteq drawn'
<1>1. DOMAIN handoffs' \subseteq drawn'
  BY ShapeStep DEF Shape, IdsDrawn
<1>2. ASSUME Ingest PROVE drawn \subseteq drawn'
  BY <1>2, IngestEffect
<1>3. ASSUME NEW p \in Calls, (\E new : Asks(p, new)) \/ Reading(p) \/ Abandon(p)
      PROVE  drawn \subseteq drawn'
  BY <1>3, ReadingEffect DEF Asks, Abandon, table
<1>4. ASSUME NEW p \in Calls, Accept(p) \/ Complete(p) \/ Merge(p)
      PROVE  drawn \subseteq drawn'
  BY <1>4, AcceptEffect, CompleteEffect, MergeEffect DEF Writes
<1>5. ASSUME NEW p \in Calls, Delete(p) \/ Create(p)
      PROVE  drawn \subseteq drawn'
  BY <1>5, DeleteEffect, CreateEffect
<1>6. ASSUME UNCHANGED vars PROVE drawn \subseteq drawn'
  BY <1>6 DEF vars
<1> QED BY <1>1, <1>2, <1>3, <1>4, <1>5, <1>6, Steps

-------------------------------------------------------------------------------
(* The wake poll *)

LEMMA WakeTool ==
  ASSUME Shape, WakeInv, NEW p \in Calls, Tool(p) \/ StoreEmbedding(p)
  PROVE  WakeInv'
<1>1. KeysStay /\ Next
  BY ToolKeys DEF Tool, StoreEmbedding, Next
<1>2. Onward /\ drawn \subseteq drawn'
  BY <1>1, StepOnward, DrawnGrows
<1>3. filed' = filed /\ touched' \subseteq DOMAIN handoffs' /\ touched \cap DOMAIN handoffs' \subseteq touched'
  BY DEF Tool, StoreEmbedding, Stamp
<1>4. \A q \in Calls : Inserting(q)' => calls'[q].id \notin filed'
  BY <1>3, ToolReserves DEF WakeInv
<1>5. ASSUME NEW i \in DOMAIN handoffs', handoffs'[i].dedupe_key # NULL
      PROVE  handoffs'[i].category \in {"action", "notify"}
  BY <1>1, <1>2, <1>5 DEF KeysStay, Onward, Evolves, WakeInv
<1>6. ASSUME NEW i \in filed', i \in DOMAIN handoffs'
      PROVE  /\ i \in touched' /\ handoffs'[i].to_agent = Watched
             /\ handoffs'[i].category \in {"action", "notify"}
  <2>1. i \in drawn /\ \A q \in Calls : Inserting(q) => calls[q].id # i
    BY <1>3, <1>6 DEF WakeInv
  <2>2. i \in DOMAIN handoffs
    BY <1>2, <1>6, <2>1 DEF Onward
  <2> QED BY <1>2, <1>3, <1>6, <2>2 DEF WakeInv, Onward, Evolves, Exists
<1>7. filed' \subseteq drawn'
  BY <1>2, <1>3 DEF WakeInv
<1> QED BY <1>3, <1>4, <1>5, <1>6, <1>7 DEF WakeInv, Exists

LEMMA WakePost ==
  ASSUME Shape, WakeInv, NEW from \in Agents, NEW to \in Agents, NEW cat \in FilingCategories,
         NEW key \in Keys \cup {NULL}, Post(from, to, cat, key)
  PROVE  WakeInv'
<1>1. PICK i \in Ids : Files(i, to, Lower(cat))
  BY PostFiles
<1>2. Next /\ drawn \subseteq drawn' /\ DOMAIN handoffs' \subseteq drawn'
  BY PostIngests, DrawnGrows DEF Next
<1>3. calls' = calls /\ touched' = (touched \cup Changed) \cap DOMAIN handoffs'
  BY DEF Post, FileMachine, Stamp, Stamped
<1>4. filed' = filed \/ (filed' = filed \cup Changed /\ to = Watched)
  BY DEF Post
<1>5. \A q \in Calls : Inserting(q) => calls[q].id \in drawn /\ calls[q].id \notin DOMAIN handoffs
  BY ShapeFacts, BusAssumption DEF Shape, Reserved, Inserting, Exists, Operations
<1>6. \A q \in Calls : Inserting(q)' => calls'[q].id \notin filed'
  BY <1>1, <1>3, <1>4, <1>5 DEF Files, WakeInv, Inserting
<1>7. handoffs'[i].category \in {"action", "notify"}
  BY <1>1 DEF Files, WakeInv, Lower
<1>8. ASSUME NEW j \in DOMAIN handoffs', handoffs'[j].dedupe_key # NULL
      PROVE  handoffs'[j].category \in {"action", "notify"}
  BY <1>1, <1>7, <1>8 DEF Files, WakeInv
<1>9. ASSUME NEW j \in filed', j \in DOMAIN handoffs'
      PROVE  /\ j \in touched' /\ handoffs'[j].to_agent = Watched
             /\ handoffs'[j].category \in {"action", "notify"}
  <2>1. CASE j = i /\ j \in Changed /\ to = Watched
    BY <1>1, <1>3, <1>7, <1>9, <2>1 DEF Files
  <2>2. CASE j \in filed
    <3>1. j \in DOMAIN handoffs
      <4>1. j \in drawn
        BY <2>2 DEF WakeInv
      <4> QED BY <1>1, <1>9, <4>1 DEF Files
    <3>2. j \in touched /\ handoffs[j].to_agent = Watched /\ handoffs[j].category \in {"action", "notify"}
      BY <2>2, <3>1 DEF WakeInv, Exists
    <3>3. handoffs'[j].to_agent = handoffs[j].to_agent
      <4>1. Onward
        BY <1>2, StepOnward
      <4> QED BY <1>9, <3>1, <4>1 DEF Onward, Evolves
    <3> QED BY <1>1, <1>3, <1>7, <1>9, <3>2, <3>3 DEF Files
  <2> QED BY <1>1, <1>4, <1>9, <2>1, <2>2 DEF Files
<1>10. touched' \subseteq DOMAIN handoffs' /\ filed' \subseteq drawn'
  BY <1>2, <1>3, <1>4 DEF WakeInv, Changed
<1> QED BY <1>3, <1>6, <1>8, <1>9, <1>10 DEF WakeInv, Exists

-------------------------------------------------------------------------------
(* Senders *)

(* What a call that is asked for names as sender is one of its token's. *)
LEMMA AskSends ==
  ASSUME Shape, NEW p \in Calls, Ask(p)
  PROVE  calls'[p].op = "create" => calls'[p].agent \in Senders(calls'[p].token)
<1>1. DOMAIN calls = Calls
  BY DEF Shape, CallShape
<1>2. CASE AskCreate(p)
  <2>1. PICK t \in Tokens, i \in Ids \ drawn, to \in Agents \cup {NULL},
             parent \in Known \cup {NULL}, cat \in Categories : \E a \in Senders(t) :
               Start(p, [Idle EXCEPT !.op = "create", !.token = t, !.id = i, !.agent = a,
                           !.to = to, !.parent = parent, !.category = cat,
                           !.at = IF parent = NULL THEN "write" ELSE Gate(t, "write")])
    BY <1>2 DEF AskCreate
  <2> QED BY <1>1, <2>1 DEF Start, Idle
<1>3. CASE AskAccept(p)
  BY <1>1, <1>3 DEF AskAccept, Start, Idle
<1>4. CASE AskComplete(p)
  BY <1>1, <1>4 DEF AskComplete, Start, Idle
<1>5. CASE AskMerge(p)
  BY <1>1, <1>5 DEF AskMerge, Start, Idle
<1>6. CASE AskDelete(p)
  BY <1>1, <1>6 DEF AskDelete, Start, Idle
<1> QED BY <1>2, <1>3, <1>4, <1>5, <1>6 DEF Ask

(* A call that goes on and has its row, or is told so, had it before or inserts it. *)
Carries(p) ==
  /\ calls'[p].op = "create" => calls'[p].agent \in Senders(calls'[p].token)
  /\ calls'[p].op = "create" /\ (calls'[p].at = "embed" \/ calls'[p].answer = "ok")
       /\ calls'[p].id \in DOMAIN handoffs' => handoffs'[calls'[p].id].from_agent = calls'[p].agent

LEMMA ReadingCarries ==
  ASSUME Shape, NEW p \in Calls, Sent(p), Reading(p)
  PROVE  Carries(p)
<1> USE DEF Carries, Sent
<1>1. /\ Advances(p) /\ UNCHANGED handoffs /\ calls[p].at \in InFlight
  BY ReadingEffect DEF table
<1>2. calls[p] \in WellFormed /\ DOMAIN calls = Calls /\ calls[p].answer = NULL /\ NULL \notin Answers
  BY <1>1, Unanswered DEF Shape, CallShape
<1>3. calls[p].op = "create" =>
        \/ calls'[p].at # "embed" /\ calls'[p].answer # "ok"
        \/ calls[p].at = "embed"
  <2>1. CASE CheckVisible(p)
    <3>1. FirstStage(calls[p].op, calls[p].agent) # "embed"
      BY DEF FirstStage
    <3>2. Goto(p, FirstStage(calls[p].op, calls[p].agent)) \/ Answer(p, "not_found", NULL)
      BY <2>1 DEF CheckVisible
    <3> HIDE DEF Sent, Carries
    <3>3. CASE Goto(p, FirstStage(calls[p].op, calls[p].agent))
      <4>1. calls'[p].at = FirstStage(calls[p].op, calls[p].agent) /\ calls'[p].answer = calls[p].answer
        BY <1>2, <3>3 DEF Goto, WellFormed, Call
      <4> QED BY <1>2, <3>1, <4>1 DEF Answers
    <3>4. CASE Answer(p, "not_found", NULL)
      <4>1. calls'[p].at = "answered" /\ calls'[p].answer = "not_found"
        BY <1>2, <3>4 DEF Answer, WellFormed, Call
      <4> QED BY <4>1
    <3> QED BY <3>2, <3>3, <3>4
  <2>2. CASE CheckBroadcast(p)
    BY <2>2 DEF CheckBroadcast, At
  <2>3. CASE CheckMerge(p)
    BY <2>3 DEF CheckMerge, At
  <2>4. CASE Reread(p)
    BY <1>2, <2>4 DEF Reread, WellFormed
  <2>5. CASE Embedded(p)
    BY <2>5 DEF Embedded, At
  <2>6. CASE DatabaseError(p)
    BY <1>2, <2>6 DEF DatabaseError, Answer
  <2> QED BY <2>1, <2>2, <2>3, <2>4, <2>5, <2>6 DEF Reading
<1> QED BY <1>1, <1>3 DEF Advances, Exists

LEMMA CreateCarries ==
  ASSUME Shape, NEW p \in Calls, Sent(p), Create(p)
  PROVE  Carries(p)
<1>1. calls[p].op = "create" /\ calls[p].at = "write" /\ Advances(p)
  BY CreateEffect
<1>2. CASE Inserted(calls[p].id, NewRow(calls[p]))
  BY <1>1, <1>2 DEF Inserted, NewRow, PendingRow, Advances, Carries, Sent
<1>3. CASE UNCHANGED handoffs
  <2>1. calls[p].id \notin DOMAIN handoffs
    BY <1>1 DEF Shape, Reserved, Inserting, Exists
  <2> QED BY <1>1, <1>3, <2>1 DEF Advances, Carries, Sent
<1> QED BY <1>2, <1>3, CreateEffect

LEMMA ToolCarries ==
  ASSUME Shape, NEW p \in Calls, Sent(p), Tool(p) \/ StoreEmbedding(p)
  PROVE  Carries(p)
<1>1. CASE Ask(p)
  <2>1. PICK new : Asks(p, new)
    BY <1>1, AskAsks
  <2>2. calls'[p] = new /\ new \in WellFormed /\ new.answer = NULL /\ new.at # "embed"
    BY <2>1 DEF Asks, Asked, Start, Shape, CallShape
  <2> QED BY <1>1, <2>2, AskSends, BusAssumption DEF Carries, Answers
<1>2. CASE Reading(p)
  BY <1>2, ReadingCarries
<1>3. CASE Create(p)
  BY <1>3, CreateCarries
<1>4. CASE Accept(p) \/ Complete(p) \/ Merge(p) \/ Delete(p)
  <2>1. calls'[p].op # "create"
    BY <1>4, AcceptEffect, CompleteEffect, MergeEffect, DeleteEffect DEF Writes, Advances
  <2> QED BY <2>1 DEF Carries
<1>5. CASE Abandon(p)
  <2>1. calls'[p].op = NULL
    BY <1>5 DEF Abandon, Idle, Shape, CallShape
  <2> QED BY <2>1, BusAssumption DEF Carries, Operations
<1> QED BY <1>1, <1>2, <1>3, <1>4, <1>5 DEF Tool, StoreEmbedding, Statement, Reading

LEMMA OthersSent ==
  ASSUME Shape, Onward, NEW q \in Calls, calls'[q] = calls[q], Sent(q)
  PROVE  Sent(q)'
<1> SUFFICES ASSUME calls[q].op = "create",
                    calls[q].at = "embed" \/ calls[q].answer = "ok",
                    calls[q].id \in DOMAIN handoffs'
             PROVE  handoffs'[calls[q].id].from_agent = calls[q].agent
  BY DEF Sent, Exists
<1>1. calls[q].id \in drawn /\ ~Inserting(q)
  BY ShapeFacts, BusAssumption DEF Shape, CallShape, WellFormed, Inserting, Operations, Answers
<1>2. \A r \in Calls : Inserting(r) => calls[r].id # calls[q].id
  BY <1>1 DEF Shape, Reserved
<1>3. calls[q].id \in DOMAIN handoffs
  BY <1>1, <1>2 DEF Onward
<1> QED BY <1>3 DEF Onward, Evolves, Sent, Exists

LEMMA SentStep ==
  ASSUME Shape, \A q \in Calls : Sent(q), RoutingNext
  PROVE  \A q \in Calls : Sent(q)'
<1>1. ASSUME NEW p \in Calls, Tool(p) \/ StoreEmbedding(p)
      PROVE  \A q \in Calls : Sent(q)'
  <2>1. Onward
    BY <1>1, StepOnward DEF Tool, StoreEmbedding, Next
  <2>2. \A q \in Calls \ {p} : calls'[q] = calls[q]
    <3>1. CASE (\E new : Asks(p, new)) \/ Abandon(p)
      BY <3>1 DEF Asks, Start, Abandon, Shape, CallShape
    <3>2. CASE Reading(p) \/ Accept(p) \/ Complete(p) \/ Merge(p) \/ Delete(p) \/ Create(p)
      BY <3>2, ReadingEffect, AcceptEffect, CompleteEffect, MergeEffect, DeleteEffect, CreateEffect
         DEF Writes, Advances
    <3> QED BY <1>1, <3>1, <3>2, ToolSteps
  <2>3. Sent(p)'
    BY <1>1, ToolCarries DEF Carries, Sent, Exists
  <2> QED BY <2>1, <2>2, <2>3, OthersSent
<1>2. ASSUME NEW from \in Agents, NEW to \in Agents, NEW cat \in FilingCategories,
             NEW key \in Keys \cup {NULL}, Post(from, to, cat, key)
      PROVE  \A q \in Calls : Sent(q)'
  <2>1. Onward
    BY <1>2, PostIngests, StepOnward DEF Next
  <2> QED BY <1>2, <2>1, OthersSent DEF Post, FileMachine
<1>3. CASE Poll
  BY <1>3 DEF Poll, vars, Sent, Exists
<1> QED BY <1>1, <1>2, <1>3, RoutingSteps

-------------------------------------------------------------------------------
LEMMA TracedInit ==
  ASSUME RoutingInit
  PROVE  Traced
<1> USE DEF RoutingInit, Init, Traced
<1>1. WakeInv
  BY BusAssumption DEF WakeInv, Idle, Inserting, Exists, Operations
<1>2. \A p \in Calls : Sent(p)
  BY BusAssumption DEF Sent, Idle, Operations
<1> QED BY <1>1, <1>2

LEMMA TracedStep ==
  ASSUME Shape, Traced, [RoutingNext]_routingVars
  PROVE  Traced'
<1>1. CASE RoutingNext
  <2>1. ASSUME Poll
        PROVE  WakeInv'
    BY <2>1 DEF Poll, vars, WakeInv, Inserting, Exists, Traced
  <2>2. WakeInv'
    BY <1>1, <2>1, RoutingSteps, WakeTool, WakePost DEF Traced
  <2> QED BY <1>1, <2>2, SentStep DEF Traced
<1>2. CASE UNCHANGED routingVars
  BY <1>2 DEF routingVars, vars, wakeVars, Traced, WakeInv, Sent, Inserting, Exists
<1> QED BY <1>1, <1>2

(***************************************************************************)
(* A filed row stays its recipient's and stamped, and a row keeps the name *)
(* its token was entitled to file it under, whatever the other calls do.   *)
(***************************************************************************)
THEOREM RoutingInductive == RoutingSpec => []RoutingInv
<1>1. IInv => Shape
  BY DEF IInv
<1>2. RoutingSpec => []IInv
  BY RoutingRefinesBus, Inductive, PTL
<1>3. RoutingInit => Traced
  BY TracedInit
<1>4. Shape /\ Traced /\ [RoutingNext]_routingVars => Traced'
  BY TracedStep
<1>5. Shape /\ Traced => RoutingInv
  BY DEF Shape, RoutingInv
<1> QED BY <1>1, <1>2, <1>3, <1>4, <1>5, PTL DEF RoutingSpec

(***************************************************************************)
(* An action filing is in its recipient's next poll, unless its row was    *)
(* closed, is a lock its sender took, or was filed as notify.              *)
(***************************************************************************)
THEOREM FilingsAreHeard == RoutingSpec => []FilingHeard
<1>1. RoutingInv => FilingHeard
  BY DEF RoutingInv, Traced, WakeInv, FilingHeard, WakePage, Wakes
<1> QED BY <1>1, RoutingInductive, PTL

(***************************************************************************)
(* What a token that excludes client data may get by id is what its lists  *)
(* contain, and its own handoffs and the replies to them are among it.     *)
(***************************************************************************)
THEOREM ReadsAreOne == RoutingSpec => []ReadsAgree
<1>1. ASSUME IInv, Traced
      PROVE  ReadsAgree
  <2>1. TypeOK /\ NoDanglingReply
    BY <1>1 DEF IInv, Shape, RowInv
  <2> SUFFICES ASSUME NEW t \in Restricted
               PROVE  /\ Listed(t) = CanGet(t)
                      /\ \A p \in Calls : calls[p].token = t /\ Won(p, "create") /\ Exists(calls[p].id) =>
                           calls[p].id \in Listed(t)
                      /\ \A i \in DOMAIN handoffs, a \in Agents :
                           /\ handoffs[i].to_agent = a /\ MayQuery(t, a)
                           /\ handoffs[i].in_reply_to # NULL
                           /\ handoffs[handoffs[i].in_reply_to].from_agent = a
                           => i \in Replies(t, a)
    BY DEF ReadsAgree
  <2>2. t \in Tokens /\ BoundTo[t] # {} /\ BoundTo[t] \subseteq Agents
    BY BusAssumption
  <2>3. Binding[t] \in Seq(Chars) /\ BoundTo[t] = {a \in Agents : SlugMatches(Binding[t], a)}
    BY <2>2, RoutingAssumption
  <2>4. PartyOf[t] = BoundTo[t]
    <3>1. \A a \in Agents : SlugMatches(Binding[t], a) <=> PartyMatches(Binding[t], a)
      BY <2>3, RoutingAssumption, RustAgreesWithSql
    <3> QED BY <2>3, <3>1 DEF PartyOf
  <2>5. Listed(t) = CanGet(t)
    BY <2>4 DEF Listed, CanGet, PartyClause, CanSee
  <2>6. ASSUME NEW p \in Calls, calls[p].token = t, Won(p, "create"), Exists(calls[p].id)
        PROVE  calls[p].id \in Listed(t)
    <3>1. handoffs[calls[p].id].from_agent = calls[p].agent /\ calls[p].agent \in Senders(t)
      BY <1>1, <2>6 DEF Traced, Sent, Won
    <3> QED BY <2>2, <2>4, <2>6, <3>1 DEF Senders, Listed, PartyClause, Exists
  <2>7. ASSUME NEW i \in DOMAIN handoffs, NEW a \in Agents, handoffs[i].to_agent = a,
               MayQuery(t, a), handoffs[i].in_reply_to # NULL,
               handoffs[handoffs[i].in_reply_to].from_agent = a
        PROVE  i \in Replies(t, a)
    BY <2>1, <2>4, <2>7 DEF MayQuery, Replies, Listed, PartyClause, NoDanglingReply
  <2> QED BY <2>5, <2>6, <2>7
<1>2. RoutingSpec => []IInv
  BY RoutingRefinesBus, Inductive, PTL
<1>3. RoutingInv => Traced
  BY DEF RoutingInv
<1> QED BY <1>1, <1>2, <1>3, RoutingInductive, PTL
===============================================================================
