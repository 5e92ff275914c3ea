---------------------------- MODULE CheckInProofs ----------------------------
(***************************************************************************)
(* What check_in shows, for any number of agents, calls and readers.  A    *)
(* step of CheckIn is a step of HandoffBus or leaves the bus alone, so     *)
(* what HandoffBusProofs proves of the bus holds under every read.         *)
(***************************************************************************)
EXTENDS CheckIn, HandoffBusProofs, FiniteSetTheorems

LEMMA ReadsAreBusSteps == ReadSpec => Spec
<1>1. ReadInit => Init
  BY DEF ReadInit
<1>2. [ReadNext]_allVars => [Next]_vars
  BY DEF ReadNext, BusStep, ReadStep, Begin, ActionPage, CountClaims, NotifyPage, AbandonRead, allVars
<1> QED BY <1>1, <1>2, PTL DEF ReadSpec, Spec

(***************************************************************************)
(* With a second agent on the bus every open action handoff is in some     *)
(* agent's queue or among its self-claims.                                 *)
(***************************************************************************)
THEOREM AllSeen ==
  ASSUME \A a \in Agents : \E b \in Agents : b # a
  PROVE  ReadSpec => []SeenBySomebody
<1>1. ASSUME IInv, NEW i \in DOMAIN handoffs, OpenAction(handoffs[i])
      PROVE  \E a \in Agents : \/ InQueue(handoffs[i], a) /\ ~SelfClaim(handoffs[i])
                               \/ i \in SelfClaims(a)
  <2> DEFINE row == handoffs[i]
  <2>1. row \in Row /\ ClaimHasHolder
    BY <1>1 DEF IInv, RowInv, Shape, TypeOK
  <2>2. CASE row.to_agent # NULL
    <3>1. row.to_agent \in Agents
      BY <2>1, <2>2 DEF Row
    <3> QED BY <1>1, <2>2, <3>1 DEF InQueue, SelfClaims
  <2>3. CASE row.to_agent = NULL /\ row.status = "pending"
    BY <2>1, <2>3 DEF InQueue, IsBroadcast, SelfClaim, Row
  <2>4. CASE row.to_agent = NULL /\ row.status = "accepted"
    <3>1. row.accepted_by \in Agents
      BY <2>1, <2>4 DEF ClaimHasHolder, Row
    <3> QED BY <2>4, <3>1 DEF InQueue, IsBroadcast, SelfClaim
  <2> QED BY <1>1, <2>2, <2>3, <2>4 DEF OpenAction, Open
<1>2. IInv => SeenBySomebody
  BY <1>1 DEF SeenBySomebody
<1> QED BY <1>2, Inductive, ReadsAreBusSteps, PTL

-------------------------------------------------------------------------------
(* What a read misses *)

Inv == IInv /\ ReadInv

LEMMA ReadFacts ==
  ASSUME Inv, NEW r \in Readers
  PROVE  /\ reads[r] \in Read /\ stayed[r] \subseteq Ids /\ Accounts(r)
         /\ \A i \in DOMAIN handoffs : i \in Ids /\ handoffs[i] \in Row
         /\ NULL \notin Nat
BY ReaderAssumption DEF Inv, ReadInv, IInv, Shape, TypeOK

(***************************************************************************)
(* A whole action page holds all of the reader's addressed action          *)
(* handoffs but its self-claims.                                           *)
(***************************************************************************)
LEMMA WholePage ==
  ASSUME Inv, NEW r \in Readers, reads[r].at # "idle",
         NEW page \in Pages(ActionQueue(reads[r].agent, reads[r].token), ActionLimit),
         ~page.has_more
  PROVE  stayed[r] \ page.items \subseteq SelfClaims(reads[r].agent)
<1> DEFINE a == reads[r].agent
           t == reads[r].token
<1>1. page.items = ActionQueue(a, t)
  BY DEF Pages
<1>2. /\ a \in Agents /\ (t \in Restricted => a \in BoundTo[t])
      /\ stayed[r] \subseteq AddressedOpen(a)
  BY ReadFacts DEF Accounts
<1>3. NULL \notin Agents
  BY BusAssumption
<1> SUFFICES ASSUME NEW i \in stayed[r], ~SelfClaim(handoffs[i])
             PROVE  i \in ActionQueue(a, t)
  BY <1>1, <1>2 DEF SelfClaims, AddressedOpen
<1> QED BY <1>2 DEF ActionQueue, AddressedOpen, Visible, CanSee, InQueue

LEMMA BusKeepsReads ==
  ASSUME Inv, IInv', BusStep, IsFiniteSet(Ids)
  PROVE  ReadInv'
<1>1. Shape /\ Onward /\ reads' = reads
  BY StepOnward DEF Inv, IInv, BusStep
<1>2. stayed' = [r \in Readers |->
                   {i \in stayed[r] : i \in DOMAIN handoffs' /\ handoffs'[i].status \in Open}]
  BY DEF BusStep
<1>3. reads' \in [Readers -> Read] /\ stayed' \in [Readers -> SUBSET Ids]
  BY <1>1, <1>2 DEF Inv, ReadInv
<1>4. ASSUME NEW r \in Readers PROVE Accounts(r)'
  <2> DEFINE read == reads[r]
             rest == stayed[r] \ read.action.items
             rest2 == stayed'[r] \ read.action.items
  <2>1. Accounts(r) /\ stayed[r] \subseteq Ids /\ read \in Read
    BY ReadFacts
  <2>2. /\ stayed'[r] \subseteq stayed[r] /\ rest2 \subseteq rest
        /\ \A i \in stayed'[r] : i \in DOMAIN handoffs' /\ handoffs'[i].status \in Open
    BY <1>2
  <2>3. read.at # "idle" => stayed'[r] \subseteq AddressedOpen(read.agent)'
    <3>1. \A i \in stayed'[r] : read.at # "idle" =>
            /\ i \in DOMAIN handoffs /\ handoffs[i].category = "action"
            /\ handoffs[i].to_agent = read.agent
      BY <2>1, <2>2 DEF Accounts, AddressedOpen, OpenAction
    <3> QED BY <1>1, <2>2, <3>1 DEF Onward, Evolves, AddressedOpen, OpenAction
  <2>4. read.at = "claims" /\ ~read.action.has_more => rest2 \subseteq SelfClaims(read.agent)'
    <3> SUFFICES ASSUME read.at = "claims", ~read.action.has_more, NEW i \in rest2
                 PROVE  i \in SelfClaims(read.agent)'
      OBVIOUS
    <3>1. i \in SelfClaims(read.agent)
      BY <2>1, <2>2 DEF Accounts
    <3>2. /\ i \in DOMAIN handoffs /\ i \in DOMAIN handoffs' /\ handoffs'[i].status \in Open
          /\ Evolves(handoffs'[i], handoffs[i])
      BY <1>1, <2>2, <3>1 DEF SelfClaims, Onward
    <3>3. handoffs'[i].status = "accepted"
      BY <3>1, <3>2 DEF SelfClaims, SelfClaim, Evolves, Open
    <3> QED BY <1>1, <3>1, <3>2, <3>3 DEF SelfClaims, SelfClaim, Evolves, OpenAction
  <2>5. ~read.action.has_more /\ read.claims # NULL => Cardinality(rest2) <= read.claims
    <3>0. rest \in SUBSET Ids
      BY <2>1
    <3>1. IsFiniteSet(rest)
      BY <3>0, FS_Subset
    <3>2. /\ Cardinality(rest2) <= Cardinality(rest)
          /\ Cardinality(rest) \in Nat /\ Cardinality(rest2) \in Nat
      BY <2>2, <3>1, FS_Subset, FS_CardinalityType
    <3> HIDE DEF rest, rest2
    <3>3. read.claims # NULL => read.claims \in Nat
      BY <2>1 DEF Read, Querying
    <3>4. ~read.action.has_more /\ read.claims # NULL => Cardinality(rest) <= read.claims
      BY <2>1 DEF Accounts, rest
    <3> QED BY <3>2, <3>3, <3>4
  <2> QED BY <1>1, <2>1, <2>3, <2>4, <2>5 DEF Accounts
<1> QED BY <1>3, <1>4 DEF ReadInv

(***************************************************************************)
(* A step of one reader leaves the others and the bus alone.               *)
(***************************************************************************)
LEMMA OneReads ==
  ASSUME Inv, NEW r \in Readers, NEW new \in Read, NEW s \in SUBSET Ids, UNCHANGED vars,
         reads' = [reads EXCEPT ![r] = new], stayed' = [stayed EXCEPT ![r] = s], Accounts(r)'
  PROVE  ReadInv'
<1>1. reads' \in [Readers -> Read] /\ stayed' \in [Readers -> SUBSET Ids]
  BY DEF Inv, ReadInv
<1>2. ASSUME NEW q \in Readers \ {r} PROVE Accounts(q)'
  <2>1. Accounts(q) /\ reads'[q] = reads[q] /\ stayed'[q] = stayed[q] /\ UNCHANGED handoffs
    BY DEF Inv, ReadInv, vars
  <2> QED BY <2>1 DEF Accounts, AddressedOpen, SelfClaims
<1> QED BY <1>1, <1>2 DEF ReadInv

LEMMA PagesTyped ==
  ASSUME NEW rows \in SUBSET Ids, NEW limit, NEW page \in Pages(rows, limit)
  PROVE  page \in Page
<1>1. \A s \in SUBSET Ids, b \in BOOLEAN : [items |-> s, has_more |-> b] \in Page
  BY Zenon DEF Page
<1>2. CASE page = [items |-> rows, has_more |-> FALSE]
  BY <1>1, <1>2
<1>3. CASE \E s \in SUBSET rows : page = [items |-> s, has_more |-> TRUE]
  BY <1>1, <1>3
<1> QED BY <1>2, <1>3 DEF Pages

LEMMA ReaderKeepsReads ==
  ASSUME Inv, NEW r \in Readers, ReadStep(r), IsFiniteSet(Ids)
  PROVE  ReadInv'
<1> DEFINE read == reads[r]
           rest == stayed[r] \ read.action.items
<1>1. /\ read \in Read /\ stayed[r] \subseteq Ids /\ Accounts(r) /\ NULL \notin Nat
      /\ reads \in [Readers -> Read] /\ stayed \in [Readers -> SUBSET Ids]
      /\ \A i \in DOMAIN handoffs : i \in Ids
  BY ReadFacts DEF Inv, ReadInv
<1>2. IdleRead \in Read /\ IdleRead.at = "idle" /\ IdleRead.claims = NULL
  BY DEF IdleRead, NoPage, Read, Page
<1>3. CASE Begin(r)
  <2>1. PICK t \in Tokens, a \in Agents :
          /\ t \in Restricted => a \in BoundTo[t]
          /\ reads' = [reads EXCEPT ![r] = [IdleRead EXCEPT !.at = "action", !.agent = a, !.token = t]]
          /\ stayed' = [stayed EXCEPT ![r] = AddressedOpen(a)]
    BY <1>3 DEF Begin, Order
  <2> DEFINE new == [IdleRead EXCEPT !.at = "action", !.agent = a, !.token = t]
  <2>2. new \in Read /\ new.at = "action" /\ new.agent = a /\ new.token = t /\ new.claims = NULL
    <3>1. new \in Read /\ new.at = "action" /\ new.agent = a /\ new.token = t
      BY <1>2 DEF Read, Querying
    <3>2. new.claims = IdleRead.claims
      BY <1>2 DEF Read
    <3> QED BY <1>2, <3>1, <3>2
  <2>3. UNCHANGED vars /\ AddressedOpen(a)' = AddressedOpen(a) /\ AddressedOpen(a) \in SUBSET Ids
    BY <1>1, <1>3 DEF Begin, vars, AddressedOpen
  <2>4. reads'[r] = new /\ stayed'[r] = AddressedOpen(a)
    BY <1>1, <2>1
  <2> HIDE DEF new
  <2>5. Accounts(r)'
    BY <2>1, <2>2, <2>3, <2>4 DEF Accounts, AddressedOpen
  <2> QED BY <2>1, <2>2, <2>3, <2>5, OneReads DEF new
<1>4. ASSUME NEW new \in Read, reads' = [reads EXCEPT ![r] = new], UNCHANGED <<vars, stayed>>,
             new.at # "idle" => read.at # "idle" /\ new.agent = read.agent /\ new.token = read.token,
             new.at = "claims" /\ ~new.action.has_more =>
               stayed[r] \ new.action.items \subseteq SelfClaims(new.agent),
             new.claims # NULL => new.at \in {"notify", "answered"},
             ~new.action.has_more /\ new.claims # NULL =>
               Cardinality(stayed[r] \ new.action.items) <= new.claims
      PROVE  ReadInv'
  <2>1. reads'[r] = new /\ stayed'[r] = stayed[r] /\ stayed' = [stayed EXCEPT ![r] = stayed[r]]
    BY <1>1, <1>4
  <2>2. UNCHANGED <<handoffs, vars>>
    BY <1>4 DEF vars
  <2>3. Accounts(r)'
    BY <1>1, <1>4, <2>1, <2>2 DEF Accounts, AddressedOpen, SelfClaims
  <2> QED BY <1>1, <1>4, <2>1, <2>2, <2>3, OneReads
<1>5. CASE Fail(r) /\ read.at \in Querying /\ UNCHANGED <<vars, stayed>>
  <2> DEFINE new == [read EXCEPT !.at = "answered", !.answer = "db_error"]
  <2>1. new \in Read /\ reads' = [reads EXCEPT ![r] = new]
    <3>1. new \in Read
      BY <1>1, <1>5 DEF Read, Querying
    <3>2. reads' = [reads EXCEPT ![r] = new]
      BY <1>1, <1>5 DEF Fail
    <3> QED BY <3>1, <3>2
  <2>2. /\ new.at = "answered" /\ new.agent = read.agent /\ new.token = read.token
        /\ new.action = read.action /\ new.claims = read.claims
    BY <1>1 DEF Read, Querying
  <2> HIDE DEF new
  <2> QED BY <1>1, <1>4, <1>5, <2>1, <2>2 DEF Accounts, Querying
<1>6. CASE ActionPage(r) /\ ~Fail(r)
  <2>1. PICK page \in Pages(ActionQueue(read.agent, read.token), ActionLimit) :
          reads' = [reads EXCEPT ![r].action = page, ![r].at = "claims"]
    BY <1>6 DEF ActionPage, Order
  <2>2. read.at = "action" /\ UNCHANGED <<vars, stayed>>
    BY <1>6 DEF ActionPage, Order
  <2>3. page \in Page
    BY <1>1, PagesTyped DEF ActionQueue, Visible
  <2> DEFINE new == [read EXCEPT !.action = page, !.at = "claims"]
  <2>4. new \in Read /\ reads' = [reads EXCEPT ![r] = new]
    <3>1. new \in Read
      BY <1>1, <2>1, <2>2, <2>3 DEF Read, Querying
    <3>2. reads' = [reads EXCEPT ![r] = new]
      BY <1>1, <2>1, <2>2, <2>3
    <3> QED BY <3>1, <3>2
  <2>5. /\ new.at = "claims" /\ new.agent = read.agent /\ new.token = read.token
        /\ new.action = page /\ new.claims = read.claims
    BY <1>1, <2>2 DEF Read, Querying
  <2>6. read.claims = NULL
    BY <1>1, <2>2 DEF Accounts
  <2> HIDE DEF new
  <2> QED BY <1>4, <2>1, <2>2, <2>4, <2>5, <2>6, WholePage
<1>7. CASE CountClaims(r)
  <2> DEFINE held == SelfClaims(read.agent)
  <2>1. PICK n \in {Cardinality(held), NULL} :
          reads' = [reads EXCEPT ![r].claims = n, ![r].at = "notify"]
    BY <1>7 DEF CountClaims, Order
  <2>2. read.at = "claims" /\ UNCHANGED <<vars, stayed>>
    BY <1>1, <1>7 DEF CountClaims, Order
  <2>3. held \in SUBSET Ids
    BY <1>1 DEF SelfClaims
  <2>4. IsFiniteSet(held) /\ Cardinality(held) \in Nat
    BY <2>3, FS_Subset, FS_CardinalityType
  <2>5. ~read.action.has_more => Cardinality(rest) <= Cardinality(held)
    <3>1. ~read.action.has_more => rest \in SUBSET held
      BY <1>1, <2>2 DEF Accounts
    <3> HIDE DEF rest, held
    <3> QED BY <2>4, <3>1, FS_Subset
  <2> DEFINE new == [read EXCEPT !.claims = n, !.at = "notify"]
  <2>6. new \in Read /\ reads' = [reads EXCEPT ![r] = new]
    <3>1. new \in Read
      BY <1>1, <2>1, <2>2, <2>4 DEF Read, Querying
    <3>2. reads' = [reads EXCEPT ![r] = new]
      BY <1>1, <2>1, <2>2, <2>4
    <3> QED BY <3>1, <3>2
  <2>7. /\ new.at = "notify" /\ new.agent = read.agent /\ new.token = read.token
        /\ new.action = read.action /\ new.claims = n
    BY <1>1, <2>2 DEF Read, Querying
  <2> HIDE DEF new, held
  <2> QED BY <1>4, <2>1, <2>2, <2>5, <2>6, <2>7
<1>8. CASE NotifyPage(r) /\ ~Fail(r)
  <2>1. PICK page \in Pages(NotifyQueue(read.agent, read.token), NotifyLimit) :
          reads' = [reads EXCEPT ![r].notify = page, ![r].at = "answered", ![r].answer = "ok"]
    BY <1>8 DEF NotifyPage, Order
  <2>2. read.at = "notify" /\ UNCHANGED <<vars, stayed>>
    BY <1>1, <1>8 DEF NotifyPage, Order
  <2>3. page \in Page
    BY <1>1, PagesTyped DEF NotifyQueue, Visible
  <2> DEFINE new == [read EXCEPT !.notify = page, !.at = "answered", !.answer = "ok"]
  <2>4. new \in Read /\ reads' = [reads EXCEPT ![r] = new]
    <3>1. new \in Read
      BY <1>1, <2>1, <2>2, <2>3 DEF Read, Querying
    <3>2. reads' = [reads EXCEPT ![r] = new]
      BY <1>1, <2>1, <2>2, <2>3
    <3> QED BY <3>1, <3>2
  <2>5. /\ new.at = "answered" /\ new.agent = read.agent /\ new.token = read.token
        /\ new.action = read.action /\ new.claims = read.claims
    BY <1>1, <2>2 DEF Read, Querying
  <2> HIDE DEF new
  <2> QED BY <1>1, <1>4, <2>2, <2>4, <2>5 DEF Accounts
<1>9. CASE AbandonRead(r)
  <2>1. reads' = [reads EXCEPT ![r] = IdleRead] /\ UNCHANGED <<vars, stayed>>
    BY <1>9 DEF AbandonRead
  <2>2. IdleRead.at = "idle" /\ IdleRead.claims = NULL
    BY DEF IdleRead
  <2> QED BY <1>2, <1>4, <2>1, <2>2
<1>10. Fail(r) /\ (ActionPage(r) \/ NotifyPage(r)) => read.at \in Querying /\ UNCHANGED <<vars, stayed>>
  <2>1. ActionPage(r) \/ NotifyPage(r) => UNCHANGED <<vars, stayed>>
    BY DEF ActionPage, NotifyPage
  <2>2. ActionPage(r) \/ NotifyPage(r) => read.at \in {"action", "notify"}
    BY DEF ActionPage, NotifyPage
  <2> QED BY <2>1, <2>2 DEF Querying
<1> QED BY <1>3, <1>5, <1>6, <1>7, <1>8, <1>9, <1>10 DEF ReadStep

(***************************************************************************)
(* A check_in whose page is whole and whose count is known accounts for    *)
(* every addressed action handoff that stayed open while it ran.           *)
(***************************************************************************)
THEOREM ReadMissesNothing ==
  ASSUME IsFiniteSet(Ids)
  PROVE  ReadSpec => []NothingMissed
<1>1. ReadInit => ReadInv
  <2> SUFFICES ASSUME ReadInit PROVE ReadInv
    OBVIOUS
  <2>1. IdleRead \in Read /\ IdleRead.at = "idle" /\ IdleRead.claims = NULL
    BY DEF IdleRead, NoPage, Read, Page
  <2>2. reads = [r \in Readers |-> IdleRead] /\ stayed = [r \in Readers |-> {}]
    BY DEF ReadInit
  <2> HIDE DEF IdleRead
  <2> QED BY <2>1, <2>2 DEF ReadInv, Accounts
<1>2. ASSUME IInv, IInv', ReadInv, [ReadNext]_allVars
      PROVE  ReadInv'
  <2>1. Inv
    BY <1>2 DEF Inv
  <2>2. CASE BusStep
    BY <1>2, <2>1, <2>2, BusKeepsReads
  <2>3. CASE \E r \in Readers : ReadStep(r)
    BY <2>1, <2>3, ReaderKeepsReads
  <2>4. CASE UNCHANGED allVars
    <3>1. UNCHANGED <<handoffs, reads, stayed>>
      BY <2>4 DEF allVars, vars, readVars
    <3> QED BY <1>2, <3>1 DEF ReadInv, Accounts, AddressedOpen, SelfClaims
  <2> QED BY <1>2, <2>2, <2>3, <2>4 DEF ReadNext
<1>3. ReadInv => NothingMissed
  <2>1. ASSUME ReadInv, NEW r \in Readers, ~reads[r].action.has_more, reads[r].claims # NULL
        PROVE  Cardinality(stayed[r] \ reads[r].action.items) <= reads[r].claims
    BY <2>1 DEF ReadInv, Accounts
  <2> QED BY <2>1 DEF NothingMissed
<1> QED BY <1>1, <1>2, <1>3, Inductive, ReadsAreBusSteps, PTL DEF ReadSpec
===============================================================================
