------------------------------- MODULE Knowledge -------------------------------
(***************************************************************************)
(* The knowledge base: the `knowledge' table with the embedding of each    *)
(* entry, the calls in flight against it, the operator's backfill of       *)
(* missing embeddings, and the gate on other clients' entries with its     *)
(* audit trail.                                                            *)
(*                                                                         *)
(* As on the bus, a handler is a chain of statements and requests to the   *)
(* embedding endpoint, one action each, and anything may run between two.  *)
(* A text is a title and a content together; a vector is known by the text *)
(* it was computed from.  A server without an embedding client is one      *)
(* whose requests to it all fail.  Categories, tags and timestamps         *)
(* (last_verified_at and the statement that sets it) are left out.         *)
(***************************************************************************)
EXTENDS Naturals, Sequences

CONSTANTS
  Ids,         \* entry ids: bounds how many entries are ever added
  Calls,       \* concurrent calls
  Clients,     \* clients whose knowledge is scoped
  Agents,      \* authors
  Tokens,      \* credentials
  BoundTo,     \* token |-> the slugs it may author as; {} for the main bearer
  Restricted,  \* tokens with exclude_client_data
  Texts,       \* texts
  Similar,     \* text |-> the texts within the duplicate distance of it
  Flags,       \* the values of cross_client_safe that callers pass
  Ops,         \* the operations the callers of this instance use
  BatchSize,   \* the batch of a backfill
  NULL

Operations == {"add", "update", "delete", "search", "backfill"}

ASSUME KnowledgeAssumption ==
  /\ BoundTo \in [Tokens -> SUBSET Agents]
  /\ Restricted \subseteq Tokens /\ \A t \in Restricted : BoundTo[t] # {}
  /\ Similar \in [Texts -> SUBSET Texts]
  /\ Flags \subseteq BOOLEAN /\ Ops \subseteq Operations /\ BatchSize \in Nat \ {0}
  /\ NULL \notin Ids \cup Clients \cup Agents \cup Tokens \cup Texts \cup Operations

VARIABLES
  entries,   \* the knowledge table: id |-> row
  audit,     \* audit_log: which client's search was shown or refused which entry
  drawn,     \* the ids Uuid::now_v7() has returned so far
  calls,     \* call |-> the handler's locals
  had,       \* id |-> the texts the entry has had
  alone      \* entries last written while no embedding of them was under way,
             \* whose own embedding has not failed since

table == <<entries, audit, drawn>>
history == <<had, alone>>
vars == <<table, calls, history>>

-------------------------------------------------------------------------------
Row == [text : Texts, client : Clients \cup {NULL}, safe : BOOLEAN,
        author : Agents, vector : Texts \cup {NULL}]

Disclosures == {"released", "released_safe", "withheld"}

Stages == {"idle", "candidate", "similar", "insert", "check", "write", "embed", "store",
           "read", "log", "fetch", "batch", "storing", "answered"}

(***************************************************************************)
(* The locals of a handler: what it was asked for (text, client, safe,     *)
(* author, acknowledge), the entry it works on with its vector, a          *)
(* backfill's batch, the foreign entries a search met, but for those whose *)
(* audit row failed, and the audit rows it has yet to write.  A local is   *)
(* forgotten once nothing reads it any more.                               *)
(***************************************************************************)
Call == [op : Operations \cup {NULL}, at : Stages, token : Tokens \cup {NULL},
         id : Ids \cup {NULL}, text : Texts \cup {NULL}, client : Clients \cup {NULL},
         safe : BOOLEAN \cup {NULL}, author : Agents \cup {NULL}, acknowledge : BOOLEAN,
         vector : Texts \cup {NULL}, batch : Seq(Ids \X Texts),
         met : SUBSET (Ids \X Disclosures), todo : SUBSET (Ids \X Disclosures)]

Idle == [op |-> NULL, at |-> "idle", token |-> NULL, id |-> NULL, text |-> NULL,
         client |-> NULL, safe |-> NULL, author |-> NULL, acknowledge |-> FALSE,
         vector |-> NULL, batch |-> <<>>, met |-> {}, todo |-> {}]

Exists(i) == i \in DOMAIN entries

(* global_only: a token that excludes client data sees unscoped entries. *)
Visible(t) == {i \in DOMAIN entries : t \in Restricted => entries[i].client = NULL}

CanModify(t, row) == t \in Restricted => row.client = NULL /\ row.author \in BoundTo[t]

Authors(t) == IF BoundTo[t] = {} THEN Agents ELSE BoundTo[t]

ClientsFor(t) == IF t \in Restricted THEN {NULL} ELSE Clients \cup {NULL}

-------------------------------------------------------------------------------
(* Asking and answering *)

(* What a handler knows is gone when it answers; of a search we keep what it
   met, to ask whether that was logged. *)
Start(p, call) ==
  /\ call.op \in Ops /\ calls[p].at \in {"idle", "answered"}
  /\ calls' = [calls EXCEPT ![p] = call]
  /\ UNCHANGED <<table, history>>

Goto(p, stage) == calls' = [calls EXCEPT ![p].at = stage]

Answer(p) == calls' = [calls EXCEPT ![p] = Idle]

AskAdd(p) ==
  \E t \in Tokens, text \in Texts, safe \in Flags, force \in BOOLEAN :
    \E author \in Authors(t), client \in ClientsFor(t) :
      Start(p, [Idle EXCEPT !.op = "add", !.token = t, !.text = text, !.client = client,
                  !.safe = safe, !.author = author,
                  !.at = IF force THEN "insert" ELSE "candidate"])

AskUpdate(p) ==
  \E t \in Tokens, i \in drawn, text \in Texts \cup {NULL}, safe \in Flags \cup {NULL} :
    Start(p, [Idle EXCEPT !.op = "update", !.token = t, !.id = i, !.text = text,
                !.safe = safe, !.at = "check"])

AskDelete(p) ==
  \E t \in Tokens, i \in drawn :
    Start(p, [Idle EXCEPT !.op = "delete", !.token = t, !.id = i,
                !.at = IF t \in Restricted THEN "check" ELSE "write"])

(* Search and browse alike: a query, ranked or recent, under the gate. *)
AskSearch(p) ==
  \E t \in Tokens, acknowledge \in BOOLEAN : \E client \in ClientsFor(t) :
    Start(p, [Idle EXCEPT !.op = "search", !.token = t, !.client = client,
                !.acknowledge = acknowledge, !.at = "read"])

AskBackfill(p) == Start(p, [Idle EXCEPT !.op = "backfill", !.at = "fetch"])

-------------------------------------------------------------------------------
(* What the history variables record *)

(* The calls that will store a vector for entry i. *)
UnderWay(i) ==
  \E p \in Calls :
    \/ calls[p].at \in {"embed", "store"} /\ calls[p].id = i
    \/ \E n \in DOMAIN calls[p].batch : calls[p].batch[n][1] = i

(* Entry i has a new text; its embedding follows if `going'. *)
Written(i, going) ==
  alone' = IF going /\ ~UnderWay(i) THEN alone \cup {i} ELSE alone \ {i}

-------------------------------------------------------------------------------
(* handle_add_knowledge *)

(* The vector is kept for the insert even if the search for duplicates fails. *)
CandidateEmbedded(p) ==
  /\ calls[p].at = "candidate"
  /\ calls' = [calls EXCEPT ![p].vector = calls[p].text, ![p].at = "similar"]
  /\ UNCHANGED <<table, history>>

CandidateFails(p) ==
  /\ calls[p].at = "candidate"
  /\ Goto(p, "insert")
  /\ UNCHANGED <<table, history>>

(* The entries in the caller's view whose vector is within the distance. *)
Duplicates(t, text) ==
  {i \in Visible(t) : entries[i].vector # NULL /\ entries[i].vector \in Similar[text]}

(***************************************************************************)
(* find_similar_knowledge runs over an approximate index, and the distance *)
(* and the caller's view filter what the index returns: it may find any of *)
(* the duplicates, or none.                                                *)
(***************************************************************************)
FindSimilar(p) ==
  /\ calls[p].at = "similar"
  /\ \E found \in SUBSET Duplicates(calls[p].token, calls[p].vector) :
       IF found = {} THEN Goto(p, "insert") ELSE Answer(p)
  /\ UNCHANGED <<table, history>>

SimilarFails(p) ==
  /\ calls[p].at = "similar"
  /\ Goto(p, "insert")
  /\ UNCHANGED <<table, history>>

(* The INSERT; its acknowledgement may be lost, and then nothing is embedded. *)
Insert(p) ==
  LET c == calls[p]
  IN \E i \in Ids \ drawn, acknowledged \in BOOLEAN :
       /\ c.at = "insert"
       /\ drawn' = drawn \cup {i}
       /\ entries' = [j \in DOMAIN entries \cup {i} |->
            IF j = i THEN [text |-> c.text, client |-> c.client, safe |-> c.safe,
                           author |-> c.author, vector |-> NULL]
                     ELSE entries[j]]
       /\ had' = [had EXCEPT ![i] = {c.text}]
       /\ alone' = IF acknowledged THEN alone \cup {i} ELSE alone
       /\ IF acknowledged
            THEN calls' = [calls EXCEPT ![p] =
                   [Idle EXCEPT !.op = "add", !.token = c.token, !.id = i,
                      !.text = IF c.vector = NULL THEN c.text ELSE NULL, !.vector = c.vector,
                      !.at = IF c.vector = NULL THEN "embed" ELSE "store"]]
            ELSE Answer(p)
       /\ UNCHANGED audit

-------------------------------------------------------------------------------
(* handle_update_knowledge and handle_delete_knowledge *)

(* Operators named Faulty... are mistakes this code could have made. *)
FaultyCheckEntryInSight(p) ==
  /\ calls[p].at = "check"
  /\ IF calls[p].id \in Visible(calls[p].token) THEN Goto(p, "write") ELSE Answer(p)
  /\ UNCHANGED <<table, history>>

CheckEntry(p) ==
  /\ calls[p].at = "check"
  /\ IF Exists(calls[p].id) /\ CanModify(calls[p].token, entries[calls[p].id])
       THEN Goto(p, "write")
       ELSE Answer(p)
  /\ UNCHANGED <<table, history>>

FaultyCoalesce(new, old) == new

Coalesce(new, old) == IF new = NULL THEN old ELSE new

(* The UPDATE returns the row as written: what is embedded is its new text. *)
WriteUpdate(p) ==
  LET c == calls[p]
      i == c.id
      text == Coalesce(c.text, entries[i].text)
  IN /\ c.at = "write" /\ c.op = "update"
     /\ IF Exists(i)
          THEN \E acknowledged \in BOOLEAN :
                 /\ entries' = [entries EXCEPT ![i].text = text,
                                  ![i].safe = Coalesce(c.safe, @)]
                 /\ had' = [had EXCEPT ![i] = @ \cup {text}]
                 /\ Written(i, acknowledged)
                 /\ IF acknowledged
                      THEN calls' = [calls EXCEPT ![p].text = text, ![p].safe = NULL,
                                                ![p].at = "embed"]
                      ELSE Answer(p)
          ELSE Answer(p) /\ UNCHANGED <<entries, history>>
     /\ UNCHANGED <<audit, drawn>>

WriteDelete(p) ==
  LET i == calls[p].id
  IN /\ calls[p].at = "write" /\ calls[p].op = "delete"
     /\ entries' = [j \in DOMAIN entries \ {i} |-> entries[j]]
     /\ Answer(p)
     /\ UNCHANGED <<audit, drawn, had, alone>>

-------------------------------------------------------------------------------
(* embed_and_store, and the store of an add that embedded its candidate *)

Embedded(p) ==
  /\ calls[p].at = "embed"
  /\ calls' = [calls EXCEPT ![p].vector = calls[p].text, ![p].text = NULL,
                            ![p].at = "store"]
  /\ UNCHANGED <<table, history>>

FaultySetVectorOnce(i, vector) ==
  entries' = [j \in DOMAIN entries |->
                IF j = i /\ entries[j].vector = NULL
                  THEN [entries[j] EXCEPT !.vector = vector] ELSE entries[j]]

SetVector(i, vector) ==
  entries' = [j \in DOMAIN entries |->
                IF j = i THEN [entries[j] EXCEPT !.vector = vector] ELSE entries[j]]

Store(p) ==
  /\ calls[p].at = "store"
  /\ SetVector(calls[p].id, calls[p].vector)
  /\ Answer(p)
  /\ UNCHANGED <<audit, drawn, had, alone>>

(* Either request fails; the caller is told that all went well. *)
StaysUnembedded(p) ==
  /\ calls[p].at \in {"embed", "store"}
  /\ alone' = alone \ {calls[p].id}
  /\ Answer(p)
  /\ UNCHANGED <<table, had>>

-------------------------------------------------------------------------------
(* handle_search_knowledge: the gate and its audit rows *)

(* filter_cross_client, for another client's row *)
Disclosure(row, acknowledge) ==
  IF row.safe THEN "released_safe" ELSE IF acknowledge THEN "released" ELSE "withheld"

Foreign(row, client) == client # NULL /\ row.client \notin {NULL, client}

(* What a statement of a search or a browse may find: the ranking is PostgreSQL's. *)
Findable(t) == SUBSET Visible(t)

(* process_knowledge_arm: the foreign entries among those found *)
Met(found, client, acknowledge) ==
  {<<i, Disclosure(entries[i], acknowledge)>> : i \in {i \in found : Foreign(entries[i], client)}}

Read(p) ==
  /\ calls[p].at = "read"
  /\ \E found \in Findable(calls[p].token) :
       LET met == Met(found, calls[p].client, calls[p].acknowledge)
       IN calls' = [calls EXCEPT ![p] =
            [Idle EXCEPT !.op = "search", !.client = calls[p].client, !.at = "log",
                         !.met = met, !.todo = met]]
  /\ UNCHANGED <<table, history>>

(* log_access; a failed INSERT is logged to stderr and passed over. *)
LogAccess(p) ==
  \E row \in calls[p].todo, written \in BOOLEAN :
    /\ calls[p].at = "log"
    /\ calls' = [calls EXCEPT ![p].todo = @ \ {row},
                              ![p].met = IF written THEN @ ELSE @ \ {row}]
    /\ audit' = IF written THEN audit \cup {<<calls[p].client, row>>} ELSE audit
    /\ UNCHANGED <<entries, drawn, history>>

FaultyRespondAtOnce(p) ==
  calls[p].at = "log" /\ Goto(p, "answered") /\ UNCHANGED <<table, history>>

Respond(p) ==
  /\ calls[p].at = "log" /\ calls[p].todo = {}
  /\ Goto(p, "answered")
  /\ UNCHANGED <<table, history>>

-------------------------------------------------------------------------------
(* backfill_embeddings *)

(* Some of the entries without a vector, as many as a batch holds, in any order. *)
Fetch(p) ==
  LET missing == {i \in DOMAIN entries : entries[i].vector = NULL}
  IN /\ calls[p].at = "fetch"
     /\ \E size \in 0..BatchSize : \E ids \in [1..size -> missing] :
          /\ \A m, n \in 1..size : ids[m] = ids[n] => m = n
          /\ size < BatchSize => \A i \in missing : \E n \in 1..size : ids[n] = i
          /\ calls' = [calls EXCEPT ![p].batch = [n \in 1..size |-> <<ids[n], entries[ids[n]].text>>],
                                    ![p].at = IF size = 0 THEN "storing" ELSE "batch"]
     /\ UNCHANGED <<table, history>>

FaultyInReplyOrder(reply) == [n \in DOMAIN reply |-> reply[n].vector]

(* embed_texts: the endpoint's reply, sorted by the index each vector bears *)
ByIndex(reply) ==
  [n \in DOMAIN reply |-> (CHOOSE d \in {reply[m] : m \in DOMAIN reply} : d.index = n).vector]

EmbedBatch(p) ==
  LET batch == calls[p].batch
      indices == DOMAIN batch
  IN /\ calls[p].at = "batch"
     /\ \E order \in [indices -> indices] :
          /\ \A n \in indices : \E m \in indices : order[m] = n
          /\ LET vectors == ByIndex([n \in indices |-> [index |-> order[n],
                                                        vector |-> batch[order[n]][2]]])
             IN calls' = [calls EXCEPT ![p].at = "storing",
                            ![p].batch = [n \in indices |-> <<batch[n][1], vectors[n]>>]]
     /\ UNCHANGED <<table, history>>

StoreNext(p) ==
  LET batch == calls[p].batch
  IN /\ calls[p].at = "storing" /\ batch # <<>>
     /\ SetVector(batch[1][1], batch[1][2])
     /\ calls' = [calls EXCEPT ![p].batch = Tail(batch)]
     /\ UNCHANGED <<audit, drawn, had, alone>>

Backfilled(p) ==
  /\ calls[p].at = "storing" /\ calls[p].batch = <<>>
  /\ Answer(p)
  /\ UNCHANGED <<table, history>>

-------------------------------------------------------------------------------
(***************************************************************************)
(* A statement or request that fails and ends the call: a read, a write    *)
(* before it takes effect, a batch whose reply is an error, has gaps or    *)
(* duplicates, a store of the backfill.                                    *)
(***************************************************************************)
Fails(p) ==
  /\ calls[p].at \in {"insert", "check", "write", "read", "fetch", "batch", "storing"}
  /\ Answer(p)
  /\ UNCHANGED <<table, history>>

(* The client goes away or the server restarts. *)
Abandon(p) ==
  /\ calls[p].at \notin {"idle", "answered"}
  /\ calls' = [calls EXCEPT ![p] = Idle]
  /\ alone' = IF calls[p].at \in {"embed", "store"} THEN alone \ {calls[p].id} ELSE alone
  /\ UNCHANGED <<table, had>>

Init ==
  /\ entries = [i \in {} |-> NULL] /\ audit = {} /\ drawn = {}
  /\ calls = [p \in Calls |-> Idle]
  /\ had = [i \in Ids |-> {}] /\ alone = {}

Ask(p) == AskAdd(p) \/ AskUpdate(p) \/ AskDelete(p) \/ AskSearch(p) \/ AskBackfill(p)

Step(p) ==
  \/ CandidateEmbedded(p) \/ CandidateFails(p) \/ FindSimilar(p) \/ SimilarFails(p)
  \/ Insert(p) \/ CheckEntry(p) \/ WriteUpdate(p) \/ WriteDelete(p)
  \/ Embedded(p) \/ Store(p) \/ StaysUnembedded(p)
  \/ Read(p) \/ LogAccess(p) \/ Respond(p)
  \/ Fetch(p) \/ EmbedBatch(p) \/ StoreNext(p) \/ Backfilled(p)
  \/ Fails(p)

Next == \E p \in Calls : Ask(p) \/ Step(p) \/ Abandon(p)

Spec == Init /\ [][Next]_vars

-------------------------------------------------------------------------------
(* Properties *)

(* Type correctness of the table, the audit rows and the handlers' locals. *)
TypeOK ==
  /\ DOMAIN entries \subseteq drawn /\ drawn \subseteq Ids
  /\ \A i \in DOMAIN entries : entries[i] \in Row
  /\ audit \subseteq Clients \X (Ids \X Disclosures)
  /\ calls \in [Calls -> Call]
  /\ had \in [Ids -> SUBSET Texts] /\ alone \subseteq drawn

(* An entry's vector, whoever stored it last, was computed from a text that
   this entry has had: neither a batch reply in another order nor a vector
   computed before the entry existed puts one entry's vector on another. *)
OwnVector ==
  \A i \in DOMAIN entries : entries[i].vector # NULL => entries[i].vector \in had[i]

(* The vector of an entry that was written while nobody else was embedding it
   is that of its text, once its own embedding is through.  Only writers that
   overlap, a backfill among them, or a failed embedding leave a stale one. *)
VectorCurrent ==
  \A i \in alone \cap DOMAIN entries : ~UnderWay(i) => entries[i].vector = entries[i].text

(* Whatever a token that excludes client data changes, deletes, inserts or
   embeds is global and by an author it is bound to, at the moment of the
   statement although it was checked by an earlier one. *)
RestrictedStaysGlobal ==
  [][\A p \in Calls : calls[p].token \in Restricted /\ calls'[p] # calls[p] =>
       /\ \A i \in DOMAIN entries :
            i \notin DOMAIN entries' \/ entries'[i] # entries[i]
              => CanModify(calls[p].token, entries[i])
       /\ \A i \in DOMAIN entries' \ DOMAIN entries :
            CanModify(calls[p].token, entries'[i])]_vars

(* A search that has answered has left an audit row for every entry of another
   client it released or withheld, but for rows whose INSERT failed. *)
SurfacedAudited ==
  \A p \in Calls : calls[p].at = "answered" =>
    \A row \in calls[p].met : <<calls[p].client, row>> \in audit

-------------------------------------------------------------------------------
(***************************************************************************)
(* The invariant behind these properties: what a handler at each stage can *)
(* rely on although other calls ran since its last statement.              *)
(***************************************************************************)

Adding == {"candidate", "similar", "insert"}

Stored(c) == c.at \in {"embed", "store"}

(* The text whose vector call c is about to store. *)
Source(c) == IF c.at = "embed" THEN c.text ELSE c.vector

Shaped(c) ==
  /\ c.at \in Adding =>
       /\ c.op = "add" /\ c.text \in Texts /\ c.token \in Tokens
       /\ c.safe \in BOOLEAN /\ c.author \in Agents /\ c.vector \in {NULL, c.text}
  /\ c.at = "similar" => c.vector = c.text
  /\ c.at \in {"check", "write"} => c.id \in drawn /\ c.op \in {"update", "delete"}
  /\ c.at \in {"log", "answered"} => c.todo \subseteq c.met
  /\ c.at = "answered" => c.todo = {}
  /\ c.todo # {} => c.client \in Clients
  /\ c.batch # <<>> => c.at \in {"batch", "storing"}

(* What c will store is a vector of a text its entry has had. *)
FromOwnText(c) ==
  /\ Stored(c) => c.id \in drawn /\ Source(c) \in had[c.id]
  /\ \A n \in DOMAIN c.batch : c.batch[n][1] \in drawn /\ c.batch[n][2] \in had[c.batch[n][1]]

(* What c will store for an entry written alone is of its present text. *)
FromLastText(c) ==
  \A i \in alone \cap DOMAIN entries :
    /\ Stored(c) /\ c.id = i => Source(c) = entries[i].text
    /\ \A n \in DOMAIN c.batch : c.batch[n][1] = i => c.batch[n][2] = entries[i].text

(* A restricted call stays with global entries of its own authors; the
   backfill runs without a token. *)
Confined(c) ==
  c.token \in Restricted =>
    /\ c.at \notin {"fetch", "batch", "storing"}
    /\ c.at \in Adding => c.client = NULL /\ c.author \in BoundTo[c.token]
    /\ c.at \in {"write", "embed", "store"} /\ Exists(c.id) => CanModify(c.token, entries[c.id])

Accounted(c) ==
  c.at \in {"log", "answered"} => \A row \in c.met \ c.todo : <<c.client, row>> \in audit

Sound(c) == Shaped(c) /\ FromOwnText(c) /\ FromLastText(c) /\ Confined(c) /\ Accounted(c)

(* Entry i has the vector of its text, or a handler is about to store it. *)
Attended(i) ==
  \/ entries[i].vector = entries[i].text
  \/ \E p \in Calls : Stored(calls[p]) /\ calls[p].id = i

(* The conjunction that every statement preserves: the calls are sound, and
   every entry has texts and a vector that were its own. *)
KnowledgeInv ==
  /\ TypeOK
  /\ \A p \in Calls : Sound(calls[p])
  /\ \A i \in DOMAIN entries : entries[i].text \in had[i]
  /\ OwnVector
  /\ \A i \in alone \cap DOMAIN entries : Attended(i)

===============================================================================
