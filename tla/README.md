# A verification of ops-brain

ops-brain is a Rust server that gives a team of agents a shared bus over
PostgreSQL: handoffs between agents, a knowledge base, and a daily briefing,
reached over MCP and over a small REST API. This directory holds TLA+ models of
the parts where order matters, TLC configurations that check them on small
instances, and proofs of what must hold for any number of agents, calls, tokens
and handoffs.

Paths below are those of the repository; `src/` is its Rust source.

## 1. The system

### Components

| Component | State it keeps | Operations | Interacts with |
|---|---|---|---|
| **Handoff bus** (`src/tools/coordination.rs`, `src/repo/handoff_repo.rs`) | table `handoffs`; tombstones in `audit_log` | create, accept, complete, mark_merged, delete, list, list_replies | embeddings (create waits for them), auth (who may see and act), every reader below |
| **Machine ingestion** (`src/api.rs`, `POST /api/handoff`) | the same table; dedupe keys | one upsert per filing | races the bus's claims and completions |
| **Wake poll** (`src/api.rs`, `GET /api/pending`) | none | one page of what is open for an agent, since a cursor | read by the notifier |
| **Notifier** (`scripts/operator-notify.sh`) | a cursor file | poll, mail a digest, move the cursor; reset | cron starts it; nothing keeps runs apart |
| **check_in** (`src/tools/check_in.rs`) | none | three SELECTs, one answer | reads the bus while it moves |
| **OAuth validation** (`src/oauth.rs`) | the configured bindings and scopes | validate a token, bind it to an agent | waits for the key cache; the middleware |
| **OAuth key cache** (`src/oauth.rs`) | `JwksCache` under an async mutex | look up a key, fetch the provider's key set | every request with an OAuth token; the identity provider |
| **Token authentication** (`src/auth.rs`, `party_clause` in `src/repo/mod.rs`, start-up in `src/main.rs`) | the tokens of the environment | parse them, decide what a request may reach and as whom, token to agent and visibility | every request; the bus, check_in, search |
| **Knowledge** (`src/tools/knowledge.rs`, `src/repo/knowledge_repo.rs`) | table `knowledge` | add, update, delete, search, browse | embeddings, the cross-client gate |
| **Embeddings** (`src/embeddings.rs`, `src/tools/shared.rs`, `src/repo/embedding_repo.rs`) | vector columns of both tables | embed and store, backfill, nearest neighbours | an external endpoint |
| **Cross-client gate and audit** (`src/tools/helpers.rs`, `src/repo/audit_log_repo.rs`) | `audit_log` | withhold or release other clients' entries | search |
| **Briefing** (`src/tools/briefings.rs`) | none | counts, list and triage of the open handoffs, one report | reads the bus while it moves |
| **Pagination** (`src/pagination.rs`) | none | limit, offset, has_more | every list |

Each component's status (modelled, partly, not modelled, and why) is in
`PROJECT.json`.

### What makes it hard

- *Interleaving.* Every MCP handler is a chain of SQL statements, each its own
  transaction on a pooled connection. Between two of them any other call may
  run. The handlers hold no lock across statements and open no transaction of
  several statements: all of the bus's safety rests on the preconditions in the
  UPDATEs and on what a status can no longer become.
- *Stale reads.* Visibility, broadcast and commit checks are read before the
  write they guard. After an UPDATE that matched nothing the row is read again
  to explain why.
- *Lost answers.* A statement may commit and its acknowledgement be lost; the
  client may go away, or the server restart, between any two statements.
- *Machine producers* file again and again under a dedupe key while agents
  claim and complete the handoff that holds it.
- *A cursor over two clocks.* The notifier compares a transaction's start on
  the database's clock with a whole second of its own host's, pages, and may
  fail, crash or overlap with itself.
- *One mutex across a network fetch*, with a cooldown that must hold when
  fetches fail, are cancelled, or are asked for by tokens with made-up key ids,
  and tokens that may expire while they wait for it.
- *One question, two answers.* Whether a slug belongs to a token is decided in
  Rust for single rows and in SQL for lists; which credential a secret is, by
  parsers that know of one another and by a look-up that does not.

### What makes each part correct

- *Bus*: one winner per claim, completion, deletion and merge commit; an
  acknowledged change stands; a claim has a holder; merged work has a commit;
  one tombstone per deletion; replies never dangle; one open handoff per dedupe
  key and recipient; a token that excludes client data stays within its party.
- *check_in*: nothing addressed to the reader falls between its statements;
  every open action handoff is in somebody's view.
- *Notifier*: the cursor passes an item that was not mailed only behind a late
  commit or a full page; everything else is mailed in the end.
- *Key cache*: fetches keep apart; nobody queues through several slow fetches;
  withdrawn keys expire although later fetches fail; a refusal has a reason.
- *Routing*: a restricted token's lists contain what it may get by id, its own
  handoffs and the replies to them; a filing that must wake its recipient is in
  the next poll, also when it is suppressed into an older row.
- *Access*: on any configuration the server starts with, a secret opens what
  stands next to it and nothing else; an OAuth token is in force when it is
  admitted, and whom it acts as does not hang on the order of the bindings.
- *Knowledge*: a vector is of a text its entry has had, and of its present text
  unless writers overlapped; what a search surfaced of another client is in the
  audit log when it answers; a token that excludes client data writes only global
  entries of its own.
- *Briefing*: every handoff that is due in a section is titled there once, or the
  section says that it is cut short; totals are totals; the oldest come first; an
  empty queue is truly empty.

The hazards behind these, each at its line, are listed in `PROJECT.json`.

## 2. Modules

| Module | Models |
|---|---|
| `HandoffLifecycle` | the abstract promise: one handoff, moved by indivisible steps |
| `HandoffBus` | the bus and machine ingestion, one action per SQL statement; its properties; the refinement mapping to `HandoffLifecycle` |
| `HandoffBusInv` | the inductive invariant of the bus, and the measure of a call (`StatementsLeft`) |
| `HandoffBusProofs` | theorems about the bus |
| `Slugs` | slugs as sequences of characters, families, `slug_matches` and `party_clause` |
| `Routing` | the bus with concrete slugs: gets, lists and replies of a restricted token, and the wake poll of one agent |
| `RoutingProofs` | theorems about slugs and routing |
| `CheckIn` | extends the bus with readers that issue check_in's three statements while the bus moves |
| `CheckInProofs` | theorems about check_in |
| `OperatorNotify` | the wake poll, the script, its cursor file and both clocks |
| `OperatorNotifyProofs` | theorems about the notifier |
| `JwksCache` | the key cache, its mutex, the provider and the clock |
| `JwksCacheProofs` | theorems about the cache |
| `Access` | extends the key cache with the start-up checks, the middleware and the validation of OAuth tokens |
| `AccessProofs` | theorems about credentials and admissions |
| `Knowledge` | the knowledge base, its embeddings and their backfill, the cross-client gate and its audit rows; properties and inductive invariant |
| `KnowledgeProofs` | theorems about the knowledge base |
| `BusMoves` | the bus as a report sees it: rows filed, claimed, closed and deleted in one step each |
| `QueueView` | the refinement mapping from `HandoffBus` to `BusMoves` |
| `Briefing` | extends `BusMoves` with a report that issues three statements while the table moves, and with the calendar |
| `BriefingInv` | the inductive invariant of a briefing |
| `BriefingProofs` | theorems that the bus implements `BusMoves`, and about the briefing |
| `MC...` | constants and symmetry for TLC |

### How state and actions correspond to the code

**HandoffBus.** `handoffs` is the table as a function from id to row, with the
columns that decide something; titles, bodies, priorities and timestamps are
left out. `audit` is the sequence of deletion tombstones. `drawn` is what
`Uuid::now_v7()` has returned: a create draws its id before it inserts the row.
`calls` holds the locals of the MCP handlers in flight. `AskX` is the entry of a
handler up to its first statement; `CheckVisible` is `ensure_handoff_visible`,
`CheckBroadcast` and `CheckMerge` the reads before the write, `Accept`,
`Complete`, `Merge`, `Delete` and `Create` the writing statements, `Reread` the
read that explains a failed UPDATE, `Embedded` the return of
`embed_and_store` together with the reads behind the warning of an unknown
recipient, which change nothing and are part of the same step. `Committed` answers "ok" or, for a lost acknowledgement,
"db_error"; `DatabaseError` is a statement that fails before it takes effect;
`Abandon` is a client or a server that goes away. The server keeps nothing about
a call but its handler's locals, so a restart is an Abandon of every call.
Operators named `Faulty...` are plausible mistakes; no specification uses them.
They show that a property would notice the mistake.

Requests that are refused before the first statement leave no trace and are not
modelled. A slug stands for all its spellings, because the code compares slugs
without case; the category keeps its spelling, because the code does not.

**Slugs and Routing.** In `Slugs` a slug is the sequence of its characters and
`Lowercase` any case folding that leaves the dash alone. `SlugMatches` is
`slug_matches`, `PartyMatches` the SQL of `party_clause` for one column.
`Routing` gives each token of the bus its configured `Binding` and derives from
it what `HandoffBus` takes as given (`RoutingAssumption`). `CanGet`, `Listed` and
`Replies` are what get_handoff, list_handoffs and list_replies return to a
restricted token, as sets: they are single statements that change nothing, and
pages, compact bodies and the seven days after which a list hides a notify row
are left out. `touched` is what a poll with the shim's cursor would find newer:
a trigger stamps every row that a statement changes, as the upsert of a filing
does itself (`Stamped`), and `StoreEmbedding` is the UPDATE of `embed_and_store`, which also does. `Tool` is
any statement of the bus, `Post` a filing over REST, `Poll` one GET /api/pending
that moves the cursor past all it saw. `filed` is a history variable: the rows
that took an action filing to the watched agent since its last poll.

**CheckIn.** `reads` holds a handler's locals, `stayed` is a history variable:
the reader's addressed action handoffs that were open ever since it began.
`Order` is the order of the three statements, which is what makes the answer
complete.

**OperatorNotify.** `queue` holds the committed `updated_at` of the open items,
`writing` the stamps of UPDATEs not yet committed, `runs` the script's variables.
`Start` is `poll_started=$(date ...)`, `ReadCursor` the `cat`, `Poll` the curl,
`Send` the mail command, `EmptyCursor` and `SaveCursor` the two effects of
`echo > file`. Three history variables tell what goes by the cursor: `late`, the
rows committed with a stamp that the cursor or a run in progress was past
already (`Overtaken`); a run's `left`, the rows its page had no room for; and
`cut`, those of them that the cursor then passed. The repository's `since` filter is strict on microseconds and the
cursor is a whole second; the model's stamps never fall exactly on a whole
second, so "later than the second" reads `>=` on seconds.

**JwksCache.** `cache` is the `JwksCache` struct, `holder` the request that
holds the mutex over its fetch, `requests` the locals of `key_with_fetch`.
`Look` is all that happens between taking the mutex and the first await.
`Respond` is the moment the provider makes up its answer and `Receive` the moment
it is parsed and stored; between them the provider may change its keys.
`FetchFails` is each of the early returns of `fetch_keys` and `parse_keys`,
`Cancel` a dropped request, whose mutex guard is dropped with it. `published`
and `withdrawn` say when the provider began and ceased to offer a key; each key
has one such life. `begun` is a history variable. Key ids stand for the pair of
id and algorithm the code looks up.

**Access.** `config` is what the operator wrote and the server started with;
`Start` is guarded by `StartsUp`, all the checks between the environment and the
listener (`MachinesParse`, `AgentsParse`, `OAuthParses` and the refusal of an
open server that has scoped tokens). `Bad` stands for every name, subject or
scope that a parser refuses. A request with a static credential is one decision
and changes nothing, so it is an operator: `Gate` is `oauth_bearer_auth` around
`BearerAuth`, and `FilesAs` and `MayPoll` are what the REST handlers add. A
request with an OAuth token `Arrive`s as a request of the key cache; `Validate`
is a step of the cache's handler, and in the step that obtains or refuses the
key, `Judge` is the rest of `validate`, which awaits nothing. `verdict` is what
the last step decided. Of a token, `header` stands for all checks before the key
is asked for, and `verified` for signature, issuer, audience and `nbf`; expiry
and issue are compared with the clock, which runs with the cache's monotonic one.
An exclusion of client data is `HandoffBus`'s and `Knowledge`'s subject.

**Knowledge.** `entries` is the table with its embedding column; a text is a
title and a content together, and a vector is known by the text it was computed
from, so that a stale or a foreign vector shows. `audit` holds the rows of
`log_access`, `drawn` the ids given out, `calls` the handlers' locals.
`CandidateEmbedded` and `FindSimilar` are the two halves of the duplicate check,
each of which may fail and is then passed over. `FindSimilar` finds any of the
duplicates or none: the query runs over an approximate (HNSW) index, and the
distance and the caller's view filter what the index returns. `Insert`, `WriteUpdate` and
`WriteDelete` are the writing statements; `CheckEntry` is the read before an
update or a restricted delete; `Embedded`, `Store` and `StaysUnembedded` are
`embed_and_store`; `Read`, `LogAccess` and `Respond` are a search or a browse,
which differ in ranking only; `Fetch`, `EmbedBatch` and `StoreNext` are the
backfill, whose batch reply comes in any order and is sorted by `ByIndex`. A
server without an embedding client is one whose embedding requests all fail. Two
history variables remember what no row does: the texts an entry has `had`, and the
entries written `alone` (while nobody else was embedding them). `Flags` restricts the values of
`cross_client_safe` that callers pass; it only makes instances smaller.
Categories, tags, the ranking of results and the statement that stamps
`last_verified_at` are left out.

**Briefing.** `report` holds the locals of `generate_briefing_inner`: `Count`,
`List` and `SeenBefore` are its three statements, the last of them sent only if
nothing waits for the operator, and `Render` is `triage`, with `Section` for the
capped lists and `Bucket` for the counts. `filed` gives each row the columns that
only a briefing reads: origin, priority (high or critical, or not), age in days, and
a `rank`, the number of rows inserted before it, which stands for `ORDER BY
created_at, id`. A list is a set of ids with these ranks: what `take(50)` keeps of it
are the rows with fewer than `Cap` others `Ahead`. The report reads nothing of another call but
open rows and whom closed ones name, so the bus is here what `BusMoves` makes of
it: `Files`, `Claims`, `Completes`, `Deletes` and the bus's own `Ingest`. That this
leaves nothing out is checked and proved (`ReportsSeeMoves`): with merged work read
as completed, and replies, commits and tombstones not read, every step of
`HandoffBus` is one of these moves or is not seen. `AgentFiles` to `MachineFiles`
are these moves together with the report's own columns. `DayPasses` is the clock. `stayed` and `moved` are history variables: the
action handoffs open ever since the report began, and whether any moved between
the header's count and the list. The markdown, the grouping of the stuck by
recipient and the legacy title lists are left out.

## 3. Runs

Where a `.cfg` says `CHECK_DEADLOCK FALSE` the instance stops when its ids or
its clock are used up; a bus whose ids are all spent has nothing left to do, and
neither has `Access` after its last instant without OAuth. The runs of the
knowledge base check for deadlock.

| Run | Question |
|---|---|
| `BusRace` | two calls claim, complete and merge one handoff in every interleaving, one of them with a restricted token: one winner, acknowledged changes stand, true reasons, holders, commits, nothing outside the party; and the invariant the proofs use |
| `Routing` | replies against deletions of their parents, filings against claims and one open row per dedupe key, tombstones; what a family's token gets and lists while a slug that only looks like a member takes part; wake polls between filings |
| `BusLifecycle` | the interleaved statements implement the atomic life cycle and the moves `Briefing` runs against, no step sends a handler back, and every call is answered under the fairness below |
| `CheckIn` | one check_in over a queue that changes between its statements: nothing addressed to the reader is missed, and every open action handoff is in somebody's view |
| `Notify` | two overlapping runs with failures, crashes and resets, commits that lag and a host clock that is ahead: the cursor passes an item that was not mailed only for a late commit, and an item is mailed in the end, unless it changes first or falls behind the cursor; and the invariant the proofs use |
| `Access` | the server starts, or refuses to, on complete, bare and faulty configurations; then two OAuth requests against keys that come and go, fetches that are slow, fail or are dropped, and tokens that expire while they wait |
| `KnowledgeVectors` | two calls add, edit, delete and backfill two entries while requests fail or are lost: which text a vector is of |
| `KnowledgeGate` | scoped searches and edits by a restricted token while an entry comes, changes and goes: audit rows, and checks that may have grown stale |
| `Briefing` | briefing after briefing while handoffs are filed, claimed, closed and aged between its statements: nothing due is lost, said twice or undercounted; and the invariant the proofs use |
| `BusHungEndpoint` | *violated*: a create waits for an embedding endpoint that may hang |
| `CheckInCase` | *violated*: a handoff filed with category `Action` is in nobody's queue |
| `NotifyPage` | *violated*: more new items than one page |

### Bounds

- *Bus.* Two calls and one or two handoffs. The hazards are races of two calls
  on one row; a third actor adds only more losers, and replies and dedupe keys
  are the only relations between rows, so two rows meet every case. Tokens are the
  main bearer and a restricted one in `BusRace`, a restricted family's in
  `Routing`, a family's in `BusLifecycle`. The proofs remove the bound.
- *Routing.* Two slugs, a member `g-b` of the family `G-*` and the lookalike
  `gb`, tell apart a prefix with and without its dash and in another case. The
  proofs hold for every alphabet, folding and length.
- *check_in.* A limit of one on each page makes full pages common; one reader
  suffices since readers do not disturb one another.
- *Keys of closed rows.* `Routing` has no completions, which would make it too large
  for a quick run; a key is released by deletion there. That a completion, too,
  leaves a key with one open row at most is proved (`OpenKeyIsUnique`, over every
  operation), not model-checked.
- *Notifier.* Two runs overlap in every way that two can, commits lag a tick and
  the host's clock is a tick ahead. Two ticks to the second separate "the same
  second" from "the same instant", and one item, touched again and again within
  `MaxTime`, lets a cursor be written, passed and read again. A page that leaves
  something out needs two items; with two runs that is too large for a liveness
  check, so full pages are met in `NotifyPage` and in the proof of
  `SkipsExplained`, which bounds neither items nor page.
- *Key cache.* A timeout of 1, a cooldown of 2 and a TTL of 3 keep the code's
  order 5 s < 30 s < 300 s and five instants let a TTL expire after a failed
  refresh. `MaxTime` bounds the clock.
- *Access.* Three tokens for each key: one that is issued late and expires soon,
  one in force throughout, one that lacks a scope. Two bindings of one subject
  differ in the client; the faulty configurations have one fault each, so that
  each start-up check is the only one that stands in its way.
- *Knowledge.* `KnowledgeVectors` has two calls, two entries and two texts, so
  that edits overlap edits and a batch of two can come back swapped;
  `KnowledgeGate` has one entry, two clients and two authors, one of them with a
  restricted token. `Ids` bounds the number of adds; a deleted id is never drawn
  again. The relations of a vector to its text concern one entry at a time, the
  gate one entry and one search; the proofs remove the bound.
- *Briefing.* A cap of one makes every second row a cut section; two rows are
  enough to lose, repeat or misorder one. Thresholds of 0 and 1 days keep the
  code's order 3 < 7, and ages from `MaxAge` = 2 on are alike. `MaxMoves` allows
  two steps of bus and calendar while one briefing runs, which puts a step into
  any two of its gaps. No dedupe keys: repeats only feed a counter.

### Fairness

- `ServerFairness`: tokio polls a ready handler, and a SQL statement returns or
  fails, at the latest by the pool's acquire timeout (`src/db.rs`). Weak
  fairness of "a statement or an error" per call.
- `EndpointFairness`: the embedding endpoint answers. It is kept apart because
  nothing in the code ensures it: the HTTP client of `src/embeddings.rs` has no
  timeout, and `BusHungEndpoint` shows what happens without it.
- `CronFairness`: cron starts run after run (weak); a run's steps may fail or
  be killed, but not every time (strong fairness of reading the cursor, polling
  and sending). `CommitFairness`: a transaction in flight commits.
- The safety runs assume no fairness.

### Findings

Three disagreements between a doc or comment and the code are recorded in
`PROJECT.json` with the run that shows each: `BusHungEndpoint`, `CheckInCase`
and `NotifyPage`.

`NotifyPage` states what docs/operator-notify.md says of the digest, "anything new
since its last run", as `NothingSkipped`. What the code keeps is `SkipsExplained`:
an item may be passed over if it commits late over a whole second (the cursor
compares a transaction's start on one clock with a second of another, and nothing
bounds the time to the commit but the transaction), or if more is new than a page
holds. An item touched in the second a poll starts in may be mailed twice.

`src/tools/mod.rs` says of add_knowledge that "near-duplicates are returned instead of
created unless `force`". The check is a best effort and needs no race to miss one: an
embedding or a search that fails is passed over, entries that have no vector yet are
not found, and the index is approximate and its results are filtered afterwards.
`FindSimilar` has all of these, and no property here says that duplicates do not occur.

The models also show, without a run of their own: an audit INSERT that fails is
only warned of (`src/tools/shared.rs`), so `SurfacedAudited` excepts it although
README.md and docs/client-scope.md say that every event is recorded; the
duplicate warning of an add shows the titles of other clients' entries without an
audit row; and the comment over `process_knowledge_arm`
(`src/tools/knowledge.rs`) says that browsing does not log, while
`browse_recent_entries` does.

docs/machine-callers.md says "File `action` when the recipient must be woken". An
action filing that is suppressed into an open notify row with its key wakes nobody,
because the upsert leaves the row's category; `FilingHeard` excepts it.

Of the briefing: its doc says that the counts per recipient sum to `open_count`
(`src/tools/briefings.rs`), which holds only if nothing moved between two
statements, as `src/repo/handoff_repo.rs` admits; `HeaderAgrees` states it so. A
filing suppressed by its dedupe key leaves the row's priority as it was, so a check
that escalates while its handoff is open is not among the failing ones. The
operator is "seen" only as sender or recipient of a handoff that still exists: one
who only ever claimed broadcasts is reported as unknown.

## 4. Proofs

Constants are arbitrary sets and numbers under the named assumptions
`BusAssumption`, `ReaderAssumption`, `NotifyAssumption`, `CacheAssumption`,
`KnowledgeAssumption`, `SlugAssumption`, `RoutingAssumption`, `AccessAssumption` and
`BriefingAssumption`, which TLC evaluates in the runs of their modules. They say what a token may be bound to, that `NULL` is none
of the values, in the cache that the fetch timeout is shorter than the cooldown
and the cooldown no longer than the TTL, as in the code's constants, of slugs that
the case folding maps the dash, and nothing else, to a dash, in Routing that
agents are valid slugs, one for all its spellings, and of the briefing that a page
holds something and the two thresholds are in the code's order.

**The bus.** `IInv` strengthens the safety properties with what each stage of a
handler relies on although other calls ran since its last statement: a pending
create's id is nobody else's (`Reserved`); an accept without an agent reaches
its UPDATE only for an addressed row, and rows never change their recipient
(`ClaimReady`); a merge reaches its UPDATE only for work with a commit, which
from then on can only be merged or deleted (`MergeReady`); an UPDATE that found
nothing would find nothing later (`RereadReady`), since statuses only move
forward; a restricted call past its check stays within its party, since sender
and recipient never change (`PartyReady`). Each action preserves each part;
from `IInv` follow `OneWinner`, `AcknowledgedStands`, `LoserLearnsWhy`,
`ClaimHasHolder`, `MergedHasWork` (checked as a conjunct of `IInv`), `OneTombstone`, `NoDanglingReply`,
`OneOpenRowPerKey` and `WithinParty`. `BusImplementsLifecycle` maps every
statement to a step of `HandoffLifecycle` or a stutter.

**check_in.** `ReadInv` says how a read accounts, statement by statement, for
the handoffs that stayed open: after the action page what is not on it is a
self-claim, and a self-claim can only end by closing, so the count that comes
later covers it. `NothingMissed` follows. `SeenBySomebody` needs that every
agent has a colleague: the broadcast of a lone agent is in nobody's queue.

**The notifier.** `NotifyInv` says that the cursor, and every run in progress, has
covered all that it passes or will pass (`CursorCovered`, `Covered`): each such item
was mailed, is about to be, or is in `late`, `left` or `cut`. `Histories` and `PageFull`
say what put it there: a stamp that lag and skew carry over a whole second, and a
full page of items that are not older. The first needs that no cursor is later than
the host's clock and that no transaction outlives the lag (`Clocks`). The invariant
is inductive for any number of items and overlapping runs, any page, lag and skew,
with failures, crashes and resets at any step; `SkipsAreExplained` follows. Without
lag and skew no stamp is carried over a second, so only a full page skips; below the
page's limit `cut` stays empty, so only late commits do.

**The key cache.** `CacheInv`: only the holder fetches, and its fetch began with
`last_attempt` (`OneFetch`); the key set in hand or in the cache was on offer at
some moment of its fetch (`Seen`); whoever waits came in this tick or during the
fetch under way or just over (`Joined`). The last part holds because a fetch
starts only after a cooldown, which is longer than a fetch, so that nobody can
still be waiting from before. `NoPileUp`, `FetchesApart`, `ServedRecently` and
`RefusalsExplained` follow.

**Routing.** `RustAgreesWithSql`: for every valid binding `slug_matches` and
`party_clause` accept the same slugs, one comparing a lowered base and the dash
behind it, the other a lowered prefix that includes the dash; and
`MembersAsDocumented`: both accept what docs/agent-tokens.md calls a member. The
proof compares the two character by character and needs that a valid slug contains
no star, so that a slug never is a family's spelling. `RoutingRefinesBus` maps a
behaviour of Routing to one of the bus, so all of the above holds in it.
`RoutingInv` adds that a row that took a filing stays its recipient's and stamped
until the poll, and that a row keeps the name its token was entitled to; from it
follow `FilingHeard` and, with `RustAgreesWithSql` and the replies' foreign key,
`ReadsAgree`.

**Access.** `AccessRefinesCache` maps every step to one of the key cache or a
stutter. `SecretsStayApart` (of `ClassesApart`) rests on `SecretStandsOnce`: the
start-up checks leave every secret in one place of one list, so each look-up of
the middleware finds that entry or none. `AccessInv` adds to `CacheInv` that the
server runs only what it checked, that whoever waits for a key presented a token
that names it, and that an admission was decided under the configuration still in
place. `AdmittedInForce` follows from the judgement's use of the present time and
from what the cache guarantees of the key (`KeyIsRecent`); `OneBinding` because
no two bindings of a checked configuration overlap (`CoveringIsSingle`).

**The knowledge base.** `KnowledgeInv` says of every handler, by its stage, what
it may still rely on: what it is about to store was computed from a text the entry
has had (`FromOwnText`) and, for an entry written alone, from its present text
(`FromLastText`); a restricted call past its check stays with global entries of
its own authors, because no statement changes an entry's client or author
(`Confined`); the rows a search has crossed off its list are in the log
(`Accounted`). `FromLastText` needs `alone`: an
update that starts while another call is embedding the entry must not count, since
that call may store its older vector last. From the invariant follow `OwnVector`,
`VectorCurrent`, `SurfacedAudited` and `RestrictedStaysGlobal`. That `ByIndex` restores the order of a batch is
`ReplyIsSorted`.

**The briefing's bus.** `BusMakesMoves` maps every step of the bus to a move of
`BusMoves` or to a stutter, under `IInv`: a claim needs `ClaimReady` (nobody claims a
broadcast without a name), a create `Reserved` (its id was never a row's).

**The briefing.** `ReportInv` says what a report between its statements still knows
of a table that moves on. Its list has everything that stayed open, with the columns
that never change and, as the calendar ages both, with the age of the row
(`Followed`); the header's count is that of the table until something moves, and of
the list afterwards (`HeaderOK`); the operator's name, once in doubt, is on no row
that stays (`DoubtOK`); ranks are below the number of ids drawn, which is why the next
row ranks last and is the youngest (`ColumnsOK`). `Followed` gives only what cannot
change: a row on the list may be claimed by the time it is titled, so what is due is
stated without the status. `MoveSteps` reduces the five moves of the bus to one
kind of step, which files at most one row and never changes a party; the invariant is
then kept move by move, day by day and statement by statement.

The properties follow from it and from lemmas about one finite list:
`SectionWhole` (what is not cut short is whole: fewer rows are ahead of any row than
there are rows), `SectionOldest` (what is ahead of the older is ahead of the younger),
`SectionCut` (the number of rows ahead tells rows apart, so at most `Cap` are
titled and a section is cut short exactly if it titles fewer than it counts),
`RecipientsAddUp` (numbering each recipient's rows numbers the list) and
`HeaderAddsUp` (an open row is pending or accepted). `DueInClass` is where list and
table meet: what was due all along is in its section's class although the list is
older than the answer. The theorems hold for every number of rows, moves and days,
and every cap.

**Only model-checked.** Liveness (`Answered`, `Delivered`) rests on fairness and
`ENABLED`, which the prover does not handle. Of `Answered` its measure is proved
(`LosingIsNoRetry`, for `NeverBack`): whatever changes the record of a call in flight
lowers the number of steps it still has to take (`StatementsLeft`), of which there
are at most four: a statement each, or the wait for the embedding endpoint together
with the reads behind a warning. That these steps are taken at all is what fairness
adds. Every
other property of a passing run is a theorem. No theorem concerns a recursive
definition.

## 5. Not modelled, and why

- Timestamps in the bus, and so list order, the seven-day window of check_in's
  notify class and staleness.
- The embedding column of `handoffs`: a create waits for the endpoint, but the
  stored vector changes nothing the bus decides. It does touch `updated_at`,
  which the notifier's `BeginWrite` covers.
- Of OAuth: the URLs, certificates and JSON of the configuration, the formats of
  headers and challenges, and the individual checks behind `header`, `verified` and
  a usable key.
- White space around a configured slug. `parse_agent_tokens` and the bindings trim
  it, `parse_machine_tokens` accepts it and stores it as it came, so that a padded
  entry of a machine's allowlist matches nobody.
- Of knowledge, what is named with its module above; of embeddings, the
  truncation of texts.
- The reading of the environment, the pool, the router, MCP sessions, text limits and the
  remaining scripts: wiring and I/O.

## 6. Plan

1. *Handoff bus, with its life cycle, invariant and proofs*: done.
2. *check_in and its proofs*: done.
3. *Notifier and its proofs*: done.
4. *OAuth key cache and its proofs*: done.
5. *Knowledge*, its vectors, the gate and its audit rows, with proofs: done.
6. *Routing*: slug families, lists, replies and the wake poll, with proofs: done.
7. *OAuth and static credentials*: start-up checks, middleware and validation, with
   proofs: done.
8. *Briefing*, with its invariant and proofs, and the proof that the bus makes no
   move but those it runs against: done.
