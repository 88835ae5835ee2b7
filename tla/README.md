# Verification of wrgld

wrgld is the HTTP daemon of a Wrgl repository: clients push and pull commits,
commit tables, run transactions and collect garbage over HTTP, and every request
is served by a goroutine of its own. This directory holds TLA+ models of the
parts of wrgld that keep state, TLC configurations that check them on small
instances, and proofs that TLAPS checks for instances of any size.

Paths below are relative to `src/`. The stores (`ref.Store`, `objects.Store`),
`apiutils`, `transaction`, `prune` and `ingest` are packages of
`github.com/wrgl/wrgl`; they are not in this repository and are modelled, as one
step for each call (`transaction.Commit` as one for each branch), from how wrgld uses them.

## 1. Inventory

### The parts and how they interact

```
 client --HTTP--> Server (pkg/server/server.go: routes, middlewares)
                    |-- receive-pack --> ReceivePackSessionMap --> TTLMap
                    |-- upload-pack  --> UploadPackSessionMap  --> TTLMap
                    |-- commits, transactions, gc
                    |-- read-only handlers (rows, blocks, tables, diff, refs ...)
                    v                              v
          ref.Store, objects.Store          webhook.Sender --HTTP--> subscribers
```

The handlers share the two stores, the session maps and nothing else. The
session maps have a mutex inside TTLMap; the stores lock single calls; nothing
locks a sequence of calls. That is where the difficult behaviours come from.

| component | state | operations | hard behaviours | correct when |
|---|---|---|---|---|
| receive-pack session, handler, map (`receive_pack_*.go`) | session map; per session: state function, update map, object receiver, ErrMsgs; webhook queue | look up or create a session, greet, negotiate tables, receive packfiles, save refs, report, delete, expire | check-then-write of refs; two requests of one session; errors in the middle of `saveRefs`; sessions that expire; prune in between | no ref without its commit; no ref before all objects; reports true; finished sessions leave; refs replaced only if they hold what the push expects |
| TTL map (`pkg/utils/ttlmap.go`) | items, heap of deadlines, goroutine, stop channel | Add, Get, Pop, sweep, sleep, Stop | keys added while the goroutine sleeps; stale heap entries; Stop over an unbuffered channel | no key dropped early or forgotten; bounded lateness; Stop returns |
| commit endpoint (`commit_handler.go`) | none of its own | ingest a table, read the head, save the commit, move the branch or a transaction ref, notify | concurrent commits to a branch; ignored read error; store errors; prune between the writes | a branch only grows; acknowledged commits stay; the database is closed; every move is announced |
| transaction endpoints (`create_`, `update_`, `get_transaction_handler.go`) | transactions and their refs in the ref store | create, upload, commit, discard, read | check-then-create; commits to a transaction that is gone; `transaction.Commit` failing half-way | a committed transaction stays committed; no ref outlives its transaction |
| garbage collection (`gc_handler.go`) | none | drop old transactions, prune | runs beside all writers | removes nothing that is about to be referred to |
| upload-pack session, handler, map (`upload_pack_*.go`) | session map; per session: state function, finder, tables to offer and to send, sender | negotiate commits, offer tables, strike tables, send packfiles | batches of 256; requests out of order; objects pruned between two packfiles | a pull that finishes is complete; struck tables are spared |
| webhook sender (`pkg/webhook`) | per sender: events by type, mutex, optional WaitGroup | EnqueueEvent, Flush, post | overlapping flushes; events enqueued while others wait for the mutex; subscribers that fail or hang | every webhook gets its events once and in order; flushed events are posted; the WaitGroup covers them |
| read-only handlers (`get_*`, `diff_handler.go`, `profile_handlers.go`) | none; caches in front keep answers marked immutable | resolve ref, commit and table, range arithmetic, streaming; packfiles, trees, diffs, profiles | offsets at the end of a table or a block; refs that move and prunes between two reads; panics when the header is out | exactly the rows asked for, of one table; immutable answers stay true; complete trees; no table in a packfile without its blocks |
| router, middlewares, authorization (`server.go`, `*_middleware.go`, `pkg/oapi`) | none | routing, scopes | none with state | each route needs its scope |
| command line, start and shutdown (`cmd/`) | process, stores, session maps | open, listen, wait for requests, stop the maps, close | requests still handled when the listener fails; two `Stop`s that wait for sleeping goroutines; a start that fails half-way | stores and maps outlive the requests; the shutdown completes |
| probes (`pkg/probes`), test utilities | none | | | |

The hazards, each at its line and with the properties that cover it, are listed
under `hazards` in `PROJECT.json`.

## 2. The modules

### ReceivePack: pushes

`ReceivePack.tla` has one action for each step a request makes that another
request can observe: session lookup (`Resume`, `NewSession`), `greet` with its
loop (`Greet`, `GreetCheck`, `GreetOutdated`, `GreetNegotiate`, `GreetSave`),
`negotiateTables`, `receiveObjects` (`ReceiveSome`, `ReceiveLast`,
`ReceiveError`), the loop of `saveRefs` (`SaveRefused`, `SaveChecked`,
`SaveWalkError`, `SaveRef`, `SaveRefError`, `SaveDone`), `reportStatus`, the
assignment of `s.state` in `ServeHTTP` (`SetState`) and, as a separate step, the
comparison that reads it again (`CheckDone`).

- The variables of a session are the fields of `ReceivePackSession`; `pc`, `ses`,
  `todo`, `cur` and `next` are the locals of a goroutine. `saveRefs` is cut
  between its checks and its write, so that other handlers run in between.
- A handler may panic wherever the code panics; the session is then deleted
  (`handleReceivePack` does so in a deferred function).
- `Seen` is what `ref.GetRef` may return: `greet` and `saveRefs` both take an error
  for an absent ref, so with `ReadErrors` a ref may be seen as absent.
- `Crash` is the end of the process and its next start, at any moment: the stores
  stay, clients keep their cookies, sessions, goroutines and queued events are gone.
  A session that was being served is "gone": what it did is kept for the properties.
- `rejected` is a history variable; `flushed` says which of the enqueued events
  some later `Flush` covers.

`AtomicPush.tla` is what a push promises: each update is one compare-and-swap of
its ref that the configuration permits, at most once. `ReceivePackInv.tla` has
the inductive invariants, `ReceivePackProofs.tla` the proofs, that of the refinement
among them, `MCReceivePack.tla` the instances.

### TTLMap: expiring sessions

`TTLMap.tla` models the map, the heap, the cleanup goroutine and `Stop`. A sweep
runs under the mutex and is one step. Time is relative: `left[k]` counts down to
the deadline of `k`, `wake` to the end of the sleep, so that the state space is
finite without a bound on the clock. `TTLMapProofs.tla` has the proofs,
`Server.tla` is the process around it.

### Server: start, requests, shutdown

`Server.tla` extends TTLMap: the map of receive-pack sessions is the TTLMap, used by
requests (`UseSessions`) and stopped by `Close`; of the map of upload-pack sessions
only `Stop` and its answer matter. `main` follows `RunE` and `NewServer`: `StartError`
or `Serve`, `ListenError`, then the deferred calls in their order: `Shutdown`, which
waits for the requests without a limit (`ShutdownReturns`), `Close` with both `Stop`s
and the cleanups from last to first (`StopRp`, `CloseObjects`, `CloseRepo`), and the
`Close` of the repository (`Exit`). Nothing in the code calls `Shutdown` on a signal: the
deferred calls run only when the listener fails. A start that fails leaves the
objects store open and both goroutines running, and the process ends.
`ServerProofs.tla` has the proofs, `MCTTLMap.tla` the instance of both modules.

### Branches: commits, transactions, garbage collection

`Branches.tla` cuts `handleCommit` where it calls the stores: `BeginCommit` (form
and transaction lookup), `IngestTable`, `GetHead`, `SaveCommit`, then
`SaveTransactionRef` or `CommitHead`, then `Respond` or `RespondError`, each with
the deferred `Flush`. A store error may end a request before any write
(`StoreError`). Creating a transaction from a payload is a check and a write.
Committing one is `BeginCommitTransaction` (look-up, and the refs that
`transaction.Commit` will apply), `CommitTxBranch` for each branch, and
`FinishCommitTransaction` (mark, event, flush). `CommitTransactionError` is its failure
at any point: `handleUpdateTransaction` panics before it has a sender, so that the
branches moved so far stay moved and are never announced. Discarding is one external
step; `handleGC` is `CollectTransactions` and then `Prune`. `tableOf` and `parentOf` are
the content of a commit: immutable once made, kept when the commit is pruned.

The code takes no lock between what it reads and what it writes; `br_lost_commit` and
`br_orphan_ref` show what this breaks. The other properties say that nothing else goes
wrong, with any number of requests at once. To this end history variables, which no
action reads, record the races where they happen: `racedHead` has the branches that moved
while another request was between its read of the head and its write, `racedTx` the
transactions that changed while another request relied on them, `misread` the branches
whose head could not be read, `silent` the commits of a `transaction.Commit` that failed.
A branch is `Undisturbed` when it is neither in `racedHead` nor in `misread`.
`BranchesInv.tla`, `BranchesProofs.tla` and `MCBranches.tla` as above.

### UploadPack: pulls

`UploadPack.tla` follows one client through `greet`, `negotiate`, the batches of
`sendTableHaves` and `negotiateTables`, and the packfiles. Sessions of different
clients share only the stores, so one is enough; `Vanish` removes any object from
the store between two steps, which covers every prune. The sender is given the commits
the client is known to have and may leave their tables out (`KnownTables`): which of them
is up to the library, so every subset is tried. The content of an answer
is a set of objects; `got` is what the client has received. `Pull.tla` is
what a pull promises: the client names what it wants and strikes tables, each
object left is sent at most once, the pull is done only when nothing it owes is missing,
and one that breaks off starts over;
`ImplementsPull` says that UploadPack does that. `UploadPackProofs.tla` has the inductive
invariant and the proofs, `MCUploadPack.tla` is the instance.

### WebhookSender: events

`WebhookSender.tla` is one `webhook.Sender`. `EnqueueEvent` is one step, since it
holds the mutex throughout; `Flush` counts a goroutine and starts it, and the
goroutine takes the mutex (`Lock`), visits the webhooks (`Skip`, `Post`, then
`Answer` whenever the subscriber answers or fails) and empties the queue
(`Return`). `hook[f]` is its loop variable; `enqueued`, `covered` and `posted` are
history variables. As `Sender.events` is a map by event type, queues, payloads and what
is posted are kept by type: events of one type have an order, those of two have none
within a payload. In the other modules, `flushed` and `announced` events are those
in `covered` here: `Flush` was called after they were enqueued.
`WebhookSenderProofs.tla` has the proofs, `MCWebhookSender.tla` is the instance.

### Reads: blocks, rows, commits, heads, tables

`Reads.tla` serves one request at a time; handlers that only read do not meet each
other. `pc` is the object the handler reads next: the ref (`RefNotFound`,
`GetRef`), the commit (`CommitNotFound`, `GetCommit`), the table (`TableNotFound`),
then blocks or rows one by one. `SendCommit` and `SendTable` are `writeCommitJSON`
and `handleGetTable`. `transferBlocks` and `transferRows` are `Refuse`,
`RefuseFormat`, `Redirect`, `StartStream`, `SendBlock`, `SendRow`, `EndStream`, and
`Break` for the panic that follows a block or row which is not there: the header
and what was written are out by then, and the recovery middleware can only add its
text. Between any two of these, commits arrive with or without their tables, refs move
to any commit that is there, and prunes run: `saveRefs` looks at nothing else, and the API
knows shallow commits (`pkg/oapi/oapi.yaml:511-516`). A row is its number in the table.
`heads` and `intact` (history) are what the ref of the request held while it was served,
and whether its table was there with all its blocks when the request came: a request for
the head of a shallow branch is answered with 404, `SteadyHeadIsServed` is about the others; `kept` is one answer kept by a cache that honours
`cacheControlImmutable`. `ReadsProofs.tla` has the proofs, for Reads beside Bundles.

### Bundles: packfiles, trees, diffs, profiles

`Bundles.tla` extends Reads by the handlers whose answer is made of several objects.
Such a handler is the list of its reads and writes, taken one by one (`TakeStep`) while the repository changes in between, and
`Ending` is what becomes of the answer when a read fails: a 404, a panic, a packfile
that breaks off, or a diff without profiles. The list of a diff or a profile is known
from the start (`DiffSteps`, `ProfileSteps`); a packfile first looks up all its tables
(`TableLookups`) and then goes on table by table, each after its blocks
(`TableToWrite`); a tree goes down level by level (`ParentsToRead`).
`BundlesProofs.tla` has the proofs, `MCReads.tla` is the instance of both modules.

## 3. The runs

Runs that pass:

| run | instance | shows |
|---|---|---|
| `rp_concurrent` | 2 refs, 3 commits in a line, 2 sessions, 2 handlers, `MCRacingPushes` and `MCRacingPacks`, prune outside write windows, read errors, crashes | the safety invariants of receive-pack |
| `rp_serial` | 2 sessions, 1 handler, deletes and non-fast-forwards denied | receive-pack implements `AtomicPush` when requests are served one at a time, across crashes |
| `ttl_map` | 3 keys, idle duration 2, durations 1 and 4, 2 requests | safety and liveness of the TTL map in the server; stores and maps outlive requests; the shutdown completes |
| `br_concurrent` | 2 branches, 3 commits, 1 table, 1 transaction, 2 handlers, read errors, prune outside write windows | the database stays closed; heads are announced, but for a failed `transaction.Commit`; but for the recorded races branches only grow, acknowledged commits stay, no ref outlives its transaction and no committed transaction is reopened |
| `up_pull` | 4 commits, 3 tables, batches of 2 | UploadPack implements Pull; completeness of pulls, offers |
| `wh_sender` | 3 events of 2 types, 3 webhooks, 3 goroutines | events once, in order, to every subscriber; what is flushed is posted |
| `rd_reads` | 1 ref, 2 commits, tables of 3 and 2 rows in blocks of 2, 14 requests for one table and 8 for bundles | whole answers are exactly what was asked for, broken ones a beginning of it; steady refs with a table are served; immutable answers about sums stay true; trees are complete, packfiles self-contained |

Runs that find a violation; each is a finding in `PROJECT.json`:

| run | property | what happens |
|---|---|---|
| `rp_lost_update` | `NoLostUpdate` | two pushes of one ref both pass the check of `saveRefs`, the second overwrites the first |
| `rp_gc_anytime` | `RefsPointToCommits` | a prune between `CommitExist` and `SaveRef` leaves a ref to nothing |
| `br_lost_commit` | `HeadExtendsHead` | two commits read the same head; the second replaces the first, which was answered with 200 |
| `br_orphan_ref` | `TxRefsHaveTx` | a transaction is discarded while a commit to it is being ingested; its ref is written all the same and stays |
| `rd_cache` | `ImmutableAnswersStayTrue` | blocks of a branch are marked immutable; the branch moves, the cache keeps the old table |

Two smaller disagreements have no run. A push that `greet` finds outdated is
reported with an empty ErrMsg for its other updates, though none was applied:
`SavedPushReportsTruly` speaks of the other pushes only. And the comment of
`ServeHTTP` says that it returns true when the session is finished; another request
of the session may overwrite `s.state` between the assignment and the comparison
(`SetState`, `CheckDone`), and the session then stays until it expires.

### The bounds and why they are enough

- Two handlers and two sessions: every race described above is between two
  goroutines, either of two sessions or of one; proofs cover any number.
- `rp_concurrent` has the pushes and packs that race or contradict each other
  (`MCRacingPushes`, `MCRacingPacks`), as read errors and crashes multiply its states;
  the other runs have all of them. Pushes of `MCPushes`: update, create, rewind, delete, and combinations that are
  partly outdated until another push is through. `MCPacks` sends the commits of a
  push together or apart and in both orders, and a commit nobody waits for.
- Three commits: a fast-forward over a commit that a prune may remove, and its
  rewind. In Branches the commits are those yet to be made. Three in
  `br_concurrent`: the commit to lose, the one that hides it and one that comes on
  top; or a commit of a transaction, the one made from it when the transaction is
  committed, and one of another request in between. A transaction over both branches
  moves one of them and fails at the other, for want of a fresh sum. One commit is
  enough for `br_orphan_ref`.
- Three keys: one to be kept, one stale entry before it, one added while the
  goroutine sleeps. `left` stops counting at `-Idle - 1`: `OverdueAtMostIdle`
  is violated before that.
- A batch of 2 out of 3 tables: a full batch and a partial one; the empty one
  occurs when the client has all.
- Three goroutines of `Flush`: one at work, one waiting that covers a later event,
  one that finds nothing left. Webhooks that subscribe to either type and to both;
  two events of one type, so that order matters.
- Two tables: one with a short last block, whose row after the last would be in that
  block, and one with only a full block, whose row after the last would be in the
  next. The requests of `MCUrls` ask for the first and the last block, row and range,
  one beyond each, and rows out of order. One of the two commits is
  the parent of the other, for trees of depth 0 and 1; moving the only ref back to the
  parent lets a prune remove the child, deleting it lets it remove both. A diff of a commit
  with itself is one of equal tables.
- Symmetry is used where nothing distinguishes the values (sessions, handlers;
  all sets of Branches) and in no run with a liveness property.
- `CHECK_DEADLOCK FALSE` where the system may stop: session ids or commits are
  finite in the instances, and nobody is obliged to send another request.
  In `ttl_map` the process ends. `rd_reads` checks deadlock.

### Fairness

`FairSpec` of `TTLMap` and `ServerFairSpec` of `Server` have weak fairness of the
cleanup goroutine (the Go scheduler runs a runnable goroutine) and of time. `Tick` is
disabled while the goroutine is ready to run: it is assumed to be prompt compared
with a tick; the idle duration is ten seconds by default. In `Server` the main
goroutine and the goroutine of the other map are fair as well, and every request
ends: that one is an assumption, as only reading and writing the connection have a
time limit. Nothing obliges a request to arrive, a key to be added or popped, or the
listener to fail. In `WebhookSender` it is weak fairness of the goroutines, strong
fairness of taking the mutex (Go's mutex hands itself to the longest waiter once that
one has starved for a millisecond), and weak fairness of `Answer`: a subscriber
answers or its connection breaks. The last is an assumption, as `http.DefaultClient`
has no timeout. No liveness is claimed for requests: a client may always go away.

## 4. The proofs

All theorems hold for every value of the constants that satisfies the `ASSUME`s
of the module, and rest on nothing else than the assumptions in the theorem.

- **ReceivePackProofs.** `IInv` of `ReceivePackInv` is inductive. None of the
  safety properties is: that a finished session leaves the map needs that only
  the request that created it can reach a session before its uuid was sent
  (`GreetAloneInv`); truth of the report needs what the loop of `saveRefs` has
  left behind (`LoopInv`); that a rejected push writes nothing needs that its
  session is unknown to the client (`RejectedInv`). From `IInv` follow
  `TypeCorrect`, `ObjectsBeforeRefs`, `FinishedSessionsAreDeleted`,
  `ReportsAfterSaveAreTrue`, `RejectionIsTotal`, `ChangesAreFlushed`, and
  `RefsKeepTheirCommits` under the assumption that no prune enters a write window.
- **ReceivePackProofs, `Refinement`.** With one request at a time (`OneRequestAtATime`) and
  refs that can be read (`~ReadErrors`), crashes included,
  initial states map to initial states of `AtomicPush` and steps to steps or
  stutters; `SerialInv` says that between check and write the ref still holds what
  was checked.
- **TTLMapProofs.** No key is dropped early (`SessionsKeepTheirTime`), none
  forgotten (`DeadlinesAreKept`), none overdue for more than the idle duration
  (`EntriesLeaveInTime`). The last one needs `SlackInv`: while the goroutine
  sleeps, an entry has at least `wake - Idle` left, whether it was seen by the last
  sweep or added later.
- **ServerProofs.** The server uses its session map as TTLMap allows
  (`ServerImplementsTTLMap`), so that the three facts above hold in it; and for any
  number of requests none is handled when a map is stopped or a store closed
  (`RequestsEndFirst`). `LifeInv` says which of main's places have requests, and where
  everything is still open.
- **BranchesProofs.** `IInv` of `BranchesInv` is inductive: what a handler holds
  at each place of the code, that it has not been pruned (`WritingInv`), and that
  only made commits have parents (`MadeInv`). `DatabaseStaysClosed` assumes that
  prunes stay out of the write windows; `HeadsAreAnnounced` assumes nothing.
  `RaceInv` is inductive on top of it (`RaceInvariance`), with any number of requests,
  read errors and any collections: while its branch is undisturbed, the head a handler
  has read, or the parent of the commit it has saved, is still the head of the branch
  (`CurrentHeadInv`); while its transaction was not raced, the transaction it has looked
  up is still there, or the id it has checked still free (`CurrentTxInv`). With it
  `UndisturbedGrow`, `AcknowledgedCommitsStay`, `TransactionsOwnTheirRefs` and
  `CommittedTransactionsStay`. By `SerialRequestsDoNotRace`, with one request at a time and
  no read errors no race is ever recorded, so that these hold without exception then;
  `BranchesOnlyGrow` states it for the property that `br_lost_commit` violates. The history of a
  branch is the least set closed under parents; `HistoryStep` shows that it never
  loses a commit without induction over the length of the history.

- **UploadPackProofs.** A session that a request can still reach is in one of three
  phases, and `IInv` says for each how found, offered, struck and sent objects are
  related: nothing yet (`Untouched`), every table found a candidate or offered
  (`OfferingInv`), what is left to send is what was found, less what was struck and
  sent (`SendingInv`). `PullIsComplete` alone is not inductive, as it speaks of a pull
  that has ended. From `IInv` follow `TypeCorrect`, `PullsAreComplete`,
  `TablesAreOfferedFirst`, `RoundsMakeProgress` and, step by step, `Refinement`: every
  session is a pull as `Pull` has it. That objects vanish at any moment is part of it.
- **WebhookSenderProofs.** `MutexInv` puts one goroutine in the loop; `CountInv` says
  that the WaitGroup is the number of those that have not returned; `CoveredInv` that
  an event which a `Flush` covers is queued only while one of these is left. With it
  `EventsOnceInOrder` and `WaitingCoversFlushes`, for any number of
  events, webhooks and goroutines.
- **ReadsProofs.** About `BundlesSpec`, so that the endpoints of Bundles run in the
  same process. A ref names a commit that is there (`RefsInv`), but its table may be
  missing; if it was there when the request came, then no prune removes any of it as
  long as the ref holds still (`IntactInv`); `RequestInv` ties what the handler has found to what the
  ref held meanwhile; `StreamInv` and `RowsInv` say that a stream in range has written
  exactly the blocks or offsets before `pos`. The lemmas `BlockCountFacts` and
  `RowFacts` are the arithmetic of the last, short block, for every block size: a
  block exists when its first row does, and an offset is found in its block when it is
  less than the number of rows, so that the one offset which `RowsOutOfRange` lets
  through breaks the answer off. From them `WholeAnswersRight`,
  `BrokenAnswersPrefixes`, `SteadyHeadsServed`; `KeptInv` gives `ImmutableSumsTrue`.
- **BundlesProofs.** `PackfileInv`: the step that brings on the next table is the last
  one of the list, the tables before it are written, and the blocks of the table to be
  written are in the packfile or on the list before it. `TreeInv`: every commit
  below the root is there for a child one level above, and every parent of a commit
  above the last level has been read or is on the list. From them `TreesComplete` and
  `PackfilesSelfContained`, with `BundlesTypeCorrect`, for any history, depth and list
  of tables.

Only model-checked: liveness (`KeysExpire`, `StopReturns`, `ShutdownCompletes`,
`FlushedIsPosted`), as fairness and ENABLED are outside the prover's reach. Every other
property of a passing run is a theorem, for the specification of that run's module or
under the assumptions named above.

## 5. Assumptions and abstractions

- A call of a store or of a library package is atomic, and so is a write of
  one object. `transaction.Commit` is not: it is a step for each branch, in any order, with
  other requests in between, and may fail before any of them and at its end. For one branch
  it reads the head, saves the commit and moves the branch in one step. `ObjectReceiver.Receive` saves any part of a pack before it fails.
- `GCPolicy`. The code takes no lock against collection. `"anytime"` is the code;
  `"betweenWrites"` is an operating rule, that a collection is not started while
  a push or a commit is between its checks and its ref, and is what the safety
  runs and two theorems assume. `rp_gc_anytime` shows what the rule prevents.
- `ref.Store.GetRef` may fail; `saveRefs` and `handleCommit` ignore that. `ReadErrors`
  models it in Branches and ReceivePack. With it a push may overwrite a ref it was
  told is absent, so `AtomicPush` is checked and proved without. A commit may drop the
  history of its branch in the same way: such a branch is in `misread`, and no longer
  `Undisturbed`.
- A cookie reaches the client only when the response is complete. Without it the
  client cannot know the uuid of its session.
- The ErrMsg fields a client sends with its updates are taken to be empty.
- Commits carry their time, so the sum of a new commit is fresh.
- When two uploads with one id both pass the check of `handleCreateTransaction`, the
  second `NewTransaction` may replace the transaction or fail: that is up to the store, which
  is not in this repository, so that no run claims that a committed transaction is reopened;
  `UnracedCommittedStays` shows that nothing else reopens one. Committing or discarding a
  transaction that was committed before is possible. `ref.SaveTransactionRef` does not
  look whether its transaction is there.
- `Flush` hands events to a goroutine of `webhook.Sender`: a flushed event is one
  that was handed over. WebhookSender shows that it is posted; an event whose
  delivery fails is not posted again. URLs of webhooks parse, a webhook lists no
  event type twice (`Webhooks` has sets of types), and the process does not end: as configured by `cmd/server.go`
  nothing waits for deliveries when it does.
- Sessions live in memory; the end of the process ends them all (`Crash` in
  ReceivePack). The stores are durable by assumption, each write of a ref or an
  object being one step.
- The sum of a commit is not that of a table (`ObjectsAssumption` of UploadPack,
  `NamesAreDisjoint` of Reads): they are kept under different keys.
- UploadPack serves one request of a session at a time; a lost answer or a
  truncated stream is not modelled.
- A webhook is posted once, on purpose; an empty table has no block to ask for, so
  that a request for all its blocks is refused. Lost bytes of a packfile are for the
  client to notice.
- Reads: a ref moves only to a commit that is there, with or without its table and its
  ancestors; prunes keep what refs reach; reads fail only because
  an object is missing; a parameter that is no number counts as one out of range;
  ids in a path are well-formed; `columns=true` writes a header line that is left
  out. A block buffer may or may not still hold a block it has read.

## 6. Not modelled, and the plan

Not modelled: router, middlewares, authorization, probes, flags and configuration
(stateless or wiring), and the test utilities. `getRefs` is one read of the ref store
and is left out of Bundles, as is the flag of each commit in a tree that says whether
its table is there. An index and a profile are taken to come and go with their table.

Hazards without a property are noted in `PROJECT.json`. What is left to do:

1. `Repository.tla`: pushes, commits, transactions and collection on one pair of
   stores, with the tables of a push between their acknowledgement and the
   packfile; the closedness of `Branches` as the shared invariant.
2. Overlapping requests of one upload-pack session, which share its lists of tables
   without a lock. The client sends one request at a time.
