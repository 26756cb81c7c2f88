# HSME: a verification project

HSME (hybrid semantic memory engine) stores memories in one SQLite database,
lets background workers embed them and extract a knowledge graph from them, and
answers searches over MCP (JSON-RPC on stdin and stdout) and from a command
line. This directory holds TLA+ models of it, TLC runs that check them on small
instances, and TLAPS proofs for any size. Line references are to the
repository: `tasks.go:77` is `src/core/worker/tasks.go`, and so on; `PROJECT.json`
maps every definition to its lines.

Run a model with `tlc -config X.cfg MCX.tla`, a proof with `tlapm XProofs.tla`.

## 1. The system

Several processes share the database file and talk through it only: the MCP
server (`cmd/hsme`, a goroutine per request), any number of workers
(`cmd/worker`), the maintenance process (`cmd/ops`), `hsme-cli`, and for the
cutover from an older server the migrator (`cmd/migrate-legacy`). SQLite
serialises writes; whoever opens a transaction takes the write lock at once
(`_txlock=immediate`, except in the migrator), every other statement commits on
its own.

| component | state | operations | what is hard | what makes it correct |
|---|---|---|---|---|
| Ingestion, `ingest.go` | `memories`, `memory_chunks`, `async_tasks` | `StoreContext` | concurrent callers, forced re-ingestion, failure between statements | whole or not at all; one active copy; replacements lead forward |
| Task queue, `tasks.go` `LeaseNextTask`, `cmd/worker`, `retry.go` | `async_tasks`, each worker's copy of its row | lease, complete, fail, retry-failed | leases that run out under a live worker, dead workers, stale copies | bounded attempts, exclusive leases, final decisions, no stranded row |
| Embedding, `tasks.go` `ExecuteTask`, `chunker.go` | `memory_chunks`, `memory_chunks_vec` | embed a chunk, split a chunk, start over | two workers on one memory, records read before a model call | distinct indexes, vectors of the current text, complete when completed |
| Graph, `tasks.go` `ExecuteTask` | `kg_nodes`, `kg_edge_evidence`, `kg_unresolved_edges` | upsert, resolve, defer, reconcile | order of tasks, a node that appears between lookup and deferral, swallowed errors | no valid edge lost, none invented |
| Rollups, `maintenance.go`, `sqlite_recorder.go`, `cmd/ops` | `obs_traces`, `obs_metric_rollups`, `obs_rollup_jobs` | aggregate a bucket, catch up, delete | overlapping cycles, late inserts, traces that end after they were counted, times as text, boundaries of buckets and retention | no double counting, no gap, exact totals of settled buckets |
| Database file, `db.go`, `config.go`, `admin/backup.go`, `admin/restore.go` | main file, `-wal`, `backups/`, `system_config` | open, validate, seed, backup, restore | restore while processes run, kill between two steps, two first starts | nothing lost, files not mixed, one model |
| Searches, `fuzzy.go`, `graph.go` | none; several queries without a common transaction | fuzzy, exact, trace | tables that change between the queries; limits and cuts | an answer consistent in itself |
| Legacy migration, `cmd/migrate-legacy` | `memories`, the reports of earlier runs | match, retag, delete, ingest; three modes | runs that die between two statements and are run again, statements that fail without a word, loops cut short, clients at work, a source that grows | nothing lost, nothing twice, metadata of the right text, idempotent |
| MCP server, `handler.go` | goroutines, mutex, stdin, stdout | read, handle, respond, end | pipelining, torn lines, end of input | whole lines, answers for all, read your writes |

Calls between them: the MCP server and `hsme-cli` call ingestion and the
searches; ingestion enqueues the two tasks of a memory in its transaction;
workers lease them and run the embedding or the graph task; both searches read
what the tasks wrote; server and workers insert traces, which rollups count;
`hsme-cli admin` replaces the database file under all of them; the migrator
reads the legacy database and calls ingestion.

### Not modelled

* Session recall (`recency.go`): one query with a filter, an order and a limit.
  There is no second step it could disagree with, and a model of it would be the
  query again.
* `hsme-cli` outside of `admin`: flags and formatting around calls that are
  modelled.
* The Ollama clients: HTTP with a timeout; callers see a call that answers, fails
  or rejects a text as too long, and that is what the models have.
* Spans, errors and slow operations: inserts whose rows no other code reads,
  except for the count of slow ones.
* `bench-decay`: compares two rankings of one process, off line.
* Configuration: read once; its values are constants of the modules.

## 2. The modules

```
MemoryStore  <-- refined by --  StoreTx          AsyncTasks  -- refines -->  TaskQueue
                                   |                  |
                        (chunks, tasks)        (leases, outcomes)
                                   v                  v
                               EmbedTask, GraphTask (each with the lease of its own task)
                                   |
                         (what changes under a search)
                                   v
        SearchTables  <--  FuzzySearch, ExactSearch, TraceDependencies  <--  Search
        Rollups        Database        McpServer        Migrate
```

* **MemoryStore** is the abstract promise of `store_context`: a call does all of
  its work in one step. **StoreTx** is `StoreContext` statement by statement
  (`Begin`, `Dedup`, `Supersede`, `InsertMemory`, `Link`, `InsertChunks`,
  `EnqueueEmbed`, `EnqueueGraph`, `Commit`), each caller with a draft of the
  tables, and `Abort` at any point for errors and crashes. The step is the
  statement because that is where the code can fail.
* **AsyncTasks** is the table `async_tasks` and the loops of the workers. A
  worker holds a copy of the row (`task`, `attempt`, `due`), as
  `AsyncTask` does in the code, and writes its outcome by row id, so late
  outcomes are in the model. Deadlines count down to the past instead of being
  compared with a clock, which keeps the state finite.
* **TaskQueue** is the abstract promise of that table: a task is put, taken,
  succeeds, is missed (and queued again, or failed for good if that was its last
  start) or lost. It has no workers, leases or clock. `AsyncTasks` implements it
  under the mapping `QueueState`: a row is *running* while some worker holds a
  copy of it, and a row that is `processing` with nobody at it counts as queued.
  The promise ends with the first disturbance (`~Undisturbed`): a run that
  outlives its lease, or retry-failed.
* **EmbedTask** is one embed task. A text is a range of segments; the model
  rejects a text of more than one segment, and single segments that are
  `stubborn`. Row ids, chunk indexes and the list of records a worker read are
  kept apart, since they differ after a split.
* **GraphTask** is the graph task of several memories with every statement a
  step, and `MaxGlitches` INSERTs whose error is only logged. The error of a
  lookup is dropped too, without any bound: `Lookup` may always find nothing.
* **Rollups** counts traces in ticks; a minute has two ticks and an hour two
  minutes. `ProcessBucket` is one transaction, `ReadCheckpoint` is outside of
  it, as in `runJobWithCatchup`. A trace is inserted as `ok` and gets its status
  later (`FinishTrace`) or, if its process dies, never. Times are compared as the
  RFC3339Nano text the code compares: a fraction of zero is dropped and `.`
  sorts before `Z`, so the traces of the first second of a minute fall into the
  minute before (`TextIn`), while bucket starts compare as times (`Within`). How
  far back the catch-up looks (`RawRetention`, `MinuteRetention`, from the
  configuration) and what the retention deletes (`RawKeep`, `MinuteKeep`, from
  `obs_retention_policies`) are constants of their own, as in the code.
* **Database** has inodes: a main file, a `-wal` file that belongs to one, the
  names in the directory, and the files each process holds open. What SQLite
  does at open, close and checkpoint is external; what the repository does with
  the files is not. `BackupIncomplete` is a backup that was killed or whose one
  `Step(-1)` found the source busy, which `backup.go:54` does not notice.
* **Search** runs one of three searches query by query over `SearchTables`,
  whose actions are the commits of the components above. How well a chunk
  matches is an input (an order of chunks). `Ordered` stands for `ORDER BY` (the
  i-th row has i - 1 before it), `Filtered` for `WHERE` and `First` for `LIMIT`;
  they say what `SortSeq` and `SelectSeq` compute in a form one can prove about.
  A superseded memory's score is halved, an old one's divided by `Decay`.
* **McpServer** has one step per call of the read loop and of a request's
  goroutine; `sendResponse` is lock, write, write and unlock.
* **Migrate** is the migrator. Phases 3 to 5 are a transaction each. Nothing in
  it looks at `rows.Err()`, so any loop may end early and go on as if it had seen
  all rows; in phases 3 and 4 the observations may not all be loaded, and any
  rows may be missing or their UPDATE fail, of which much is in no report. Phase
  7 is a loop of three statements per observation (check, store, date), each of
  which commits, fails, or is the last before a crash. A check that fails
  (`CheckFails`) means the same as one that finds nothing: the observation is
  ingested. A text is a value; `Text` is `ParseWrapper`, `Wrapper` is
  `BuildWrapper`, `Garbage` the documents the rule of phase 5 matches. `failed`
  (anything of this run failed, reported or not), `unread` (the check of the
  observation at hand failed), `covered` and `undated` are history.
* **XProofs** hold the theorems, **MCX** the instances for TLC.

A comment `Mutant:` marks a definition that is not the code: a plausible bug
that replaces the definition below it to show that a property can fail. They are
listed in `PROJECT.json` and used nowhere else.

## 3. Runs

No run takes longer than about two minutes on two cores. `x` is the number of distinct states.

**AsyncTasks** (x = 96 000). Two workers, two rows of different age, three
attempts, a lease of one tick, one retry-failed. Two workers are enough for a
stale one and its successor, three attempts for a first, a middle and a last
one. Always: `StartBudget`, `NoEarlyGiveUp`; until retry-failed is used:
`AttemptsTellRunsApart`; as long as no run outlives its lease either:
`LeaseExclusive` and the refinement `ImplementsQueue`, which has in it that a
start is counted, a task is given up only by its last run and decisions are
final; and if no outcome is lost, `EventuallyDecided`. Three conditions, because the code needs them: a late
outcome overwrites the row whoever holds it now, and retry-failed resets rows
that are being run.

**StoreTx** (x = 5 200). Two callers, three memories, three documents of which
two hash alike, every `supersedes` from none to one that does not exist, with
and without `force`. `StoreSpec` is the refinement; `AckedIsStored` relates
what callers were told to the table; `UniqueActive`, `SupersededLeadsForward`
and `HistoryKept` are what the history of memories must look like;
`DedupStaysTrue` is what the write lock is for: what a call found in its SELECT
stays true of the *committed* tables until the call commits or fails, so no other
thread or process comes between. (With a transaction that takes the lock only at
its first write, the mutant `BeginDeferred`, it does not hold.) An active
memory may point to itself: a caller can guess the id its own call creates
(`Link` runs after the insert), and the model shows that nothing worse follows.

**EmbedTask** (x = 36 000). Two workers, four segments in two chunks that must
both be split, the last possibly stubborn, three attempts, one overrun.
`IndexesDistinct`, `VectorsCurrent` and `NoTextLost` hold even after overruns, and
`EmbeddingEnds` says that starting over after each split comes to an end.
`ChunksSpellDocument` and `CompletedIsSearchable` do not: a second worker that
read a chunk before the first one split it stores the parts again.

**GraphTask** (x = 4 400 000). Two workers, two memories whose answers name each
other's nodes, once under two types, with nodes and edges that must be skipped,
two attempts, one overrun, one swallowed error of an INSERT, any failed lookups.
`EvidenceComplete` is the claim of `db.go` that the order of tasks does not lose
evidence, also when a lookup fails, since that only defers the edge; `DeferredNeverDropped`
that a deferred edge leaves its table only as evidence, and `EvidenceSound` that
no row joins nodes the answers did not connect.

**Rollups** (x = 1 500 000). Two processes, five ticks (two minutes and a half, an hour
and a quarter), two traces of which one may fail, retention shorter than the
horizon, a catch-up of hours that looks further back than minutes are kept, a
cycle that lasts up to one tick. `SettledIsExact` says exactly when
the totals and the errors of a minute are right: when it was processed after its
end, first second of the next one included, with nothing still to be inserted or
finished. `NeverOvercounted` is what two cycles over one bucket must not break, and
`TotalsNeverShrink` what a bucket that is processed again must not lose while
its first minute is kept. `NoMinuteSkipped` has a strict bound for a reason given
beside it: a cutoff on the boundary of a bucket skips that bucket, a bucket
early. The length of a cycle matters to it: two first cycles that began more than
a minute apart find no checkpoint, start with their own minutes and leave one
between the two out (`maintenance.go:162`).

**Database** (x = 230 000). Two processes with different models, two memories,
one backup, two restores. The behaviours end where SQLite gives no guarantee
(two `-wal` files over one main file): `Sound`, and therefore deadlock is not
checked. `NothingLost` follows what was committed through crashes,
backups and restores; `NeverMixed` keeps a `-wal` file to its own main file;
`ModelsAgree`: no database that is open or named by the path ever has two models,
and a process that validated its model keeps finding it in the database it has
open. The second part leaves out processes in state `moved`: a pooled connection
that was replaced after a restore opens the restored file, which may have another
model or none, and the process goes on storing there; nothing validates it again.
`mishaps` records what the operator was told not to do, so each property names
the conditions it needs.

**Search** (x = 410 000). Three memories in five chunks, one a replacement, two
projects, limits 1 to 3; a graph of four nodes with a cycle and a loop, every
direction, depth up to two, caps 1 to 4. `TraceExact` compares the recursive
query with paths; `TraceConnected` is about cut answers and edges that are
added between the queries. `ExactComplete` says that the
fallback scan fills the answer, `NewestFirst` what recency promises.
`OneVersionIsCurrent` leaves out recency, where it
fails: see hazards. A search that has answered stops, hence no deadlock check.

**McpServer** (x = 90 000). Three requests of any kind, pipelined as the client
likes, end of input or a broken pipe, SIGTERM at any time. `LinesAreWhole`: what the client
reads is never torn; `ReadYourWrites`: a search sent after the answer to a store
finds it; `EveryRequestAnswered`, if the server is left alone. The server stops,
hence no deadlock check.

**Migrate** (x = 4 200 000). Three observations, two of them with one text and
one that appears later; four imported rows: one as it is in the source but with
the look of garbage, one under another title, one short one that does not parse,
one session summary. Three runs in any mode, one call of a client. That is a run
that dies or fails, one that repairs, and one more. `LegacyKept` is about phase
5, which deletes by tag and look of the text what phase 3 failed to retag;
`MetadataOfItsText` about the UPDATE by id after an ingestion that may have found
a row of somebody else.

`IngestedOnce`, an action property: the migrator inserts an observation again
only where its check failed with an error. That exception is needed: any error
of the SELECT counts as "not stored" (`orphans.go:50`), and `StoreContext` only
looks at active rows, so an observation that was ingested and then superseded by
a client is inserted anew. `NothingToRedo` is idempotence with the same exception
and one more condition: it speaks of what follows a full run in which nothing
failed. A run may fail without a word, as in phase 4 or with a loop cut short;
it exits 0 and leaves rows to the next one, which the idempotency contract
(`migrator-cli.md:80`) does not allow for. Runs are bounded, hence no deadlock
check.

**Fairness.** `AsyncTasks`: each worker polls and ends its runs (the model
clients have a timeout of two minutes), and time passes. `EmbedTask`: a worker
that stays alive goes on. `McpServer`: goroutines run, and `sync.Mutex` is
starvation-free, hence `SF` for the lock; handlers return because the calls they
make have deadlines. Nothing is assumed of clients, operators, crashes or the
maintenance cycle, so `Rollups`, `Database`, `GraphTask`, `Search` and `Migrate`
state safety only.

**What the code does not do**, each a run that ends in a counterexample:

* `AsyncTasks_exhausted` (`ExhaustedIsFailed`): a task whose last attempt dies stays `processing` for
  ever (`Technical_Specification.md:449` says it becomes `failed`).
* `Rollups_hour` (`HourIsSumOfMinutes`): the hour in progress is recorded as completed and its
  remainder is never counted (`README.md:27`). The same line does it to the
  minute in progress.
* `Migrate_delta` (`DeltaCatchesUp`): a full run completes without a failure and
  its report is the baseline; an observation is added; a delta run reads the
  baseline's maximum (`main.go:162` of the migrator), overwrites it with that of
  its own snapshot (`:173`), and so skips the new observation like all others. The
  contract promises that it is ingested (`migrator-cli.md:41`, `:44`). The run has
  the third observation as a text of its own, which nobody imported.

Seen while modelling, without a run:

* A restore killed between the removal of the sidecars and the rename leaves the
  old main file without its WAL (`restore.go:43`); what was committed only there
  is gone. `NothingLost` has it as a mishap.
* An hour is kept for longer than its minutes. A slow cycle that processes it
  again after the retention of a faster one deleted the first of these overwrites
  its total with what is left (`maintenance.go:126`), which is why
  `TotalsNeverShrink` speaks of buckets whose first minute is kept;
  `kitty-specs/scalable-observability-foundation-01KQ1D4D/spec.md:92` asks that
  rerunning a bucket does not corrupt prior totals. It takes rollups that are
  behind by the retention of minutes, and two processes of `hsme-ops`.
* With raw traces kept for less time than minutes (`keep_days` of
  `obs_retention_policies`; the seeded values are equal) a settled minute that is processed again is overwritten
  by the count of what is left of it. `HSME_OBS_RAW_RETENTION_DAYS` and its like do
  not change what is kept, only how far back the catch-up looks.
* retry-failed re-runs tasks that completed on their fifth attempt (`retry.go:11`).
* `leased_until` is text with the local offset (`tasks.go:105`); when clocks go
  back, a lease may be over at once.
* A rerun of a full migration fails at the threshold once everything that had a
  source is retagged: of what still has the old tag nothing matches, and the
  ratio is one (`restore.go:85`).
* Phase 7 looks for the hash of the wrapper it would build: a row phase 3 matched
  under another title is not found, and its text is ingested a second time.
* A migration that dies between `StoreContext` and the UPDATE leaves the date of
  the migration for good; the next run finds the hash (`orphans.go:50`).
* `Technical_Specification.md:448` says that an error leaves the lease to run out,
  `cmd/worker/main.go:73` clears it; the specification at `:465` asks for one short
  transaction per memory where `tasks.go:219` commits each vector; `:742` promises
  a `truncated` flag for the depth, which `graph.go:115` sets for `max_nodes` only.
* retry-failed gives a task new attempts while a late worker may still hold its
  last one: if that fails, the row is failed at once (`cmd/worker/main.go:70`).
* A process whose connection moves to a restored database with another embedding
  model is not stopped and stores there.
* An interrupted `admin backup` leaves an empty database that `restore --latest`
  takes (`admin.go:142`).

## 4. Theorems

For all values of the constants that satisfy the named assumptions
(`AsyncTasksAssumption`, `MemoryStoreAssumption`, `StoreTxAssumption`,
`EmbedTaskAssumption`, `GraphTaskAssumption`, `DatabaseAssumption`,
`McpServerAssumption`, `SearchTablesAssumption`, `FuzzySearchAssumption`,
`ExactSearchAssumption`, `TraceAssumption`, `RollupsAssumption`,
`MigrateAssumption`: types of the constants, values outside of their sets,
whole minutes in an hour, finitely many processes and nodes, a memory replaces
an older one, an index returns a chunk once, limits are positive, and there is
an input of each kind; `MigrateAssumption` also says that a text the
old import read was in the legacy database at the start of the migration or
never comes back). The bounds of the runs are arbitrary natural numbers in the
proofs.

* **AsyncTasksProofs.** `TypeCorrect`. `StartsBounded` from
  `BudgetInv`: a row was started at most `attempts` times since the last reset,
  and `MaxAttempts` times per reset before. `NoTaskGivenUpEarly` from
  `GiveUpInv`, which must also bound the *copies* of the count, since the
  decision is made from them. `AttemptIsAFence` from `FenceInv`: a copy is never
  ahead of its row. `LeasesAreExclusive`, `PendingStaysRunnable` and
  `DecisionsAreFinal` from `LeaseInv`: the copy of whoever runs a row agrees with
  it, deadline included, so an expired row has no runner. The same invariant
  gives `WorkersImplementQueue`, `Spec => ImplementsQueue`: each action of the
  workers is a step of the abstract queue or leaves it alone.
* **StoreTxProofs.** `TransactionIsAtomic`: `TxSpec => StoreSpec`, from
  `TxInv`: whoever is past `BEGIN` holds the lock, and its draft is what the
  statements so far make of the tables. `Commit` is a `Store` step, all others
  stutter. `StoreInv` is then inductive for the one-step store, so
  `OneActiveCopy`, `ReplacementsLeadForward`, `HistoryIsKept`, `IngestionIsWhole`
  and `AcknowledgedIsStored` carry over. `DedupSeesEverything` needs `TxInv`
  itself: the lock belongs to the caller from its SELECT to its COMMIT, so the
  committed tables are those it read.
* **EmbedTaskProofs.** `EmbedTypeCorrect`, `SplitsNeverCollide`,
  `VectorsNeverStale` from `EmbedInv`: a record a worker still holds starts where
  its row starts, and the row holds its text or its first part; a row with a
  vector is a single segment and is never split again. Hence no stale record can
  cut a row that has a vector. `TextIsNeverLost`: a split cuts a row down to its
  first part only in the step that stores the rest, and a stale record only stores
  more. `ChunksStayInOrder` and `CompletedHasVectors` from `CalmInv`, which holds
  until a run outlives its lease: the worker is alone, its records are those of
  the rows (so what it splits is what the row has, and a split shifts the indexes
  of exactly the chunks that follow), and a chunk it has passed has its vector.
* **GraphTaskProofs.** `NoDeferredEdgeDropped`, an action property, from types
  alone: rows of `kg_nodes` and of the evidence stay, and only reconciliation
  deletes. `NoEvidenceInvented` from `SoundInv`: the ids a worker remembers, and
  those in its hands between the lookup and the write, are ids of those names.
  `NoEvidenceLost` from `CompleteInv`: an edge that was handled is evidence or
  deferred, and *whenever both nodes of a deferred edge exist, some task is not
  completed whose worker has yet to reconcile* (`SomeoneReconciles`). The last
  part is what the order of the statements in the code is for: whoever creates a
  node or defers an edge reconciles before it completes.
* **DatabaseProofs.** `FilesStayTogether`, `ValidatedModelsAgree` and
  `CommittedIsFound` from one invariant. `SoundInv` says which files belong
  together: a `-wal` file to its main file, for the path and for all that is open
  (`PathPaired`, `OpenPaired`); *if the path has no `-wal` file, nobody has its
  main file open* (`PathAlone`), except between the removal of the sidecars and
  the rename (`Uncovered`), so that a new `-wal` file is never a second one.
  `CalmInv`: without a mishap all processes have the files of the path open, and
  these hold what was acknowledged. `SingleInv`, on top of it: no file in use and
  no backup has two models, since whoever seeds holds the write lock and looks
  again. That there is always an inode to create needs a count of those in use.
* **ServerProofs**, about what a client of the MCP server sees.
  The server: `OutputIsWhole`, since the mutex belongs to the goroutine between
  its two writes (`MutexHeld`), and the number of writes is odd exactly then
  (`Unfinished`). `SearchFindsAnswered`: what the client knows of is stored, since
  a store is handled before its answer is written.
  The searches rest on lemmas about `Ordered`, `Filtered` and `First`: that ranks
  in a total order are 1..n, each taken once (`OrderedLists`), so that a list has
  as many rows as there are members, is cut off at a length and has none twice.
  `AnswerIsExact`: the levels of the recursive query are what paths of that length
  lead to (`LevelIsReached`). That is no induction over the recursion: what paths
  lead to solves its equation, and of the depths at which another solution
  differs there would be a least one. `AnswerHangsTogether`: the cut is by
  distance, so with a node it keeps the one before it on a shortest path
  (`CutIsLinked`), and the edges the first query saw are still there for the
  second (`TraceInv`). `OneVersionCurrent`: one query reads all statuses, and the
  table has the status of a memory and its stored replacement together
  (`TablesInv`, `VersionInv`). `NewestLeads`: what the indexes find scores less
  than `One` (two reciprocal ranks, each at most a 61st), and only the first
  candidate has `One` (`NewestInv`). `ExactAnswerComplete`: fewer rows than the
  limit of a query are all there are, and the limit of the fallback scan leaves
  room for every row it will skip (`FreshRows`, `ExactInv`). `SearchTypeCorrect`,
  for all three, from their invariants and `SearchTypes`: ids are handed out in
  order, so what a stored memory replaces is stored (`TablesTypes`).
* **RollupsProofs.** `RollupsTypeCorrect`, `NothingCountedTwice`: the invariant
  `Tables` relates the rows at each level to the history of all traces; for the
  hour it takes that the minutes of an hour are disjoint as text ranges too, and
  fill it (`MinutesCovered`). `CatchUpLeavesNoGap` from `Gapless`: a cycle that is
  in its loop resumed behind a checkpoint (`Follows`), or found none and all
  minutes done so far are next to its own (`First`). Its hypothesis `CyclesClose`
  (`MaxRun <= Minute`, or a single process) is what the catch-up needs, see the
  run. `SettledStaysExact` and `NoTotalShrinks` from `Kept`: a settled minute is
  what there was and nothing of it is to come, and a kept hour has no more than
  its minutes; hypothesis `KeepsRaw` (`MinuteKeep <= RawKeep`, 7 days each by
  default, `db.go:343`), without which both are false. `Sum` is the fold of the
  community modules. What it needs of it (that an element can be taken out, that it
  is monotonic and adds up over disjoint sets) is proved by *least
  counterexample*: strict inclusion of finite sets is well-founded (a theorem of
  the library about sets, with no operator as a parameter), so if a statement
  fails for some subset it fails for one of whose own subsets none fails.
* **MigrateProofs.** `NothingIngestedTwice`, `MetadataFits`, `CoveredIsKept` and
  `MigrationIsIdempotent`, from one invariant (`InvHolds`). It has two parts.
  `StepEvolves` is about the table: in any step documents stay, the tags of the
  old import are only ever removed, and only garbage that still has such a tag is
  deleted. The invariant `Inv` says what each phase of a full run leaves behind
  (`NoMatched`, `NoSession`, `NoGarbage`, the stored prefix of the loop); because
  nothing recreates it (`CleanStays`, `StoredStays`), it is there for all later
  runs, and then they find nothing to do. What the migrator inserted carries no
  tag of the import, so no phase deletes it and a check that does not fail finds it
  (`Kept`); a failed check excuses only the observation at hand (`UnreadFits`).

`AllOrNothing`, `PendingIsRunnable`, `DecisionFinal` and the type invariants
are proved and not in the runs: `StoreSpec`, `EventuallyDecided` and
`ImplementsQueue` fail wherever the first three would, and the type invariants
state the range of each variable for the reader.

Only model-checked:

* Liveness (`EventuallyDecided`, `EmbeddingEnds`, `EveryRequestAnswered`): the
  prover has no rules for fairness and `ENABLED`.
* The converse of `NeverOvercounted` for hours: `Rollups_hour` shows that it fails.

## 5. Left out, and why

* Text: hashing, chunk sizes, scores of matches and canonical names are inputs or
  functions; formatting, logs and tracing are absent. Timestamps are compared as
  text in the code; `Rollups` has that, and the hazards list where it matters
  elsewhere.
* Pool of connections: which connection runs a statement matters only for
  `foreign_keys` and `busy_timeout`, set on one of them (`db.go:378`). A
  statement that times out waiting for the lock is an error like any other.
* Rollups: the hour to day job and every column but `total_count` and the
  `error_count` of minutes.
* Migration: `StoreContext` is one step of it, since its transaction commits on the
  state its SELECT saw or fails; the `project` column, soft deletion in the legacy
  database, and chunks and tasks of rows that phase 5 deletes (foreign keys are off
  in the migrator, so they stay behind).
* A failing write to stdout: the Go runtime ends the process.
* Names with several spellings: the two keys a node is remembered under
  (`tasks.go:267`) coincide once names are canonical.

## 6. Plan

Done, in this order: AsyncTasks and its proofs; MemoryStore, StoreTx and the
refinement; EmbedTask and its proofs; GraphTask; Rollups; Database; the searches;
McpServer; TaskQueue and the refinement; Migrate and its proofs; the proofs of
McpServer, GraphTask, Database and Rollups, and the rest of those of EmbedTask;
the proofs of the searches, so that every invariant of a passing run is a theorem.

Next:

1. `EmbedTask` and `GraphTask` on top of `TaskQueue` in place of leases of their
   own, which would leave the overruns to `AsyncTasks`.
2. `Rollups` as an implementation of an abstract table that counts each bucket in
   one step, for cycles that do not overlap.
