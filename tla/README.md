# A verification project for rlm-api

TLA+ modules, TLC configurations and TLAPS proofs about the repository in
`src/`: an HTTP API that queues runs of a Recursive Language Model in
PostgreSQL, worker processes that claim and execute them, and a memory store
that keeps a summary of each finished run.

    tlc -workers 2 -config MCRunStore.cfg MCRunStore     # one run of the checker
    tlapm RunStoreProofs.tla                             # one module of proofs

`PROJECT.json` lists the components, the runs with the properties each checks,
a broken variant ("mutant") of the code per property that the property detects,
the lines of the source each definition stands for, the hazards of the code,
the findings and the theorems.

## 1. The system

| Component | State | Operations | Talks to |
|---|---|---|---|
| Run queue, `run_store.py` (`RunStore`) | tables `rlm_runs`, `rlm_events` | `enqueue`, `get`, `claim` (+ quarantine), `heartbeat`, `succeed`, `fail`, `recover_stale`, `add_event` | called by API and workers; one transaction per call |
| Summary outbox, `run_store.py` | table `rlm_summary_outbox` | filled by `succeed`; `claim_summary`, quarantine, `complete_summary`, `retry_summary` | called by workers; one statement per call |
| Worker, `worker.py` | per process: identity, `last_recovery`, `consecutive_failures`, the current claim, the event `lease_lost`, three asyncio tasks | `run_worker_loop`, `_poll_cycle`, `process_claim`, `_heartbeat_loop`, `_record_failure`, `_deliver_summary` | queue, outbox, memory, child process, signals |
| Memory store, `memory.py`, migrations 001-003 | table `memory_items` | `write` (upsert by `source_run_id`), `search` (hybrid ranking, access counters), clean-up of expired rows | embedding provider; called by API and workers |
| Child process, `model_runtime.py`, `rlm_worker.py` | a spawned process and a pipe | start, poll the pipe, decode the payload, SIGTERM, SIGKILL | started by the worker for one execution |
| HTTP API, `app.py` | the two stores, optionally an embedded worker | create and read runs, write and search memories, health | stores; start-up and shutdown of the embedded worker |
| Authentication `auth.py`, configuration `config.py`, logging `logging_config.py` | none that changes | pure functions | |
| Migrations | schema, legacy rows | 004 adds the durable queue, repeatable | |

Behaviours that are hard to test, with the properties that answer them (the full
list, at its lines, is under `hazards` in `PROJECT.json`):

* *Leases.* A worker may be paused for any time, its run recovered and claimed
  again. Completions carry the worker's id, not the attempt:
  `LeaseFencesAttempt`, `TerminalIsFinal`.
* *Calls with two sides.* A call may raise or be cancelled after its
  transaction has committed: a success followed by a recorded failure, a claim
  nobody knows of. `FinishedRowIsWhole`, `ImplementsStore`, `EveryRunEnds`.
* *Attempts.* They are paid for at the claim; the boundary
  `attempts < max_attempts` appears in three places: `NoStrandedRun`,
  `GivenUpOnlyByVerdict`.
* *Cancellation.* A lost lease, a stop and a timeout all cancel the same tasks:
  `LostLeaseStopsExecution`, `StopIsHonoured`, and the finding
  `NoClaimAfterStop`.
* *Delivery at least once.* A summary may be delivered by several workers, of
  several embedding configurations, at the same time: `OneMemoryPerRun`,
  `DeliveredIsRemembered`, `OnlyHolderSettles`, `EverySummarySettles`.
* *The event log* is written by several workers, and numbered with
  `MAX(sequence) + 1`: `EventLogTellsHistory`, `EventNumbersUnique`.
* *Row locks.* The atomic transactions of the store are made of statements:
  `ImplementsRunStore`, `HoldersNeverWait`.
* *Clocks.* The table and the worker count the age of a lease from different
  events, with calls of several statements of up to 30 s each, and recovery looks
  once per poll cycle: `KeptWhileHealthy`,
  `OneFailureIsTolerated`, `StopsInTime`, `RecoveredInTime`.
* *The child process* may finish, die or hang between any two steps of its
  parent: `LateResultIsTaken`, `BlocksOnlyForSender`, `NoOrphan`,
  `ExecutionEnds`, `ObedientChildEnds`.
* *Start-up and shutdown* of the service with requests in flight and a worker
  inside: `ShutdownIsOrderly`, `NothingHangs`, `AcceptedIsStored`.
* *Scopes* are checked on two ways, in the request and in the row found:
  `ScopeIsKept`. *Search* fuses two cut rankings: `SearchIsRanked`.
* *Migration 004* is no transaction, is repeatable, and runs beside a live
  service: `FinishedIsSound`, `RerunLeavesWork`, `MigrationFinishes`, and the
  finding `RecoverableIsKept`.

## 2. Modules

| Module | Stands for |
|---|---|
| `RunLifecycle` | abstract: what a client that polls a run may observe of its status and counters |
| `RunStore` | the queue: the tables and one atomic action per transaction, with worker code reduced to the leases it holds |
| `Transactions` | the same transactions, one SQL statement at a time, on several connections with row locks |
| `Worker` | the worker processes on top of `RunStore` |
| `LeaseClock` | one lease against the clock: heartbeats, doubt, recovery, in integer time |
| `ChildProcess` | one execution: the task, its child, the pipe, the clean-up |
| `SummaryOutbox` | the outbox, its delivery and the memories it leaves |
| `MemoryStore` | `memory_items` and the hybrid search |
| `Api` | start-up, shutdown and the handlers of the service, on top of `MemoryStore` |
| `Migration` | migration 004, statement by statement, and its neighbours |
| `RunStoreProofs`, `WorkerProofs`, `TransactionsProofs`, `LeaseClockProofs`, `SummaryOutboxProofs`, `ChildProcessProofs`, `ApiProofs`, `MigrationProofs` | theorems about the module of that name |
| `MCRunStore`, `MCTransactions`, `MCWorker`, `MCSummaryOutbox`, `MCApi` | symmetry sets and the values of constants for TLC |

`RunStore` is proved and checked to implement `RunLifecycle`
(`ImplementsLifecycle`). Two more detailed modules are proved and checked to
implement `RunStore`, from its two sides: `Transactions`, which says how the
database makes a call atomic (`ImplementsRunStore`, an `INSTANCE` whose event log
is the committed rows in the order of their numbers), and `Worker`, which says
which calls are made (`ImplementsStore`). `SummaryOutbox` begins where `RunStore` puts a
run's id into `outbox`; `ChildProcess` and `LeaseClock` look inside what is
`await` and a heartbeat in `Worker`; `Migration` produces the legacy rows
`RunStore` starts with. These stand by themselves.

### RunStore

`runs[r]` is the row of `rlm_runs`: status, attempts, max_attempts, worker_id
(`worker`), whether `completed_at` is set, the error, and `result`, the number
of the attempt whose answer is stored, so that the answer of an old attempt
cannot be mistaken for a newer one. `valid` says whether `decode_claimed_run`
accepts the row; a row may be born invalid, because the API accepts blanks that
the decoder rejects. `events[r]` is the log of `rlm_events` in sequence order,
`outbox` the keys of `rlm_summary_outbox`, and `leases` the `ClaimedRun` objects
that running worker code has in its hands. A lease stays when its row is taken
away: that is the stale worker.

Time is two flags. `due` is `available_at <= now()`, lowered by a retry and
raised by `BecomeDue`; `stale` says that the heartbeat is older than
`stale_seconds`, raised by `BecomeStale` whenever a row is running, since a live
worker may be slow for any length of time, and lowered by a heartbeat. The
lengths of delays are therefore not modelled here.

Every method is one action, because each transaction locks the row it is about
before it writes anything else. The choices in the actions are those of the
database: which due rows a claim finds and which of them are undecodable
(`poison`, quarantined on the way, at most `MaxQuarantined`), which stale rows a
recovery gets (`SKIP LOCKED`, at most `RecoveryBatch`). `ClaimLost` is a claim
whose answer never arrived. `recover_stale` raises, and rolls back, when a row of
its batch has invalid counters, so `RecoverStale` is enabled only for batches
without one; `Worker` has the raise.

### Worker

`worker[w]` is the state of one process: `pc` is where the cycle is, `hb` where
the heartbeat task is, `stop` how far a stop request has come, and the local
variables of the loop. A call of the store has two sides: its transaction and
its answer (`succeed`/`succeeded`, `record`/`recorded`), with a raise or a
cancellation possible before or after the transaction. The cycle's own calls
(recover, claim) commit and answer in one step, and `Committed` gives the effect
they may have had when they raised or were cancelled.

`DeliverStop` cancels the cycle at the await it has reached. `CancelOutcome` is
the `except asyncio.CancelledError` clause: the cancellation is swallowed when
`lease_lost` is set. The execution is the part of `pc` that is at `await`: the
child process is not modelled here, only that it returns, raises something
retryable or not, or is cancelled.

### SummaryOutbox

`items[r]` is the row of the outbox, `memories[r]` the rows of `memory_items`
with that `source_run_id` (each the embedding configuration it was computed
with) and `delivery[w]` what worker w is delivering and how far it is. Every
statement commits by itself. A claim expires (`BecomeStale`) whether or not its
worker is still at work; there is no heartbeat and no limit on attempts.

### Transactions

`tx[s]` is the open transaction of connection `s`: which method, which statement
comes next, and the versions of rows and events only it can see; `lock[r]` is the
row lock. A statement reads committed rows and its own, a wait is a guard that is
not yet true, `SKIP LOCKED` passes over locked rows, and `Commit` publishes
everything at once. `Rollback` may come between any two statements. A
completion whose WHERE clause does not hold writes nothing and is left out.

Assumed of the deployment: when a worker gives up a connection, its transaction
is over at the server before that worker's next claim or the end of its
`process_claim`. asyncpg cancels the query or terminates the connection, but a
server cut off by the network may notice later.

### ChildProcess

`pc` is where `_execute_claim` and `execute_rlm_subprocess` are; the task can be
cancelled only at the awaits in `Waiting`. `Cancel` may come once from each of
the timeout, a lost lease and a stop, and `Raised` is what `asyncio.timeout`
makes of that. The child writes its payload in two steps, so that `poll` can be
true for half a message; it may exit anywhere, and obey SIGTERM or not.
`ChildProcessExit` of the code is never raised here: the child's exit closes its
end of the pipe, so the second poll is true and `recv` raises `EOFError`, which
is treated alike. A child that survives SIGKILL by 5 seconds is left out.

### LeaseClock

`age` is counted by the database, `confirmed` by the worker from the moment an
answer arrived. A heartbeat's `UPDATE` may be applied at any moment of its call,
or not at all, and the call may raise after it. A claim stamps the row with
`now()`, the time of its `BEGIN`, and has statements to execute after that, so
the row has an `age` when the worker gets it (`ClockInit`).

The lengths of calls are counted in statements, each of which the pool's
`command_timeout` limits (`Statement`): `LongestHeartbeat` 1, `LongestReport` 4
(the transaction of `add_event`, which comes before the execution is cancelled),
`LongestClaim` 5 and 4 more for each row it quarantines first (`Unreadable`),
`LongestRecovery` 3 and 3 more for each row it recovers. Each call also waits for
a connection and gives it back, `Checkout`. The code sets no limit to that, so
`Checkout` is a limit the deployment has to have, whatever it is; every bound
below is one in terms of it.

The other worker is a poll loop (`watch`, `waited`, `since`): it looks at its
clock once per cycle (`Look`), a cycle takes up to `LongestCycle`, in which
`CycleWork` stands for whatever it claimed and executed, and the recovery is a
call that finds the row stale (`FindStale`) and returns later (`RecoverStale`).
It may pass the row over (`PassOver`: `SKIP LOCKED`, or a full batch) or raise
(`RecoveryRaises`: `last_recovery` keeps its value); `misses` counts both.

The heartbeat loop outlives the execution until `process_claim` has recorded the
result (`StopHeartbeat`). `Tick` never passes a moment at which somebody must
act: timers fire on time and the event loop is not blocked. Left out is a
heartbeat that the server applies after its call has raised; it would only make
the row younger.

### MemoryStore and Api

A memory is an id with a distance, a relevance and an importance, which are
constants; what varies is its scope, its expiry and its access counter. Searches
return any order the database may choose among ties. The LIMIT 50 of the keyword
ranking, which has no ORDER BY, is taken in rank order.

`Api` cuts each handler at its awaits. `phase` runs through `on_startup` with its
two failures, `on_shutdown` with the embedded worker and the two pools. `req[c]`
is the one request of client c: what it asked for, what it holds, what it was
answered. A key stands for a tenant or for one subject of it; the scope checks
are evaluated with subjects `compare_digest` refuses (`NonAscii`, status 500).
asyncpg is external: `close` waits for the connections that are out and does not
raise, `acquire` has no timeout and raises once a close has begun. Robyn is
external: requests may arrive in any phase. There is one namespace.

### Migration

`at` is the statement the session executes next; it may be cut off anywhere, in
the middle of an index build too (`Abort`), and `Stop` is a statement that fails.
Around it the old service inserts and finishes rows without a context column, a
service of an earlier version of 004 fills an outbox without embedding columns,
and, when a session has come to the end, the new API and workers go on. The old
service is not in the repository: its rows are known from what the migration does
with them. Every run's configuration is taken to have the fields `FillOutbox`
reads.

## 3. Runs

| Run | Configuration | Checks |
|---|---|---|
| `store` | `MCRunStore.cfg` | 2 runs, 2 workers, 2 attempts; the safety properties of the queue and `ImplementsLifecycle` |
| `transactions` | `MCTransactions.cfg` | 2 runs, one of them with a single attempt, 2 workers, 3 connections; event numbers, no deadlock, `ImplementsRunStore` |
| `worker` | `MCWorker.cfg` | 1 run, 2 workers of which one may stop or crash, batch of 2, one raising call; safety, `ImplementsStore`, `EveryRunEnds` |
| `worker_upgrade` | `MCWorkerUpgrade.cfg` | 1 run and one legacy row whose recovery raises, 2 raising calls; the failure count stays below its limit (`WorkerTypeOK`), `StopIsHonoured` |
| `child` | `MCChildProcess.cfg` | one execution, three sources of cancellation, both kinds of child |
| `clock` | `MCLeaseClock.cfg` | the default configuration in units of 30 s; a claim that quarantines one row first, a recovery that fails once or passes the row over |
| `outbox` | `MCSummaryOutbox.cfg` | 1 summary, 3 workers, 2 configurations, 3 raising calls; safety of delivery and `EverySummarySettles` |
| `api` | `MCApi.cfg` | 2 clients, 3 keys, pools of one connection, 2 ids of runs and 4 of memories |
| `migration` | `MCMigration.cfg` | 2 runs, cut off twice, run again once when finished |
| `worker_stop` | `MCWorkerStop.cfg` | violated: `NoClaimAfterStop` |
| `worker_legacy` | `MCWorkerLegacy.cfg` | violated: `StaleRunIsRecovered` |
| `migration_race` | `MCMigrationRace.cfg` | violated: `RecoverableIsKept` |

*Bounds.* Two attempts are enough for a first attempt, a retry and an exhausted
one. Two workers are enough for a lease that is taken away, and, because a
worker that let go may claim again, for an identity that meets its own older
row. Two runs in `store` and `transactions` let one transaction touch two rows
(quarantine beside a claim, a recovery of two); three connections let two wait
for a third. `MaxFaults` bounds the calls that raise; a poll loop fails at
`MaxPollFailures` in a row, and with one fault and a batch of two every error
path of `process_claim` is entered from every place. In `worker` one run is
enough, since workers compete for rows one by one; it does not contain a claim
that gives up at its limit of undecodable rows with another row due behind them,
which stays queued for the next poll. The failing poll cycles that
a single fault cannot produce come in `worker_upgrade`, where each recovery
raises. Three workers in `outbox` let a claim be taken over within a
configuration and bounce between two; one summary is enough, since its rows
never meet, and its liveness is checked for one because the order in which a
worker is given several (by `available_at`) is abstracted. In
`clock` the unit is 30 s, one statement and one heartbeat interval; the pause
of the poll loop, the grace of 10 s and the recovery minimum of 10 s are rounded
up to it, and `Checkout` is 60 s. One quarantined row makes the claim older than
a heartbeat can, and still leaves `RoomForOneFailure`; `MaxMisses` 1 gives a
round that fails and one that does not. The bounds of `StopsInTime` and
`RecoveredInTime` are reached to within a unit. In `api` one connection per pool and
two clients give a request that waits and one that holds; a cut at two rows
(`SearchDepth`) and four memories give rows that are in one ranking only. Two
aborts in `migration` let a session repair what the one before left and be cut
off itself.

Deadlock is not checked: in every model the system may come to rest with all
runs finished, all workers stopped, or all bounded faults spent; waiting for each
other is the subject of `HoldersNeverWait` and `NothingHangs`.

*Symmetry* is used only in runs without liveness properties (`store`,
`transactions`).

*Fairness.* A worker's cycle goes on by itself (`WF` on `CycleStep`): an
execution ends within its `timeout_s` (this is `ExecutionEnds` of
`ChildProcess`), a statement of the store within the pool's `command_timeout`, and
a connection is had at last (the code sets no limit to the wait for one). A stop
that was requested reaches the waiting `_poll_cycle_or_stop`. A delay passes, and
a row nobody refreshes becomes stale (a row that a live worker refreshes need
not). `SF` on `RecoveryFallsDue`: the recovery interval is a clock that is only
looked at between cycles, so a worker that polls forever sees it elapsed again
and again. No fairness is assumed for claims of one particular worker, for
heartbeats, faults, stops or crashes. `Reliable` workers are never stopped:
`EveryRunEnds` and `EverySummarySettles` need one.

In `SummaryOutbox` two assumptions are about speed: a worker that polls forever
is not always beaten to a due row (`SF` on the claims of reliable workers), and a
worker that delivers again and again is sometimes done before its claim is stale
(`SF` on its steps while it holds the row). The second is an assumption about the
deployment and not a fact of the code: `MemoryStore.write` has no timeout and a
delivery no heartbeat, so with an embedding that always takes longer than
`WORKER_STALE_SECONDS` two workers would take the summary from each other
forever.

In `ChildProcess` the parent goes on (`WF`), the timer fires although the task is
at an await only now and then (`SF` on that cancellation), a child does not stop
in the middle of a write and dies of a signal it cannot or does not ignore;
nothing else is assumed of the child or of `recall`. In `Api` start-up, shutdown
and every call of a request go on (`WF`), an embedded worker told to stop stops
(`StopIsHonoured` of `Worker`); nobody shuts down or asks unless they want to. In
`Migration` statements return and a migration that was cut off is run again.
`Transactions` and `LeaseClock` are checked for safety alone.

## 4. What is proved

For every set of runs and workers, every number of attempts, quarantines and
batch size, with legacy rows or without, `RunStoreProofs` proves:

| Theorem | Statement |
|---|---|
| `Invariance` | `Spec => []Inv` |
| `TypeCorrect` | `Spec => []TypeOK` |
| `FencingIsSound` | `Spec => []LeaseFencesAttempt` |
| `QueuedIsClaimable` | `Spec => []NoStrandedRun` |
| `FinishedIsWhole` | `Spec => []FinishedRowIsWhole` |
| `FinishedIsFinal` | `Spec => TerminalIsFinal` |
| `EventLogIsHistory` | `Spec => []EventLogTellsHistory` |
| `StoreImplementsLifecycle` | `Spec => ImplementsLifecycle` |
| `LostForGood` | `Spec => LossIsFinal` |
| `OneOwner` | `Spec => []SoleOwner` |
| `RunEndsOnce` | `Spec => []LogIsBounded` |

The only assumption is `StoreAssumption` on the constants: NULL is no worker,
the limits are positive, the legacy rows are rows.

*The inductive invariant.* `LeaseFencesAttempt` is not inductive: that a lease's
counters equal the row's whenever the worker ids agree holds because a claim by
the same worker is impossible while the lease exists. `Inv` therefore adds
`LeasesApart`, and `LeasesInv`: a lease has counters between 1 and max and
belongs to a row that was claimed at least that often. `RowsInv` ties status,
worker, counters, error and completion of a row together (a running row has an
owner and a started attempt, or neither, as legacy rows have; a queued one has
attempts left), and `OutboxInv` ties the outbox to the succeeded rows. Each action has a
lemma that it preserves `Inv`, built from lemmas about the row functions
(`Claimed`, `Quarantined`, `Unfinished`, `Succeeded`); the safety theorems follow
from `Inv`, the two about steps from `Inv` and the step lemmas.

*The event log.* `EventLogTellsHistory` speaks of the positions of a log that are
no reports of a lost lease, and of neighbours among them, so that no sequence has
to be filtered. Every operation that changes a row appends at most one event
(`AppendShape`); a report tells nothing (`ReportTells`); and an event that is told
may follow the last one told, because that one left the row in the status the
operation found it in (`EventTells`). Two parts of `Inv` carry this: a running row
is owned by its current attempt, so the event that ends an attempt has its number,
and a quarantined row never starts (`RejectedForGood`). Legacy rows have no log
from before the migration and are left out, as in the property.

*Consequences.* Three properties are stated beside their proofs and follow from
these invariants. `LossIsFinal`: `RowStep` lists what a step does to one row, and
the only new owner it knows is a worker without any lease, so a lease that has
lost its row never gets it back (`LossStep`). `SoleOwner`: two leases that own one
run have the same worker, hence are one (`LeasesApart`). `LogIsBounded`: the
starts of a log map one-to-one into its attempts (`StartsCounted`), and an event
told after a terminal one would make the next one after it follow it, which
`Follows` excludes (`NextTold` finds that next event in a well-founded order).

`WorkerProofs`, for any number of runs and workers, any batch and any number of
raising calls:

| Theorem | Statement |
|---|---|
| `WorkersInvariance` | `WorkerSpec => []WorkerInv` |
| `WorkersImplementStore` | `WorkerSpec => ImplementsStore` |
| `WorkerTypes` | `WorkerSpec => []WorkerTypeOK` |
| `WorkersKeepStore` | `WorkerSpec => [](` the invariants of `RunStoreProofs)` |
| `WorkersKeepPromises` | `WorkerSpec => TerminalIsFinal /\ LossIsFinal /\ ImplementsLifecycle` |
| `LostLeaseEnds` | `WorkerSpec => []LostLeaseStopsExecution` |
| `AttemptsEndRightly` | `WorkerSpec => AttemptEndsRightly` |
| `VerdictGivesUp` | `WorkerSpec => GivenUpOnlyByVerdict` |

`RunStore` lets a worker claim only when it holds no claim (`Idle`); `Worker` has
no such guard, and that it needs none is a matter of places: `HandsInv` says that
outside `process_claim` a worker holds no lease. It is kept because a claim is
left only by `Close` or by the end of the process, which take the one lease the
worker has (`LeasesApart`, from the invariant of the store), and because a
cancellation inside `process_claim` still goes through its finally clause. With
`ImplementsStore` every theorem about `RunStore` is one about the workers, as
`WorkersKeepStore` and `WorkersKeepPromises` say.

`AttemptEndsRightly` says who takes a run out of 'running'. Every step of the workers
is one of a few transactions or the answer of a claim (`WhoWritesRuns`); of the
transactions only a recovery ends an attempt, and then of a stale row
(`OthersEndByRecovery`); an answer decides nothing but the attempt of the lease it
answers for (`AnswersDecide`, from the fencing). `GivenUpOnlyByVerdict` follows from
the same lemmas: a recovery requeues an attempt that has a successor.

`TransactionsProofs`, for any finite number of runs and any number of workers and
connections:

| Theorem | Statement |
|---|---|
| `Numbered` | `TxSpec => []Inv` |
| `EventNumbersNeverCollide` | `TxSpec => []EventNumbersUnique` |
| `TransactionsStaySound` | `TxSpec => []TxInv` |
| `TransactionsImplementRunStore` | `TxSpec => ImplementsRunStore` |
| `CommittedTablesAreSafe` | `TxSpec => [](` the invariants of `RunStoreProofs)`, read at the commits |
| `CommitsKeepPromises` | `TxSpec => TerminalIsFinal /\ LossIsFinal /\ ImplementsLifecycle`, from commit to commit |
| `HoldersGoOn` | `TxSpec => []HoldersReady` |

*Event numbers.* That two uncommitted sets of numbers are disjoint is not
inductive. `Inv` adds `Holding` (a transaction has events of a run only under the
lock of its row) and `Numbering` (the committed events, and those with one
transaction's on top, are numbered 1, 2, ... without holes); the heart is the lemma
that the maximum plus one keeps such a set so.

*The refinement.* The refinement mapping sorts the committed events by their
numbers (`InOrder`); `Numbering` makes the result a sequence, and a COMMIT that adds
number n + 1 append to it. Every statement but the COMMIT leaves the tables alone
and is a stutter. The COMMIT is the operation of `RunStore`, and its guards were
tested by earlier statements, when other transactions could still change what they
read. `SessionInv` says for each method what is still true of it: the row a
transaction has written is the one `RunStore` would write now (`Keeps`: a locked row
only ages), its events are the ones it will append, the rows a recovery has still
to update are stale and locked. `Rivals` adds that no two open claims are for the
same worker, so that the lease a COMMIT hands out is the worker's only one. `TxInv`
contains the invariant of `RunStoreProofs`, taken over by the same mapping (`SP`), and
everything proved of `RunStore` holds of the interleaved statements
(`CommittedTablesAreSafe`, `CommitsKeepPromises`).

*No deadlock.* `HoldersNeverWait` says with `ENABLED` that a session that holds a
lock can go on. `HoldersReady` is the same with the guards of the statements spelled
out, and is proved from the converse of `Keeps`: a transaction holds only the locks
of rows it has written or selected (`LocksInv`), so the rows it will lock next are
its own already, or a claim passes over them.

The assumptions (`SessionAssumption`) are those of `RunStore`, and that a table has
finitely many rows: the `SELECT` of a recovery takes the smaller of its limit and
their number.

`LeaseClockProofs`, for every value of the intervals and timeouts:

| Theorem | Statement |
|---|---|
| `ClocksAreBounded` | `ClockSpec => []ClockInv` |
| `FailureIsTolerated` | `RoomForOneFailure => (ClockSpec => []OneFailureIsTolerated)` |
| `HealthyRunIsKept` | `RoomForOneFailure => (ClockSpec => []KeptWhileHealthy)` |
| `ExecutionStopsInTime` | `ClockSpec => []StopsInTime` |
| `DeadWorkerIsNoticed` | `LongestClaim <= StaleSeconds => (ClockSpec => []RecoveredInTime)` |

`ClockInv` bounds each clock in each phase of the heartbeat loop, separately for
no and for one failed heartbeat (`Paced`, `Doubt`, `Fresh`, `Kept`), and the age
of a row that is not recovered by where the other worker is in its cycle
(`Watched`). `Watched` is needed because nothing ties the look of the other
worker to the moment the row becomes stale: a look may come just before it, and
the next one a whole round later (`Round`: the interval or the recovery,
whichever is longer, a cycle, and the recovery), and each miss costs one more.
Its hypothesis says that a claim is answered before its row is stale.

`RoomForOneFailure` is the condition on `WORKER_STALE_SECONDS` the code does not
check: the longest claim, two heartbeat intervals and two heartbeat calls. With
the default 600 s, q rows quarantined by the claim and a wait of C seconds for a
connection it reads `600 >= 270 + 120 q + 3 C`: C may be 110 s for q = 0, 70 s
for q = 1, 30 s for q = 2, and with three quarantines at full length there is no
room. `LongestDoubt` is `720 + 2 C` s by default (0.9 of 600, a pause, a heartbeat
and a report): on a slow database an execution outlives the stale deadline, and
it is the WHERE clauses of the completions that protect the row
(`LeaseFencesAttempt` and `TerminalIsFinal` of `RunStore`).

`SummaryOutboxProofs`, for any number of runs, workers and configurations:

| Theorem | Statement |
|---|---|
| `DeliveryInvariance` | `OutboxSpec => []OutboxInv` |
| `OutboxTypes` | `OutboxSpec => []OutboxTypeOK` |
| `OneMemory` | `OutboxSpec => []OneMemoryPerRun` |
| `NothingIsForgotten` | `OutboxSpec => []DeliveredIsRemembered` |
| `HolderSettles` | `OutboxSpec => OnlyHolderSettles` |

A worker that lost its claim may still write or complete; `OutboxInv` says what a
worker at each stage knows of its row whoever holds it (`WorkInv`), and what a
row says about its memories (`ItemInv`).

`ChildProcessProofs`, of an execution (there are no constants):

| Theorem | Statement |
|---|---|
| `ChildInvariance` | `ChildSpec => []ChildInv` |
| `ResultIsTaken` | `ChildSpec => []LateResultIsTaken` |
| `RecvIsBrief` | `ChildSpec => []BlocksOnlyForSender` |
| `OrphansAreSignalled` | `ChildSpec => []NoOrphan` |
| `ExitIsReadable` | `ChildSpec => [](pc = "poll_again" => Readable)` |
| `OutcomesAreExplained` | `ChildSpec => []OutcomeIsExplained` |

TLC sees every state of this module; the proof says why. The parent looks at the
pipe and at `is_alive` at different moments and the child moves in between. `Seen`
says what each place of the parent knows, and it lasts because the exit of a child
is final and what it has sent stays sent; `Told` says that behind `close` a living
child has been signalled. `ExitIsReadable` is why `ChildProcessExit` never occurs. `OutcomeIsExplained` ties
what the worker classifies to what happened: who cancelled, that an answer came
whole, and that whoever reports the end of a child has seen it gone. It is inductive
with `Reasons`: the body ends once and the clean-up keeps what it ended with.

`ApiProofs`, for any number of clients, keys, tenants, subjects, runs, memories
and connections:

| Theorem | Statement |
|---|---|
| `ServiceInvariance` | `ApiSpec => []ApiInv` |
| `ScopesAreKept` | `ApiSpec => []ScopeIsKept` |
| `AcceptedIsKept` | `ApiSpec => []AcceptedIsStored` |
| `ServiceOrder` | `ApiSpec => []OrderInv` |
| `ShutdownOrder` | `ApiSpec => []ShutdownIsOrderly` |
| `ApiTypes` | `ApiSpec => []ApiTypeOK` |
| `SearchIsFair` | `ApiSpec => SearchIsRanked` |

From its check to its end a request carries a scope its key is allowed (`Good`);
rows are only added, under ids nobody has, and never change their scope
(`Grown`), so what a request knows of its row outlives what the others do, and
two requests never claim one row (`Apart`). For the shutdown `OrderInv` adds
how far the pools are in each phase and that nobody waits before the stores are
set. `ApiTypeOK` bounds the connections in use and the access counter of a memory, which
is not inductive: `CountInv` bounds the counter by the number of searches that have
got past their UPDATE, a number that grows with each counting and never shrinks.

`SearchIsFair` is about `search_memories`, whatever order the database gives to ties.
`Top` says what a ranking that was cut still guarantees: no row of it has one that is
preferred by its key missing or behind it. With both rankings so, each term of the
preferred row's score is at least as large and one is larger (`TermsCompare`), hence
the sum under its factor (`SumsCompare`, on exact fractions), and the final LIMIT
keeps the order (`LimitedKeepsOrder`).

The proofs assume that a credential names a
tenant (`config.py` refuses others), that ids and scopes differ from `NULL`, that
there are finitely many clients, and that the memories at the start are rows whose
counters start at 0 (`ApiAssumption`, `MemoryAssumption`).

`MigrationProofs`, for any number of runs, cut-off sessions and repetitions:

| Theorem | Statement |
|---|---|
| `MigrationInvariance` | `MigrationSpec => []MigrationInv` |
| `MigrationTypes` | `MigrationSpec => []MigrationTypeOK` |
| `FinishedSchemaIsSound` | `MigrationSpec => []FinishedIsSound` |
| `RerunIsHarmless` | `MigrationSpec => RerunLeavesWork` |

`FinishedIsSound` says nothing of a session on its way, so `MigrationInv` says
what one knows once it is past each statement: the constraint that makes the
old service's rows impossible, and that past `drop_invalid` an index that is
invalid is the one being built.

*Only model-checked.* All liveness properties (`EveryRunEnds`, `StopIsHonoured`,
`EverySummarySettles`, `ExecutionEnds`, `ObedientChildEnds`, `NothingHangs`,
`MigrationFinishes`), and `HoldersNeverWait` in its own words: fairness and `ENABLED`
are out of the prover's reach. `HoldersReady` is what is proved of the latter. Every
other property of the runs that pass is proved, for all values of the constants.

## 5. Findings

1. *A legacy running row blocks recovery* (`worker_legacy`). Migration 004 keeps
   running rows whose context it recovers, with `attempts = 0`. When such a row
   is stale, `failure_status` raises in `recover_stale`, the whole batch rolls
   back and the cycle ends before it claims anything; the worker exits after
   `WORKER_MAX_POLL_FAILURES` cycles.
2. *A stop can be swallowed* (`worker_stop`). `process_claim` swallows any
   cancellation once `lease_lost` is set, and the heartbeat loop sets it also
   when the worker's own `succeed` has committed; with a batch larger than 1 the
   worker then claims and executes further runs before it stops.
3. *The migration fails a recoverable run* (`migration_race`). A queued run the
   old service inserts between the statement that recovers contexts and the one
   that fails rows without a context is failed, although its context is in its
   `corpus_ref`.

Seen and not stated as a finding:

* A heartbeat between the commit and the answer of `succeed` writes a
  `worker_lease_lost` event to the log of a run that has just succeeded.
* The README says recovery "safely requeues" an interrupted lease; an
  interrupted last attempt is failed, since the claim pays for the attempt.
* `WORKER_STALE_SECONDS` below 270 s (with the other defaults, and more for slow
  connections and quarantined rows) has no room for one failed heartbeat on a slow
  database, and a healthy run may be recovered; `config.py` takes any positive
  number. A claim that quarantines several rows slowly is enough at the default.
* `add_event` of `worker_lease_lost` comes before the execution is cancelled: a
  slow database delays the cancellation by the report.
* A timeout or cancellation that arrives in the clean-up of a child discards a
  result that was already received, and cut short twice it leaves a child that
  ignores SIGTERM (`NoOrphan` says exactly when).
* A subject that is not ASCII makes `compare_digest` raise and the request end
  with 500 instead of 403.

## 6. Not modelled

* Configuration parsing beyond credentials, logging and packaging keep no state.
  The comparison of keys in `authenticate` is one outcome of `Arrive`.
* What happens inside the child (DSPy, its sandbox, its limits on iterations) and
  what language and embedding models compute: third-party code without state
  that the rest of the system sees.
* The lengths of retry delays (1, 2, 4, ... 300 s): `due` says whether one has
  passed. `LeaseClock` has the intervals that race each other.
* A worker and its child at a power failure: the child's fate is not known to
  any code of the repository.
* Tenants with characters that are not ASCII (subjects with them are in `Api`).
* Migrations 001 to 003, run once on an empty database; their schema is in the
  models that use it.
