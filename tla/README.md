# RowForge: a verification project

RowForge runs user-written *handlers* (child processes that speak JSON lines over
stdio) over the rows of a CSV or JSONL file, and records one *outcome* per row. A file
and a handler make an *execution*; each run of it is an *attempt*, which writes an
append-only `outcomes.jsonl`. A later attempt can skip the rows already attempted, or
retry those that failed; the state of a row is derived from all the logs. A command
line (`rowforge-cli`) and a desktop application (`rowforge-studio-core`, behind Tauri)
work on the same workspace: one sqlite file and one directory per execution.

This directory holds a TLA+ model of the parts of it that carry its logic, the TLC
runs that check it on small instances, and proofs checked by TLAPS. Source paths are
relative to `src/`.

1. Inventory
2. Modules and how they correspond to the code
3. Runs, bounds, fairness
4. Proofs
5. What the checks found in the code
6. Abstractions, and what is not modelled
7. Plan

## 1. Inventory

### Components

| component | state | operations | what makes it correct |
|---|---|---|---|
| **Streaming pool** `rowforge-core/src/pool_streaming.rs` | spawned workers, the two channels, the shared cancellation token, the report | `run_pool_streaming`: spawn workers, start reader / accumulator / workers / monitor, join them, wake the monitor, classify the end | it returns, whatever handlers do; the report says truly how it ended; only failures leave a handler behind; the log is final when it returns |
| **Reader** `reader.rs` | position in the input, rows emitted | filter by `skip_seqs` / `only_row_ids`, row limit, parse errors, cancel-aware send | exactly the due rows are sent, in order |
| **Accumulator** `accumulator.rs`, `runtime.rs` | the batch being built and its bytes | flush by count, by soft and hard byte cap; `ROW_TOO_LARGE`; final flush | no batch over a cap; no row lost or doubled around a flush |
| **Worker loop, handler protocol** `worker_loop.rs`, `worker.rs`, `protocol.rs` | in-flight batch, the handler process | pull, send, receive or time out by cancellation, synthesize crash and protocol outcomes, append, tear down with escalation | every batch pulled is recorded once, each answer at its own row |
| **Outcome log, stall monitor** `jsonl_writer.rs` | the file, a byte counter, the stall timer | append one line; poll the counter and cancel on no growth | a stuck run ends; the monitor's cancellation is not taken for the operator's |
| **Row resolution** `row_resolution.rs` | none (a fold over attempts and outcomes) | `compute_resolution`, `attempted_seqs`, `failed_seqs` | equal to the derivation in the data model; resolved rows stay so; the first success is canonical |
| **Execution store** `execution_store.rs` | sqlite rows of executions and attempts, the schema version, the directory of an execution | migrate, create, finish, set state, delete, active-attempt gate | an open store has its whole schema; no attempt without execution, no execution without snapshot; a closed attempt is not closed twice |
| **CLI attempt driver** `rowforge-cli/src/exec_cmd.rs` | a process's own view of the store | `exec run` with its skip policies, `set-state`, `delete` | skips what the policy says; closes what it created |
| **Studio run lifecycle** `rowforge-studio-core/src/run.rs`, `session.rs` | registry of sessions, `RunStatus`, subscriptions | `start_run`, the task behind it, `cancel`, `subscribe` | one pipeline per execution; sessions end; limits hold |
| **Studio core** `rowforge-studio-core/src/lib.rs`, `cache.rs` | an open workspace, list caches | `open` with its orphan scan, `start_exec`, `execution_delete`, lists | orphans are closed, live attempts' verdicts kept; no delete under a run; lists are recent |
| **Progress aggregator** `aggregator.rs` | counts, phase, `tick_seq`, broadcast channel | count outcomes, send phase changes, samples and ticks, stop | ticks in order; the last event counts everything; the channel closes |
| **Smoke runner** `smoke.rs`, `lib.rs` | one handler process, the smoke lock | load fixtures, build gate, handshake, a few rows with a timeout each, shutdown | ends; one handler at work at a time; an answer is recorded for its own row; what runs is what was saved |
| **Input streams** `input_stream.rs`, `csv_io.rs` | position, row numbers | open, check the required column, yield numbered rows; two counts of rows | a row has the same number in every attempt, and one that the count knows; an attempt hands out what it announced |
| **Re-run and export** `export.rs`, `failed.rs`, `row_history.rs`, `attempt_failed_row_ids` | files of an export; the cursor of a page; the failed rows a page keeps | export (strict or not), page through failures, history of a row, re-run the failures of an attempt | a re-run hands out failures of its source only; an export divides the rows, a strict one has an outcome of each; pages neither repeat nor omit; history and resolution agree |
| **Handler management** `handler.rs`, `build.rs` | directories under `handlers/`, the age of a binary | scaffold, import, fork, rename, delete, build | what runs is at least what was saved before the build gate |
| **Tauri shell, UI** `rowforge-studio/src-tauri/src/events.rs`, `ui/src/` | a forwarder per run; the reducer's run state, the page's queries | forward commands and events, bootstrap from a snapshot, reduce events | the forwarder ends; a page shows the end of its run |
| **SDKs, test handler** | handler side of the protocol | answer envelopes | one answer per envelope |

### Interactions

* Inside an attempt: `Reader → (bounded channel) → Accumulator → (bounded channel,
  shared receiver behind a mutex) → Workers → outcomes.jsonl`. Every task selects on
  one `CancellationToken`, which the operator, the stall monitor and the pool itself
  (to wake the monitor at the end) all fire.
* Between attempts: through the store and the logs. A Studio process has one in-memory
  session registry per open core; another process, or the core the same process opened
  before, shares only sqlite and the directories.
* From a run to its viewer: workers, run task, cancel and tick loop send on one
  broadcast channel (which drops its oldest when full); a forwarder in the Tauri shell
  emits what it receives; a page that is listening reduces it, and asks once for a
  snapshot to catch up with what it missed.
* Studio checks *store* then *registry* on the way into a run and into a delete,
  releasing the store's lock between the two. The command line checks neither.
* Through the logs: resolution, export, pages of failures and row history read files
  that attempts are still appending to.
* Through a handler's directory: Studio's page, the user's editor, builds, smoke tests
  and attempts share it, by a path that a rename moves; smoke tests exclude one
  another by a lock, and attempts by a look at the store.

### Behaviours that are hard

Concurrency (workers competing for a receiver, an answer racing a cancellation, a
monitor firing as the run ends, two processes on one sqlite file, statements of one
logical operation that are not one transaction, an export or a table read while the
log grows, builds and edits in one directory); failure (handlers that do not start,
die, hang, answer wrongly or twice; appends that fail; a process killed between two
statements, between the database and the disk, in a migration, or with half a line in
the log; a row that times out and is answered late); ordering (final flush, last
append before the report, attempts merged by start order; numbers of rows given by one
function and counted by two others); time (stall timeout, shutdown grace, the orphan
scan's "the log is old", the age of a binary, of a cached list); limits (channel
capacities, byte caps, row limit, workspace limit). `PROJECT.json` lists each at the
line where it bites, with the properties that would catch it going wrong; a note says
what a property leaves out.

## 2. Modules

### The streaming pool

| module | models |
|---|---|
| `Pipeline` | constants, assumption, shared variables, filter, append |
| `Reader`, `Accumulator`, `WorkerLoop`, `StallMonitor` | the steps of one task each |
| `Pool` | `run_pool_streaming`; composes the tasks, the operator and the fairness; all properties |
| `Attempt` | abstract specification: what one attempt promises of its rows |
| `PoolRefinement` | the mapping; `ImplementsAttempt` |
| `PoolInvariant` | the inductive invariants |
| `PoolProofs` | lemmas on the queues; types, rows, how an attempt ends |
| `DeliveryProofs` | the due rows, the survivor, the refinement step by step; what reaches a handler, and which answers reach which rows |
| `MCPool` | sizes and answers for TLC |

An action is what a task does between two points at which another can be seen to act:
an await, a channel operation, an append. The program counters `ppc`, `rpc`, `apc`,
`wpc`, `mpc` name these points. A row is its sequence number; a batch is a set of
rows, since each batch is built, sent and answered in ascending order. `rowQ` and
`jobQ` are the tokio channels with their capacities; `LockFree` is the mutex around
the shared receiver, held across `recv()`. A `biased select!` whose first arm is the
token becomes a guard `~cancel` on the other arms. `hstate`, `hin`, `hout` are the
handler process and its two pipes; a batch in `Clogging` does not fit the stdin pipe
of a handler that is not reading, and blocks its worker in the write. An `unready`
handler is one that `Worker::spawn` gave up: its child may live on, with no worker.

`written` is the log, a sequence of outcomes per row so that a duplicate would show.
`dropped`, `delivered` and `opCancel` are history variables: rows a task threw away,
rows written to some stdin, and whether the *operator* fired the token while it still
mattered.

The environment (`Faults`) may: refuse to start a handler, kill one, make it answer
wrongly or twice, fail an append, let the stall timeout pass, cancel softly or hard.
Which of these a run allows is in its cfg.

### Executions and attempts

| module | models |
|---|---|
| `Resolution` | `per_seq` / `apply_row_outcome`: the fold; `attempted_seqs`, `failed_seqs`; next to it a *reference derivation* from a row's whole history, after the table in the data model |
| `Executions` | `start_run`, the task it spawns, `exec run`, `exec set-state`, `open` with its orphan scan, `execution_delete`, crashes, at the grain of one sqlite statement |
| `FoldLemmas` | induction, and folds over sets and sequences, for any proof about data |
| `ExecutionProofs` | proofs |
| `MCExecutions` | which process makes which run |

A run's `pc` follows the code: `gated` (store gate passed), `reading` / `inserting`
(the two statements of `create_attempt`), `created`, `registered` (session in the
registry), `running` (the pipeline), `ended`, `finishing` / `bumping`
(`finish_attempt`: UPDATE, then a read of the execution's state, then its write),
`finished`, `done`. `Unlocked` is the mutex around a core's store: held from the first
to the last statement of such a block, by one core; another process has a connection
of its own and is not kept out. `Open` is `StudioCore::open` (again in one process if
`reopen` is on: the old core's runs go on in a registry the new core does not see).
`quiet` stands for the age of `outcomes.jsonl`: the world may at any time let a
running attempt's log become older than `ORPHAN_MTIME_THRESHOLD`; an append makes it
fresh.

The pipeline here is three facts about `Pool`: at most one outcome per due row
(`AtMostOnce`, `OnlyDueRowsTouched`), none after the report (`LogFinalAtReport`), and
an end (`Terminates`). The first lets `log` be a function from rows to outcomes; the
third is the fairness of `PipelineEnds`.

### A run as the Studio shows it

| module | models |
|---|---|
| `LiveRun` | the task `start_run` spawns, `cancel`, the aggregator with its tick loop and broadcast channel, the forwarder, the page; all properties |
| `LiveProofs` | proofs |

`tpc` follows the run task: `start`, `prepare` (`set_phase(Starting)` sent), `execute`
(`Started` received, the pool runs), `ended`, `announce` (`finish_attempt` returned),
`mark` (terminal event sent), `remove` (status written, tick loop told to stop),
`gone` (session removed from the registry). A panic of the pipeline leaves its workers
behind (`dispatching` stays true until `DetachedEnd`), because they are tasks of their
own. `cpc` follows one call of `cancel` through its four writes: status, phase, hard
flag, token. The session handle it holds keeps the aggregator, and with it the
channel, alive after the registry has let go; so do the run task, the tick loop and
the workers: `SenderGone` is the conjunction.

`chan` is `tokio::sync::broadcast` with one receiver, `lag` its `RecvError::Lagged`;
nobody hears what is sent before `Subscribe`. `Forward` is `forward_run_events`,
`app.emit` and the reducer of the page in one step. The page listens (`PageOpens`),
asks `run_snapshot` (`Asks`), and later handles the answer (`Answered`), each at its
own time, with events between. `Renders` is the effect of `AttemptDetail.tsx` that
fetches `attempt_show` again when a run is seen to have ended.

`logged` against `counts` is the append of an outcome against its report to the
aggregator. Workers report what they append; the accumulator does not report the rows
it refuses (`RowTooLarge`), so that `WorkersLogged`, the log without these, is what
the counts can reach. The pipeline is again three facts about `Pool`: its workers are
joined and the token has fired when it reports, and a hard flag makes the report
`aborted`.

### From an input file to an export

| module | models |
|---|---|
| `InputRows` | pure operators: `open_input`, the two iterators, `hash_and_count_rows`, `count_input_rows`, over files of classified lines |
| `Results` | attempts of the command line with a skip policy, and re-runs of failed rows from Studio, that read such a file and append to their logs; `export_execution`, `read_failed_page`, `row_history` beside them; all properties |
| `ResultsProofs` | proofs, of both |
| `MCResults` | fifteen files |

A file is its format, the kind of its line ends and a sequence of lines, each reduced
to what the code can tell (`blank`, `row`, `keyless`, `malformed`, `invalid`, `quote`,
and two of white space alone: `spaces` is a record in a file of one column, `gap` is
one with too few fields in a wider file). An iterator is a record (next line, next
number, the row which `JsonlInputStream::open` has already read); `yield_next` is its
step. In `Results` a row that is read gets its outcome at once, since the way it takes
to a handler is `Pool`'s; the log is a sequence of lines of up to `BatchRows`
outcomes, and `BeginLine` / `EndLine` are the two halves of an append, so that a
reader can meet a torn last line. An attempt may be cut short anywhere
(`AbortAttempt`: cancel, stall, or a dead process closed by an orphan scan). `ReRun`
is Studio's button: its rows are what the page read of an earlier attempt's log, at
any time since it was begun (`Kept`). `announced` is the total a run of Studio shows
from its start: what `count_input_rows` counts, or the size of the set a re-run was
given. `export_execution` is four actions: resolve, read the attempts again and check,
then one write per file, any of which may fail. `xpc` says where it is. The client's
pages are read one after the other from the `next_offset` of the one before.

### Handlers and smoke tests

| module | models |
|---|---|
| `Smoke` | `load_fixtures`, `run_smoke` and of `Worker` spawn, recv and shutdown, message by message, against a handler process that may do anything |
| `Handlers` | the directories under `handlers/` and what Studio, the editor, builds, attempts and smoke calls do in them; the call around `Smoke` with its gates, build and lock; all properties |
| `HandlerProofs` | proofs, of both |
| `MCHandlers` | fixtures and scenes |

A directory keeps its identity through a rename, a path does not: `at` maps names to
directories. Sources are versions, a binary is the version it was built from, and of
modification times one bit is kept, which is what `needs_build` compares: whether a
source *that the gate looks at* is newer than the binary. `max_source_mtime` looks at
files at the top of the directory with a listed extension; a save of any other source
changes the version and not the bit. A process is started from the binary that is
there (`SmokeStart`, `StartRun`), by path. Studio's synchronous commands run on the
main thread, one after the other (`op`); copies and removals go file by file. `misled`
records the directories in which a source that changed does not show: a save the gate
does not look at, a save during a build, a stale binary copied after its source.

A process boots, is ready, takes rows from `hin`, answers, prints lines that are no
message, dies or hangs; the runner's time-outs may fire whenever the line it waits for
is not there. A runner that gives up a handler before it was ready drops it: its input
is closed and nobody kills it. The runner's writes have no time-out (`Blocks`): that
of a row in `Clogging`, which is larger than the pipe, and that of the shutdown
message behind an unread row in `Brimming`, which fits but leaves no room.

### The workspace on disk

| module | models |
|---|---|
| `Workspace` | `ExecutionStore::open` and `migrate` statement by statement; `create_execution` and `execution_delete` step by step in database and directory; the cached list of executions; crashes and i/o errors; all properties |
| `WorkspaceProofs` | proofs |
| `MCWorkspace` | scenes |

`schema` is the set of tables and columns, `version` the row of `schema_version`;
statements commit one by one. `disk[e]` is what the directory of `e` holds, `job[p]`
the command a process is at. `same[p]` says that the database *file* still has the
mtime the cached list was put with: in WAL mode a commit does not change it, a
checkpoint does.

## 3. Runs

Passing runs:

| run | instance | states | what it shows |
|---|---|---|---|
| `PoolRow` | row mode, 3 rows, 2 workers, both capacities 1; faults: spawn, crash, io, stall, soft, hard | 3.2 M | `AnswersMatchRows`, `OneSurvivorSuffices`, `OperatorCancelIsReal`, `OnlyFailuresLeaveHandlers`, `LogFinalAtReport` under every fault but a handler that misbehaves |
| `PoolBatch` | batches of 2, 7 rows of sizes 1, 9 (over the hard cap), 3, 1...; one parse error, one skipped, row limit 4; 2 workers; faults: io, protocol, echo, soft, stall | 320 k | the caps (`BatchWithinCaps`), the filter (`OnlyDueRowsTouched`), `TooLargeNeverDelivered`, `RowsConserved` and `AtMostOnce` with wrong and doubled answers, and `ImplementsAttempt` |
| `PoolLive` | stateful (one worker), 5 rows, batches of 2, `only_row_ids` over a skip set; faults: crash, stall, soft, hard | 38 k | `Terminates`, cancelled or not; `StatefulInOrder`; and `EveryDueRowRecorded`: if nobody cancels, stalls or dies, every due row gets its outcome |
| `ExecSerial` | one window that makes one call at a time, a second process that opens the workspace and marks orphans; 2 runs, 1 row, crashes, slow runs | 192 k | the two gates together give `OneRunPerExecution`, and what depends on it: `SkipHonoured`, `CanonicalIsStable`; and `RunsAreClosed`: a run ends with its session removed and its attempt closed |
| `ExecShared` | a Studio that is reopened and the command line; overlapping calls, deletes, state changes, crashes | 744 k | what holds though nothing serialises them: `FoldIsDerivation`, `AttemptsHaveAnExecution`, `VerdictIsFinal`, `ResolvedIsAbsorbing` |
| `LiveRun` | one row, two ticks, two calls of cancel, a channel of two, every fault, no page, rows too large | 813 k | `TicksInOrder`, `FinalReportIsComplete`, `PersistedBeforeAnnounced`, `ForceKillIsRecorded`; `ForwardersEnd`: the channel closes, whatever is still in flight |
| `LiveWatch` | no rows, one tick, one cancel, a channel of three, a page; faults: panic, persist | 446 k | `WatcherSettles`: a page that was there in time, or came after the end, shows the end and stays with it |
| `Results` | 15 files, two attempts with any policy each, the second also a re-run, lines of up to 2 outcomes, pages of one, exports in each format, strict or not | 3.9 M | `NumbersNameRows`: one number per row in every attempt, one the count knows, and no more rows than announced; `RetryHandsOutFailures`; `ExportIsComplete`; `HistoryIsResolution`; `PagesFollowTheLog` |
| `Handlers` | three scenes: two smoke calls that talk to their handlers in full; a call, an attempt and a builder with one operation and one edit; a call with two operations and one edit; row 2 larger than the pipe, row 1 filling it | 572 k | `SmokeAnswersMatch`, `OneHandlerAtWork`, `RunsWhatWasSaved`; `SmokeCallsEnd`, under fairness of the runner alone, unless one blocks in a write |
| `Workspace` | one Studio and one command line; scenes: a store of every version from none to one that is too new, with crashes and i/o errors; two executions with the same; one execution, no faults, four ticks | 330 k | `OpenMeansWhole`, `RowsAreBacked`, `ListsAreRecent` |

The runs that end in a counterexample (`PoolUnaccounted`, `ExecDeleted`) are in
section 5. `TypeOK` of `Pool` and of `LiveRun` is proved, not run.

**Bounds.** `NumRows`, `NumWorkers`, `RowCap` and `JobCap` bound the pipeline: with
capacities of one, three rows fill queue, accumulator and channel while each worker
holds a batch, so that each task is seen blocked on each neighbour; two workers give
every race between siblings (workers are interchangeable). Seven rows in `PoolBatch`
are the fewest with a parse error, a skipped row, an oversized row in the middle of a
batch, a batch cut by bytes, one cut by count, and rows beyond the row limit. In
`Executions`, `Runs` (two attempts), `Rows` (one: resolution is per row) and
`MaxCores` (opens of a core) are the bounds; two attempts are enough for every race of
two, and a third open lets an orphan scan meet a run that follows a crash. In
`LiveRun`, `MaxRows`, `MaxTicks`, `MaxCancels`, `ChanCap` and `Watched` are the
bounds: one outcome that is appended and not yet counted is all that can be missing
from a final count; a tick can be held across the terminal event and a second one sent
behind it; two cancels are a soft one and a hard one in either order, one of them
late; a channel of two overflows after three sends, and one of three with a tick, a
phase and an end in it still lags. The page multiplies the states, hence two runs. In
`Results`, the files are the shortest that have each kind of line first, between rows
and last; two attempts are enough for one to meet the log of another that ended well,
was cut short or left a torn line, and for an export or page to fall between any two
of their steps; three rows in lines of two give a line cut and a page boundary inside
one. In `Handlers`, `MaxDirs` (2), `MaxChatter` (one line that is no message per
process), `RowLimit` (2), `Calls` (2), `Clogging` ({2}), `Brimming` ({1}) and the
scenes are bounds: a call can block in a row and in its shutdown, or get through both;
with two directories and two names, a fork, or a delete and a new scaffold, or a
rename, can come between a gate and the start it guards, and a second call waits for
the lock of the first on every path. A scene bounds together what may happen in one
behaviour, so that the product of everything with everything is not explored. In
`Workspace`, one process of each kind is enough for two migrations, two deletions or a
creation and a deletion to overlap; `TTL` and `WalkMax` are one tick, and four ticks
let a list be read, put, served and run out; `Name` gives both executions one name. No
state constraint is used and no symmetry. Deadlock is checked in every pool run; the
pool has a stuttering step once it is `done`, and nowhere else. In the other runs it
is off: when all is over, the workspace simply rests.

**Fairness.** `Pool!FairSpec` is weak fairness of each tokio task (reader,
accumulator, each worker, monitor, the pool itself): the runtime polls a task that has
been woken. Nothing is assumed of handlers (they may hang or die) and of the operator.
A write to a handler that must be reading to take it (a batch in `Clogging`) is not
fair, since it is the handler's move; the runs have no such batch (section 5 says what
one does). `Terminates` rests on the stall monitor: its tick on an expired timer is
part of the monitor's fairness, which the code justifies by a timer that always fires.
`EveryDueRowRecorded` needs no fairness of the handlers: its premise is that nobody
cancels, crashes or stalls, and a handler that hangs is ended by the stall.
`Executions!FairSpec` is weak fairness of what a called run does by itself; the end of
its pipeline is `Pool`'s `Terminates`. Operators, crashes and the next `open` are not
fair, so an attempt whose process died may stay running for ever, and `RunsAreClosed`
excepts it. `LiveRun!Fairness` is weak fairness of the run task, a call of cancel
under way, the tick loop, the forwarder and the page's callbacks; calling cancel and
opening a page are free, and that a worker appends another outcome is not assumed.
`ForwardersEnd` needs the tick loop to come to its stop: MaxTicks stands for a loop
whose `select!` does not prefer the interval for ever, which tokio's random choice
gives with probability one.

`Handlers!Fairness` is weak fairness of the runner of a smoke call: its gate, its
build (a process the code waits for without a limit, and takes to end), its start when
the lock is free, its steps and time-outs. A write that waits for a live process to
read (`Blocks`) is not fair: it is the handler's move, and no time-out ends it.
Nothing is assumed of the handler, the page, the user. The lock is tokio's, which is
first come first served; weak fairness of each call is enough because no call takes it
twice.

**Mutants.** For each property of a passing run `PROJECT.json` names a definition and
a changed form of it (the operator just before it, commented "Mutant of"), under which
TLC refutes the property: a dropped guard, an early return, a session that is not
registered, an UPDATE without its WHERE.

## 4. Proofs

All for every value of the constants that satisfies the named assumptions: any number
of rows, workers, processes, executions, runs, any caps.

| theorem | module | states |
|---|---|---|
| `TypeCorrect` | `PoolProofs` | `Spec => []TypeOK`, capacities of both channels included |
| `RowConservation`, `OutcomeAtMostOnce` | `PoolProofs` | `RowsConserved`, `AtMostOnce` |
| `OperatorCancelOnlyByOperator`, `HandlersEnded`, `LogFinal` | `PoolProofs` | `OperatorCancelIsReal`, `OnlyFailuresLeaveHandlers`, `LogFinalAtReport` |
| `OversizeRefused`, `CapsRespected` | `DeliveryProofs` | `TooLargeNeverDelivered`, `BatchWithinCaps` |
| `AnswersReachTheirRows` | `DeliveryProofs` | `AnswersMatchRows`, if handlers do not echo rows they were not given (`"echo" \notin Faults`) |
| `StatefulOrder` | `DeliveryProofs` | `StatefulInOrder` |
| `DueRowsOnly`, `SurvivorRecordsAll` | `DeliveryProofs` | `OnlyDueRowsTouched`, `OneSurvivorSuffices` |
| `PipelineImplementsAttempt` | `DeliveryProofs` | `ImplementsAttempt`: the refinement |
| `AttemptsHaveExecutions`, `VerdictsAreFinal` | `ExecutionProofs` | `AttemptsHaveAnExecution`, `VerdictIsFinal` |
| `ResolutionDerives`, `ResolvedForGood` | `ExecutionProofs` | `FoldIsDerivation`, `ResolvedIsAbsorbing`, for any number of attempts |
| `OneRunInAWindow`, `SkipsAreHonoured`, `CanonicalForGood` | `ExecutionProofs` | `OneRunPerExecution`, `SkipHonoured`, `CanonicalIsStable`, in one window (`OneWindow(p)`) |
| `LiveTypeCorrect` | `LiveProofs` | `Spec => []TypeOK`, the capacity of the broadcast channel included |
| `ReportComplete`, `EndPersisted`, `ForceKillStored` | `LiveProofs` | `FinalReportIsComplete`, `PersistedBeforeAnnounced`, `ForceKillIsRecorded` |
| `TicksAreInOrder` | `LiveProofs` | `TicksInOrder` |
| `RowsAreNamed`, `RetriesAreDue` | `ResultsProofs` | `NumbersNameRows`, `RetryHandsOutFailures`, for any files, attempts and outcomes |
| `ExportsAreWhole` | `ResultsProofs` | `ExportIsComplete` |
| `PagesInOrder`, `HistoriesAgree` | `ResultsProofs` | `PagesFollowTheLog`, `HistoryIsResolution` |
| `SmokeAnswersTheirRows` | `HandlerProofs` | `SmokeAnswersMatch`, if a handler answers a row once and under its own number (`Answer` of `Smoke`) |
| `OneHandlerTalks` | `HandlerProofs` | `OneHandlerAtWork` |
| `SavedIsRun` | `HandlerProofs` | `RunsWhatWasSaved`, in directories whose times hide nothing from the gate (`misled`) |
| `SchemaIsWhole`, `RowsStayBacked`, `ListsStayRecent` | `WorkspaceProofs` | `OpenMeansWhole`, `RowsAreBacked`, `ListsAreRecent` |
| `OneDeletionWins` | `WorkspaceProofs` | `OneDeleterWins`: of any number of processes that delete an execution one reports it deleted, for good |

Assumptions: `PipelineAssumption` (what the constants of a run are),
`ResolutionAssumption`, `ExecutionsAssumption`, `LiveAssumption`, `SmokeAssumption`,
`HandlersAssumption`, `WorkspaceAssumption` and `ResultsAssumption`. Two theorems or
groups of them name a hypothesis more, the one under which the run that checks the
property has it too. `AnswersReachTheirRows` excludes handlers that answer under the
number of a row they were not given, since nothing in the code could tell; `PoolRow`
leaves the fault out. `SmokeAnswersTheirRows` has the like premise in its model:
`smoke.rs:188` takes the number of an answer unchecked, and the process of `Smoke`
answers a row it has read at most once and under its own number. `OneWindow(p)` says
that process `p` makes every run, its calls of `start_run` do not overlap and it opens
the workspace once in a life, which is how the page uses the core, and is so in
`ExecSerial`; other processes may open the workspace, scan it for orphans and delete.
Without it the properties are false: `ExecShared` has a second window and the command
line, and nothing serialises them.

Every invariant below was first checked by TLC on the runs' instances.

*The pool*

* **`RowInv`** strengthens `RowsConserved` and `AtMostOnce`, which are not inductive:
  that a row is in one place of the six counts says nothing of *two batches of the
  queue* sharing it, nor of two workers, nor of `taken` and `held`. `NoSharing` adds
  that; `OnePlace` restates the count as disjointness and a union, which provers can
  handle; `Phases` says when the accumulator's and a worker's hands must be empty,
  without which a step could overwrite a row they hold. Each step moves a set of rows
  from one place to another; lemmas at the head of `PoolProofs` say what `Append`,
  `Head` and `Tail` do to the set of elements. The count of `RowsConserved` follows
  from `OnePlace` by an exhaustive case split on the place, with the library's facts
  on cardinality.
* **`ControlInv`** relates who fired the token to where the pool is: once `cancel` is
  true it was the operator, or the monitor is `stalled`, or the pool is past its join.
  Only with this does a report of `operator_cancel` imply the operator. Its part on
  `unready` handlers says that there is at most one, of the last spawn, and that the
  attempt then ends as a failed startup. `WorkersJoined` once the pool is past the
  join makes the log final.
* **`SizeInv`** says that no oversized row is *on its way* (buffer, queue, worker) and
  that no worker decides on `too_large`.
* **`CapsInv`** adds to the caps that the batch being built is *not full*, and that
  what is held over a byte-cap flush is one row, where batches may have more: only so
  can it be pushed after the flush without a second look at the count. Bytes are sums
  over sets of rows, of any size; that they add up whatever the order is proved in
  `FoldLemmas`.
* **`AnswerInv`** says of a waiting worker that one batch is in the pipes of its
  handler: unread, answered, or lost with the handler (`InStep`). A worker that will
  read again has empty pipes; one that leaves its loop reads no more. A late answer
  can therefore meet no other batch.
* **`OrderInv`** puts the places a row goes through in order: whatever is further on
  is earlier in the input. For a stateful handler, of which there is one, `delivered`
  is the last of the places.
* **`LimitInv`** says that `emitted` is the number of rows sent and is still under the
  limit while a row is in the reader's hand. The count of `Due` is of selected rows
  and the code's of rows sent; the invariant identifies them.
* **`SurvivorInv`** says that, as long as nothing has stopped the attempt early
  (`Unstopped`), no task ends before the one that feeds it has ended and left its
  channel empty, but for a worker whose handler is dead (`Draining`). A handler that
  is `gone` (shut down, not dead) is then the witness that the channel ran dry.
* **`ImplementsAttempt`**: the initial states map to the initial state, and each
  action of `Pool` is mapped to the step of `Attempt` it is or to a stutter, along
  `RowInv`, `ControlInv` and `TokenInv`. The last says that the pool does not end
  before the token is set (a stall that comes later cancels nothing) and that a failed
  append is not forgotten.

*Executions*

* **`StoreInv`** says that an attempt in the store belongs to an execution in the
  store and has been created by the insert of its own run, so that the insert, which
  alone could revive a closed attempt, meets a row in state `none`. The foreign key is
  what keeps the insert of a run from outliving a delete.
* **`HistoryInv`** says that `started` lists each attempt once, in the order of their
  inserts, and that logs only grow. The fold over it is compared with the derivation
  by induction over its length, which needs the set of lengths for which the claim
  holds (`NatSetInduction`), since a theorem with an operator parameter cannot be
  used. `Summary` is the claim: the earliest success if there is one, else what the
  latest attempt that said anything classifies as. The fold passes over attempts that
  are not merged, as the loop of `compute_resolution` does.
* **`WindowInv(p)`** says that between the gates of a call and the insert or the
  registration nothing of the same execution has come in: what the gate on the store
  found out holds until the insert, what the gate on the registry found out until the
  session is there. An orphan scan may take a slow run for a dead one and close its
  attempt, after which only the gate on the registry refuses a second run.
* **`SerialInv`** says that of two attempts of one execution the earlier is over when
  the later is inserted, so that the skip set of the later is computed from a log that
  no longer grows. `SkipHonoured` follows, up to torn logs (`TornBefore`), and that no
  earlier success appears behind the canonical one.

*A run in Studio*

* **`EndInv`** says for each stage of the run task what must have happened.
  `FinalReportIsComplete` is not inductive: a row could still be appended after the
  event; `Recording` adds that after a report other than a panic no task of the
  pipeline is there and all that workers logged is counted. `ForceKillIsRecorded`
  needs `Firing`: a call that is about to fire a hard cancel has set the flag, and a
  token once fired keeps its author. `Truthful` is what the channel may hold at each
  stage; sends and receives keep it by one lemma each.
* **`TickInv`** puts the tick that is composed and not yet sent above those in the
  channel: a tick takes its number and its counts in one step, under the lock, and one
  loop takes them.

*From an input file to an export*

* **The walk.** `NumbersNameRows` is about rows handed out by different attempts, each
  with an iterator of its own. `Walk(file)` is the file read to its end: the iterator
  as opened and after each call of `yield_next`. By induction along it, line and
  number of what it yields both rise, and the number stays below the line by at least
  `Lag`: one, as numbers begin with 0, and for CSV the header line besides. Two rows
  of one walk with one number are therefore one line, and a number is below the number
  of line feeds, which is what the two counts count. The iterator of any attempt lies
  on the one walk of the file.
* **`RunInv`** is `TypeOK` and four parts. `InTurn`: attempts come one after the
  other, and one that has not begun has an empty log and handed out nothing.
  `ReadInOrder`: the iterator is on the walk, and what its attempt handed out came
  before it. `LoggedInOrder`: the outcomes an attempt has told, those of a torn line
  and of none included, rise in number, and each is of a row it handed out.
  `HandsOutDue`: whatever row was handed out was allowed when its attempt began, and
  so is every row the attempt at work does not skip; its skip set was computed from
  logs that are over, which by `Settles` (an ended attempt keeps its log and its
  state) still say the same.
* **`AnnounceInv`** is about the total that was announced. A re-run has a set of
  numbers and not a count (`Pledge`): each is of a row of the file, and of those
  behind the iterator all have been handed out, so that at the end (`WalkEnd`) all
  have. For other attempts numbers below the count bound the rows handed out, but for
  `Uncounted`.
* **`ExportInv`** says that what an export resolved is what its merged attempts' logs
  say *now* (`Settles` again), that each file written is `Written` from it, and that
  the summary stands last. That success and failed files divide the rows is a fact of
  `per_seq` (`Coherent`: resolved exactly with a canonical success, failing only with
  a failure on record), by induction over the outcomes. For a strict
  export, every row of the walk has a number below the count, the resolution has an
  entry for it which is not `NeverAttempted`, and that entry comes from an outcome in
  a merged log, hence from a row handed out under that number; `NumbersNameRows`
  makes it that row of the file.
* **`PageInv`** says that what is shown is the first part of the failures of the log
  and the cursor its length. A step only appends to what can be read of a log
  (`ParsedGrows`), and then the failures of it only grow at their end.
* **`HistoryIsResolution`** needs no invariant but `RunInv`: since a log has at most
  one outcome of a row (`LoggedInOrder`), what `read_outcome_for_seq` finds first is
  all that `apply_row_outcome` is given of it, and the two folds over the attempts go
  in step (`Agree`), by induction over them.
* **Folds.** `FoldLeft` is a recursion over places, defined with `CHOOSE`.
  `FoldLemmas` gives the step as a function (`Fold(H, base, s)`), so that no operator
  is a parameter of a lemma, and proves once what such a fold is at `<<>>` and at
  `Append`; `SeqInduction` is induction over sequences with a *set* for the claim.
  `ResultsProofs` begins with the folds of the model put in that form.

*Handlers and smoke tests*

* **`TalkInv`** is the lock step of a smoke call and its process: for each place of
  the runner, what can be in the two pipes (`Greeted`, `Between`, `Awaited`,
  `Settled`). Lines that are no message may be anywhere. A row that timed out ends the
  loop, so that a late answer is never read as that of the next row.
* **`LockInv`** says that a call which converses has the lock, and that the process of
  a call that failed has its input closed and empty, was never put a row, and so can
  only live on as it was. With `TalkInv`, which has every other process dead,
  `OneHandlerAtWork` follows.
* **`HandlerInv`** adds `DirInv`, what the one bit kept of the times tells (a binary
  that is not older than what the gate looks at was built from no earlier version,
  outside of `misled`), and `GateOk`: after a gate the binary is what the gate saw
  saved, or is being built by the party itself, or it has given up, or the directory
  is in `misled`. `Onward` says of every step that a source only gets newer, and a
  binary stays or is as new as its source, unless the directory is or comes to be in
  `misled`; it keeps `GateOk` through the steps of the others.

*The workspace*

* **`SchemaInv`** says what each process in the middle of a migration knows to be
  there: a statement it is at implies all before it (`Reached`), also when another
  process made them or cut its own migration off; the version is written by a process
  that is at the last statement, so that it implies everything. `OpenMeansWhole` says
  nothing of the processes that are not open yet and is not inductive.
* **`ExecInv`** says how far a creation and a deletion have got on disk, that no two
  creations and no creation and deletion are of one execution (an id is given out
  once), and that a deletion past its first step has taken the row away.
  **`ClaimInv`** adds that a claimed execution is gone, and `gone` is for good.
* **`ListInv`** says of a walk in progress that it is not over its bound and that its
  list is right for the moment it was read, and of a cached list that it is right for
  a moment at most a walk before it was put. A commit only adds moments at which an
  execution was there or was not, so what was right stays right.

**Only model-checked**: liveness and what needs `ENABLED` (`Terminates`,
`EveryDueRowRecorded`, `RunsAreClosed`, `ForwardersEnd`, `WatcherSettles`,
`SmokeCallsEnd`), which the installed provers do not do. Every other property of a
passing run has its theorem.

Proving changed the model in these places, none of which changes what a run explores.
`CASE` expressions with guards that overlap, of which TLC takes the first and the
semantics some one (`apply_row_outcome`, `FinishRead`, the end of a panicked run in
`LiveRun`), are `IF`s in the order of the code. The rows of a smoke call are the *set*
of the line numbers `load_fixtures` takes, since the runner uses how many there are
and puts them in order; and the fixture is picked by least precedence. Fixtures are
assumed to be files of known kinds of lines, and there to be at least one directory.
In `Results` an outcome has any number and not one from a given set, the folds are
over sequences and have names (`Flat`, `Failures`, `Ingest`, `ResolveIn`,
`HistoryIn`), and `Walk` is a function where it was a recursion.

## 5. What the checks found in the code

Each is a run whose one property is the sentence of a document or comment and whose
counterexample is what the code does. `PROJECT.json` quotes both.

* `PoolUnaccounted`: when every handler has died the batches in the channel get no
  outcome, in an attempt reported as completed (I6).
* `ExecDeleted`: `execution_delete` passes both gates while `start_run` is between
  `can_start` and the insert of its attempt, and so in neither the store nor the
  registry; the delete then goes on after the insert and the registration. The
  registry gate is documented to close this window.

Also seen while modelling, without a run:

*The pool*

* A soft cancel is reported as `aborted` only if it caught the accumulator in a flush
  (`pool_streaming.rs:503`); otherwise the attempt completes normally with rows
  missing, against the comment at line 110.
* A soft cancel records the row a live handler is working on as `WORKER_CRASH`
  (`worker_loop.rs:126`); `run.rs:556` and `docs/spec/studio/part-3-runtime.md:119`
  say that in-flight work finishes.
* A worker blocked on a full stdin pipe sees neither the token nor the hard flag
  (`worker_loop.rs:113` has no cancel arm, the flag is read after the loop), so that a
  hard cancel does not end the run (`part-3-runtime.md:155`). A nonempty `Clogging`
  shows it.
* After stdout has closed the worker pulls one more batch and records it as crashed,
  though no handler received it (I8).
* The first worker that fails to start aborts the whole attempt, where
  `docs/spec/cli/part-3-runtime.md` speaks of going on. A handler that does not get
  ready in time, or says something else first, is dropped without being killed
  (`worker.rs:169`, `191`; nothing sets `kill_on_drop`), as is that of a worker task
  that failed: `OnlyFailuresLeaveHandlers` excepts these two by name. The timeout is
  of each line read, where the comment at `worker.rs:163` speaks of the total; and
  stderr is only drained once it is ready.

*Executions*

* `finish_attempt` overwrites a `closed` or `abandoned` written between its read and
  its write; `create_attempt` inserts into an execution closed between its two.
* Nothing sets an execution to `settled`, which `part-2-model.md` calls automatic.
* A torn last line makes the resolution of an execution fail, after which Studio skips
  nothing (`SkipHonoured` is therefore stated for readable logs).
* A name that is taken is refused by a look at the list, in Studio only; two
  processes, or the command line, make executions of one name.

*A run in Studio*

* Every aborted report, of a stall, a worker error or a failed start, is announced as
  `user_cancelled`: `run.rs` asks the token, which the pool itself fires.
* A cancel that is late writes `cancelling` over the status of an ended session, and a
  phase after the terminal event, and the page goes back from its end to "cancelling"
  (`LateCancel` excepts it from `WatcherSettles`). A cancel that is early is hidden by
  `set_phase(Running)`.
* A page whose listener comes into effect after the terminal event, but whose snapshot
  is taken before the session is removed, or handles the snapshot's answer after the
  terminal event, stays on "running" (`InTime` excepts it); so may a page that
  attached before `run_start` had subscribed.
* A tick composed before the last outcome may arrive after the terminal event and set
  the counts back. The forwarder sends no last tick, which `part-6` of the Studio's
  spec has it do. A row that is too large is appended by the accumulator and never
  reported to the aggregator (`accumulator.rs:117`), so that the last counts are fewer
  than the stored ones: `FinalReportIsComplete` is of what the workers logged.
* `run_start` returns an error for a run that ended before it subscribed.
  `Session.status` is never `Running`.

*Files, logs, exports*

* The page of an attempt reads the failed rows when it is opened and never again
  (`ipc/queries.ts:83`: no refetch, and no call invalidates the key; the effect that
  refetches `attempt_show` at the end of a run leaves it alone). Studio opens the page
  when it starts a run, so that afterwards the button offers the failures there were
  then, often none; the design asks for an "accurate failed-row count"
  (`docs/superpowers/specs/2026-05-26-studio-plan-11-rerun-failed-design.md:227`).
  `Kept` has it, and no property is stated of what a re-run leaves out.
* A re-run takes the execution's last handler (`AttemptDetail.tsx:85`), where its
  dialog says "the same handler will be used as the source attempt"
  (`RerunFailedDialog.tsx:42`).
* `hash_and_count_rows` counts blank lines (its comment says non-empty ones), while
  `count_input_rows` does not and the iterators do in part: the execution then has row
  numbers that no row has, which stay `NeverAttempted` and make every strict export
  fail.
* `count_input_rows` trims each line (`run.rs:364`), where the CSV reader skips only
  empty ones: in a file of one column a line of spaces is a record, and an attempt
  hands out one row more than the total it announced (`Uncounted`; `NumbersNameRows`
  states the bound with these rows added).
* Both counts look for line feeds, and the CSV reader also takes a lone carriage
  return for a line end: such a file counts no rows, a strict export of it succeeds
  with nothing run, and `--retry-failed` runs its successes again (`NumbersNameRows`,
  `RetryHandsOutFailures` and `ExportIsComplete` are stated for line feeds).
* An export reads the attempts twice (`export.rs:500` and `502`). TLC finds no strict
  export that this lets through, since a row without an outcome refuses it as well; an
  attempt that was aborted between the two reads does refuse an export it has no part
  in.
* The history of a row takes an outcome of a kind it does not know for none.
* An I/O error that persists in a JSONL file makes its iterator yield errors for ever.

*Handlers and smoke tests*

* `needs_build` compares times, and of sources it looks only at files at the top of
  the directory with a listed extension (`build.rs:68`): a save of `src/main.rs`, of
  `internal/*.go` or of `go.mod` is not seen, and the old binary runs, in smoke tests
  and attempts of the command line. So it does after a save during a build, or a fork
  that copies a stale binary after its source. `RunsWhatWasSaved` excepts these
  directories (`misled`). `start_run` of Studio never builds.
* A smoke call writes a row (`smoke.rs:141`) and the shutdown message
  (`worker.rs:429`) outside any time-out: a handler that is ready and does not read
  holds the smoke lock for ever once its pipe is full, and every later call waits for
  it. `SmokeCallsEnd` excepts that (`Blocks`). In `run_smoke`, too, a handler that
  never got ready is left without a kill, and may live beside that of the next call;
  `OneHandlerAtWork` says that it never had a row.
* `has_active_attempt_for_handler_dir` goes by the path, so that a rename takes a
  handler in use out of its sight; the cache of build results goes by the name in the
  same way.
* A scaffold, import or fork that fails half way leaves a directory that blocks the
  name.

*The workspace*

* A migration is not a transaction: one that was cut off after its first statement can
  never be resumed (`ADD COLUMN` fails on the column that is there), and of two
  processes that migrate at once one fails (`execution_store.rs:236`).
* `create_execution` returns an error when only its manifest could not be written,
  although the execution is committed; directories of creations and deletions that
  were cut off stay for good.
* The cached list goes by the mtime of `executions.db`, which commits in WAL mode do
  not change, and nothing invalidates it: a change is not shown until the time to
  live, counted from the end of the walk, has passed
  (`docs/spec/studio/part-4-data.md:58` and `134` promise less). `ListsAreRecent`
  states what does hold.

## 6. Abstractions

Pool: the stall timer is "some tick after the first without growth". An append is
atomic and a failing one writes nothing (a torn line is in `Executions`, as the effect
of a crash). `shutdown` sends its envelope without blocking and the handler is gone at
its end; grandchildren holding the pipes are left out. The handshake is one step: a
handler is ready, or there is none, or it was given up and is `unready` (`Smoke` has
it line by line). Lines on stdout that are not of the protocol are skipped by the
worker and left out of `Pool` (and in `Smoke`). Worker panics are left out. The token
is always there, as both callers pass one. `hard` may be set with or without the
token. The order in which workers get the receiver's mutex is any, where tokio's is
first come first served. `handler_log.log` and the stderr drainers share no state with
rows.

Executions: a sqlite statement is atomic; the orphan scan is one step, as is the
transaction of a delete together with the removal of the directory (step by step in
`Workspace`). An append to a deleted log is not seen by anyone and left out. Each
execution exists at the start (`Workspace` has their creation); handler instances and
the last handler directory are left out. Of `cancel` and of `Drop`, only that a
pipeline may end at any time. The early error "no input snapshot" of `exec run` is
left out.

LiveRun: samples are left out (they take room in the channel as ticks do);
`Snapshotting` is shown as starting; counts are one number, the outcomes processed (as
are `logged` and `tooLarge`);
the snapshot of `set_phase` and its send are one step, as are reading the hard flag
and `finish_attempt`; the queue between Tauri and the webview is part of the
forwarder's delay; one run, one page, opened once; one call of cancel at a time, so
that the statements of two calls do not mix (each writes constants, in one order).

Results: an outcome is its row and kind; messages, codes and data are left out, and
with them the filter of a page by code. One attempt of the command line runs at a
time; Studio's attempts differ in their skip set only, which `Executions` has. Two
exports in one second share a directory; one export is modelled. Warnings of an export
and `meta.json` are wording. A file does not change after the snapshot was taken. The
handler of an attempt and the row limit are left out; the dialog of a re-run shows the
answer kept when it is confirmed and has no step of its own. A read that fails for
good (a disk error in the middle of a JSONL file, on which the iterator yields errors
for ever) is left out.

Smoke, Handlers: the content of rows and of manifests is left out, and the tail of
stderr with its reader; a message is whole (a line); the stdin pipe holds every row
that is not in `Clogging`, and `init`, which is short; a handler that finds no room
for what it prints hangs, as any may. A handler has a build command and a binary of
its own: the gate never builds one without a command, an interpreter or an absolute
path. A build is one step that ends well or not, with the binary written at its end.
Moving a directory is one step. The builder's `--force` and the button are one action.
A failure of a copy or a removal half way leaves what there is, and the command ends.
The case of names, and templates' text, are left out.

Workspace: the transaction of an insert or a delete is one step, as is an
`execute_batch` of several `CREATE TABLE` statements per table. Attempts only make a
delete refuse. Time passes in ticks while a list is walked. WAL and checkpoint are
external. The list's filter is unused in the code.

Not modelled: `rerun.rs` and the legacy run command; packing; the validation of a
manifest; settings; handler instances; the handler log, its subscription and its
files; the rollup stream of all runs; the SDKs (what they may answer is what handlers
answer here); and the components with status `not_modelled`, each with its reason in
`PROJECT.json`. The resolution's counts by error code and export records are left out:
data only.

## 7. Plan

Done: the pipeline and its abstract specification; executions, attempts and
resolution; a run's task, cancel, aggregator, forwarder and page; input files,
exports, pages, histories and re-runs; handlers, builds and smoke tests; the workspace
with its migrations, directories and list; and a theorem for each safety property that
a run checks.

Next, in this order:

1. An abstract specification of a run's events (start, progress, one end) that
   `LiveRun` implements for a watcher without lag.
2. The workspace limit with overlapping `start_run` calls, and the state of an
   execution closed between the two statements of `finish_attempt`, each in the place
   of a property another covers.
3. The subscription to the handler log and the rollup stream.
