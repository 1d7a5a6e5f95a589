# Verification of reliable-upload-kit

TLA+ specifications of the upload engine in `src/reliableupload/engine.go` and of
the MySQL repositories in `src/example/mysql_repo.go`, model-checked with TLC and,
where it matters most, proved with TLAPS. A reader needs the repository and this
directory; `PROJECT.json` maps every definition to the lines it models and lists
runs, mutants, hazards and theorems.

## 1. The system

The kit produces data files and delivers them to a remote side ("report"). All
state that outlives a call is in MySQL tables and in backup files; the engine
itself keeps nothing between calls. Several processes may run the same engine on
the same tables: the producer and the uploader are started by cron jobs, and
operators start tasks by hand.

| Component | State | Operations |
|---|---|---|
| batch uploader (`uploadPendingBatches`) | rows of `big_task_batch` / `biz_task_batch`, the instance row; local: claimed batches, `attempted`, `uploaded` | `RunBigUploader`, `RunBizUploader`, the tail of `RunBigTask`, `RunBizTask` |
| task instance lifecycle | instance row (`status`, `total_batches`, `uploaded_batches`, `total_records`) | `RunBigTask`, `RunBizTask`, `produceBig`, `produceBiz`, `OnStartup` (`resumeBig`, `resumeBiz`) |
| parallel production (`produceIndexedBatches`) | channels `jobs`, `results`, the reordering map, `firstErr` | one call: dispatcher, workers, caller |
| big and biz batch repositories | the tables | one SQL statement or transaction per call |
| minute production and backfill | rows of `uploadlog` | `RunProducer`, `ProduceForTask`, `ProduceCurrentWindowForTask`, `OnStartup` (`recoverMinuteGaps`) |
| minute uploader and `uploadlog` repository | rows of `uploadlog` | `RunMinuteUploader`, `UploadPendingForTask` |
| minute window arithmetic | none | `calcMinuteRange`, `minuteInterval` |
| bounded parallel runner | semaphore channel, error channel, wait group | `runInParallel` and its three variants; the phases of `RunUploader` and the two resumes of `OnStartup` |
| task configuration snapshot | a map behind a read-write lock, filled from `task_config` | load, reload every few seconds, get (a copy) |
| file naming, backup store | files | `fileName`, `Save`, `Read` |
| registry | two maps behind a lock | register, look up |
| meta JSON, biz context, types | none | conversions |
| schema set-up, example main | none | wiring |

How they interact. The uploader reads what production wrote, through the batch
rows only. An uploader run never waits for a production and a production never
waits for an uploader: they meet in the rows, and the only mutual exclusion is the
claim (`status = running`, `owner`, `claim_id`, `lease_until`), which is one UPDATE.
`produceIndexedBatches` is called by `produceBig` / `produceBiz` and creates the
rows from the calling goroutine only; its builders save the backup files, ahead of the
rows, and an uploader sends what the file a row points to holds at that moment. Every
entry point that works on several tasks hands them to `runInParallel`, one goroutine per
task behind a semaphore. A run copies the configuration of its task from a snapshot
that another goroutine replaces.

What is hard about it. Workers race for claims; a lease may run out while its
owner still works; a process may die between delivering and marking; the remote
side may have a file whose upload was reported as failed; `FinalizeInstance`
counts in one statement and writes in another; workers overwrite
`uploaded_batches` with private counters; a production that dies half way must be
resumed and must not be mistaken for a complete one; builders finish out of order
and fail; loops without a bound of their own must end; a file is written in place, while
others may read or write it; names are unique only as far as their parts are; the
configuration changes under the rows that are on their way; and every run computes its
window from its own reading of the clock.

What makes each component correct:

* batch uploader: no unexplained duplicate delivery; a settled batch stays settled;
  a published verdict is true; a counter never overstates; attempts are used up
  exactly; everything settles in the end.
* task instance: rows never have a gap; `total_batches` means complete; rows are
  never lost or reopened by a second producer; calling the task again repairs it.
* parallel production: same effect as the sequential loop; `nil` means all; no
  goroutine is left behind.
* minute tasks: every window is produced and uploaded, or failed; a window with only
  some of its rows is the trace of a failure; a backfill passes over no window; windows
  never overlap and are never produced before they are over.
* parallel runner: no more tasks at a time than the limit; one task's failure is its own
  and is reported; the call returns.
* backup files: every row has its file, and the file holds the data of its batch.

## 2. Modules

| Module | Stands for | Built on |
|---|---|---|
| `ClaimRows` | the rows and the claim protocol on them: the statements `ClaimPending*`, `MarkUploaded`, `MarkRetryOrFailed` that the repositories of `big_task_batch`, `biz_task_batch` and `uploadlog` share | |
| `Delivery` | what an uploader promises, without workers, claims, leases or retries | |
| `BatchUpload` | `uploadPendingBatches`, `FinalizeInstance`, `UpdateUploadedBatches`: the upload of one instance by any number of workers | `ClaimRows`; implements `Delivery` |
| `UploadProgress` | `BatchUpload` with the fairness of its scheduling | `BatchUpload` |
| `TaskInstance` | the life of one instance: `RunBigTask`/`RunBizTask`, production, `RunBigUploader`/`RunBizUploader`, `OnStartup` | `BatchUpload`, whose actions are its upload part; implements `InstanceLife` |
| `InstanceLife` | the life of an instance as its rows tell it, without workers, claims, cron jobs or restarts | |
| `TaskProgress` | `TaskInstance` with fairness | `TaskInstance` |
| `OrderedProduce` | the sequential production loop: the specification of the parallel one | |
| `IndexedProduce` | `produceIndexedBatches` with parallelism > 1 | implements `OrderedProduce` |
| `MinuteUpload` | `uploadMinute`, `UploadPendingForTask`, `uploadMinuteByTaskCode` | `ClaimRows`; implements `Delivery` |
| `MinuteProgress` | `MinuteUpload` with fairness | `MinuteUpload` |
| `MinuteWindow` | `calcMinuteRange`, `minuteInterval` | |
| `MinuteLog` | `produceRange`, `RunProducer`, `ProduceForTask`, `recoverMinuteGaps` | `MinuteWindow` |
| `ParallelRun` | one call of `RunUploader`, `RunProducer`, a single uploader or the two resumes of `OnStartup`, with several tasks and phases: `runInParallel` and its twins, `joinErrors` | |
| `BackupFiles` | `defaultFileNamer`, `uk_file_name`, `FSBackupStore.Save` and `Read` under several productions of one biz task | |
| `BatchUpload_proofs`, `TaskInstance_proofs`, `IndexedProduce_proofs`, `MinuteUpload_proofs`, `MinuteLog_proofs`, `ParallelRun_proofs`, `BackupFiles_proofs` | theorems | the modules they name; `TaskInstance_proofs` also on `BatchUpload_proofs` |
| `MCBatchUpload`, `MCTaskInstance`, `MCMinuteLog`, `MCBackupFiles` | the symmetry sets of the runs, and the data source of `MinuteLog` | |

How state and actions correspond to the code:

* **Rows.** `status`, `owner`, `lease`, `retry` are the columns `status`, `owner` with
  `claim_id`, `lease_until`, `retry_count`. A claim id is never reused and a worker
  claims again only with empty hands, so "the row carries my claim id" is "running,
  and last claimed by me" (`Holds`). `received` is the remote side, counted up to 2;
  `lapsed` is a history variable.
* **Time** is no number: a live lease may run out at any moment (`LeaseEnds`). This
  covers every lease length, retry interval, duration of an upload and clock skew.
* **Atomicity.** One SQL statement or transaction is one action. `FinalizeInstance` is a
  count and a write without a transaction: `FinalizeRead` and `FinalizeWrite`.
  `resumeBig` reads the instance first and counts later: `OnStartup` and `Resume`.
* **Two SQL details decide the retry limit.** `MarkRetryOrFailed` puts
  `retry_count = retry_count + 1` and two `CASE WHEN retry_count + 1 > MaxRetry` into one
  update map. GORM writes the columns of a map in alphabetical order and MySQL evaluates
  the assignments of an UPDATE from left to right on the changing row, so `lease_until`
  compares the old `retry_count` and `status` the incremented one. `SetRetryOrFailed` says
  so: `Spent(retry[b])` for the lease, `Spent(retry[b] + 1)` for the status.
  `MaxRetry = n` therefore means n attempts (one when n is 0): `Attempts`.
* **Failures.** `UploadFails` is any error of backup read, `BeforeUpload` or
  `Reporter.Upload`, with or without the file having arrived. `Crash`, `Stop` end a worker
  between any two of its actions: its process died, or a repository call returned an error
  before or after it took effect. Local variables are gone, rows stay.
* **Configuration.** In `MinuteUpload`, `config` is `max_retry` in the snapshot and `cfg`
  the copy a run took when it started. `Reload` changes it, also in the middle of a run;
  the run goes on with its copy, so that runs with different limits meet in the same rows.
  `Changes` bounds which changes reloads bring, `MaxRetry` is the largest value. In
  `BatchUpload` the limit is a constant. In `MinuteLog`
  the same two variables are `interval_minutes`: `RunProducer`, `ProduceCurrentWindowForTask`
  and `OnStartup` take their copy (`Begin`) before they read the clock, `recoverMinuteGaps`
  keeps it for its cutoff and its step, and `Reload` may change the snapshot at any moment.
  `Changes` bounds which changes the reloads bring.
* **Local variables.** `pc` is the place in the function, `todo` the rest of the claimed
  slice, `seen` the map `attempted`, `count` the counter `uploaded`, `found` what
  `batchCounts` returned.
* **Production** in `TaskInstance` is one index, `next`, because the rows are created by
  the calling goroutine in index order; that this is right when builders run in parallel
  is what `IndexedProduce` shows. `totalRecords` is the set of the batches that
  `SumBatchRecords` summed, not the sum.
* **Minute windows** are ranges of seconds since the epoch, computed as the code does from
  a reading of the clock, the delay and the interval. A producer takes its window at one
  moment and works on it later, whatever the clock shows by then; `recoverMinuteGaps` reads
  it twice (`OnStartup`, `ReadCutoff`). `CountChunks` is the data source, fixed per range.
  `broken` (ranges given up half way, or by a backfill) and `irregular` (a range was given
  that is no window, or the interval was changed) are history variables.
* **Phases and goroutines.** In `ParallelRun` the caller's `pc` goes through query, spawn,
  wait and join for each phase; `at[i]` is where the goroutine of item i is, `slots` and
  `errCh` are what the two channels hold. `fn` is a step that ends well or badly.
* **Files.** In `BackupFiles` a name is the second an instance started in and an index, all
  that `defaultFileNamer` makes of a biz batch within a day. `Truncate` and `Write` are the
  two halves of `os.WriteFile`, with `WriteSome` between them when two writers mix. A file
  holds the data of one instance, part of it, or a mixture.

Modules with a name ending in `_proofs` hold theorems; the definitions that a comment calls
a mutant are plausible bugs and are used by no specification. `PROJECT.json` names one for
every property of a passing run: with it in place of the definition behind it, TLC finds the
property violated.

## 3. Runs

| Run | Configuration | Question | Instance |
|---|---|---|---|
| `upload_continue` | `BatchUpload_continue` | do the uploader's promises hold in Continue mode, does every call end? | 2 workers, 2 batches, 2 attempts, claims of 1 |
| `upload_live` | `BatchUpload_live` | does everything settle in FailFast mode? | 2 workers, 2 batches, 1 attempt, claims of 2 |
| `upload_headroom` | `BatchUpload_headroom` | violation: is a batch failed only above `MaxRetry`? | 1 worker, 1 batch, `MaxRetry` 1 |
| `task_all` | `TaskInstance_all` | what holds when all entry points meet in one instance; which life do its rows live? | 2 workers, 2 batches, 1 attempt |
| `task_live_one` | `TaskInstance_live_one` | does calling the task again repair a production cut short, with retries; does the claim loop end? | 1 worker, 2 batches, 2 attempts, Continue |
| `task_startup` | `TaskInstance_startup` | violation: is a closed instance complete after `OnStartup`? | 1 worker, 2 batches |
| `produce_parallel` | `IndexedProduce` | is the pipeline the sequential loop, does it end? | indexes 2..6, 2 builders |
| `minute_upload` | `MinuteUpload` | do the promises hold in the minute loop under a reload, what settles? | 2 workers, 2 logs, limit lowered from 2 to 0, claims of 2 |
| `minute_log` | `MinuteLog` | what do racing producers and backfills leave? | 2 producers, windows of 3 or 2 minutes, at most one reload from 3 to 2, readings 490 and 610, delay 30, a given range 360..480, backfill limit 1 |
| `minute_gap` | `MinuteLog_gap` | violation: are there gaps after a backfill? | 1 producer, windows of 2 minutes, readings 490, 610, 700 |
| `parallel_run` | `ParallelRun` | is the limit kept, does everybody run, is every error told, does the call end? | up to 4 items, up to 3 phases, limits 0 to 3 |
| `backup` | `BackupFiles` | does a row always have its file, and the right data? | 2 triggers, 2 calls, 2 batches, 2 builders, 2 seconds |

What the passing runs show:

* `DuplicateNeedsCause`: concurrency and restarts alone never deliver twice. A duplicate
  needs a lease that ran out on a claimed batch, or an attempt recorded as failed.
* `ImplementsDelivery`: a settled batch is settled for good, whatever late mark of a worker
  that lost its claim or late finalisation comes; it is settled as uploaded only when the
  remote side has it; the published verdict is true.
* `VerdictSound`, `CounterNeverOverstates`: `FinalizeInstance` may write an old count and
  workers overwrite `uploaded_batches` with their own counters; neither ever says more than
  is true. The published status may fall back to running; `Finishes` says a later run
  repairs that.
* `FailedWhenBudgetSpent`: no row is given up early, and none is left that is neither
  settled nor claimable, as long as the limit stays the same.
* `Returns`, `CallEnds`: the claim loop has no bound of its own, and in Continue mode it
  claims batches it attempted before, to skip them. It still ends: `Returns` says so of a
  worker that goes on, `CallEnds` of every single step. `Left(w)` counts what a call has still
  to go; a step of its own lowers it, and nobody else's step raises it.
* `BatchesArePrefix`: production resumes at the number of rows plus one, which is right only
  if there is never a gap; there is none. `MetaMeansProduced`: `total_batches` is written
  last and marks a complete production although every producer sums on its own. `RowsStay`:
  a second producer changes no row of the first.
* `ImplementsLife`: whichever entry points make and upload an instance at the same time and
  die half way, its rows tell one story: made in order and to the end, sent only when made,
  settled once, every failed attempt counted once, failed exactly with the last.
* `RepeatedCallsComplete`: calling `RunBigTask` again repairs every interruption, also an
  instance that an uploader closed before all its batches existed. One worker takes turns
  here; that an early close happens, also by a worker of its own, is what
  `ClosedMeansUploaded` is about (section 6).
* `CreatedInOrder`, `NilMeansAll`, `ImplementsSequential`, `Terminates`: builders finish in
  any order and fail; rows are written in index order up to the first error in index order,
  nil means all, and no goroutine is left behind.
* `SettlesWhenNamed`, `OnlyStrandedRemain`: `UploadPendingForTask` settles every log, except
  (`OverLimit`) those whose `retry_count` a reload has put above the limit: no claim takes
  them, so no mark ever fails them, and they stay pending until the limit is raised again.
  `RunMinuteUploader` looks for pending rows only (`FindDistinctPendingTaskCodes`), so logs
  left running, by a dead worker or behind the failed log of a claim, wait until a new log
  of the task is pending.
* `PartialNeedsCause`: `produceRange` takes any row for a produced window and skips rows that
  exist, so a window may be left incomplete, but only where a producer died or failed, never
  by the race of two. `BackfillSkipsNothing`: the backfill passes over no window behind
  the last row.
* `OverlapNeedsCause`, `NeverEarly`: producers and backfills read the clock at different
  times and may be stopped for long between reading and writing; still the ranges with rows
  are equal or disjoint, and none is produced before it is over for the delay. Two things
  break the former, not the latter: a range given to `ProduceForTask` that is no window
  (360..480 when windows have 3 minutes), from whose end a backfill goes on off the grid; and
  a reload that changes the interval, because the new windows lie across those that have rows
  (360..480 of 2 minutes across 360..540 of 3). So `OverlapNeedsCause` says nothing about these
  two cases; `NeverEarly` holds in both, and so does `BackfillSkipsNothing`.
* `SlotsBounded`, `EveryItemRuns`, `ReturnTellsAll`: one failing task keeps no other task of
  the phase from running, no error is lost, nil means that all phases ran without a failure.
  A failing phase ends the call: `RunUploader` does not come to the big and biz instances
  when a minute task failed. This is about `RunUploader`, `RunProducer`, the single uploaders
  and the two resumes of `OnStartup`, not about `OnStartup` as a whole: the loop with which it
  begins logs the error of a task's backfill and goes on (`engine.go:230-234`), so `OnStartup`
  may return nil although a backfill failed. The backfill itself is in `MinuteLog`.
* `FileNeverMissing`, `WrongDataNeedsCause`, `LostNeedsSharedName`: a production that dies in
  the middle of a file and is run again leaves no row with a wrong file. Two calls that
  produce the same instance at the same time may, because the second truncates a file whose
  row exists already: an uploader that reads it then sends part of it. Two triggers of a
  task within one second share their file names: see section 6.

Why the bounds are enough. The claim protocol is symmetric in the workers and an
interference has two sides, an owner and one who takes over, so two workers meet in every
way; two batches make a claim with a rest, a verdict over a mixed outcome and an order
between rows; two attempts make a retry that succeeds and one that is the last. The
counters (`received`, `retry`) saturate or are bounded by the code. What small numbers
might hide is proved for every number (section 5), where FailFast with several attempts is
covered as well. `IndexedProduce` has more indexes than builders and
a first index above 1, as after a resume; its channel fills. In `MinuteLog` the
two readings lie a window apart, so a task without rows is backfilled up to a cutoff one or
two windows away and a backfill has windows before, at and behind its cutoff; one window has
no data, one two files, so that it can be half produced; the limit of one makes a backfill
stop in between. Under the interval of 3 the given range is no window, under 2 it is one,
and at the first reading it is not over yet. One change of the interval makes
calls with the old and the new one meet. In `ParallelRun` there are fewer, as many and more items than slots,
and no limit at all; three phases is what the longest entry point has. In `BackupFiles` two
calls may work on one instance or on two, within one second or not, and a call's two builders
are ahead of its rows. In the run of `MinuteUpload` a reload only lowers the limit (`Lowered`),
which is the direction that strands rows; what is proved about it holds for every change.
`task_all` has one attempt per batch for the size of its state space; the theorems have any
number. `CHECK_DEADLOCK FALSE` is in `IndexedProduce.cfg`, `ParallelRun.cfg` (a call that
returned has nothing left to do) and `BackupFiles.cfg` (everything may be produced and
uploaded). Symmetry is used in runs without liveness only.

## 4. Fairness

The progress properties are about behaviours in which the disturbances come to an end.
`UploadProgress` and `TaskProgress` have a variable `calm` for that: before it is set, at an
unannounced moment, anything may happen. `MinuteProgress` says it in the property:
`CalmInTheEnd`, from some moment on every step is a `CalmStep`. In the calm part no process
dies, no repository call fails, the configuration stays, and a lease outlasts the upload it
covers (a lease is not configured shorter than an upload takes). It starts in every state the
disturbances leave. Then:

* weak fairness of a started worker's steps: a goroutine goes on;
* weak fairness of `Forgotten(b)`: time passes for leases of rows nobody has in hand and for
  the delay of a retry;
* weak fairness of the starts a property is about: `UploadRunning` and `RunMinuteUploader`
  are cron jobs (`src/README.md`: production and upload are decoupled as "Cron A / Cron B"),
  `Open` is a repeated call of the host. `SettlesWhenNamed` has repeated calls of
  `UploadPendingForTask` as its premise (`NamedAgain`).

Nothing makes an upload succeed, a build succeed, or an operator call anything else. In
`IndexedProduce` and `ParallelRun` every goroutine has weak fairness, and builds and the work
on a task end.

## 5. Theorems

Proved with TLAPS, under the assumptions the modules state about their constants:

* `BatchUpload_proofs`, `TaskInstance_proofs`, `MinuteUpload_proofs`: for every set of workers, number of batches,
  retry limit, claim limit and failure mode. `RowsOK` (the empty owner is no worker; the
  numbers are natural, the claim limit positive), `FailFastOK`; for `MinuteUpload_proofs`
  `LimitsOK` (the limits reloads bring are at most `MaxRetry`), for every set of changes.
* `IndexedProduce_proofs`: for every range of indexes and parallelism. `ParallelOK` (a
  non-empty range, parallelism above 1: otherwise the code takes the sequential path).
* `MinuteLog_proofs`: for every clock, delay, set of intervals and of changes of it, data
  source, set of given ranges and backfill limit. `MinuteOK` (the clock shows a time not
  before the delay; an interval is any integer). Two theorems assume besides that the data source counts with natural numbers
  (`FilesCounted`).
* `ParallelRun_proofs`: for every number of items and phases and every limit. `RunOK`.
* `BackupFiles_proofs`: for every set of triggers and of seconds, number of batches and of
  builders. `BackupOK` (the values for "no trigger", "no second yet" and "no file" are none;
  there is a builder).

Of the sets of workers and producers nothing is assumed, not even that they are finite.

`BatchUpload_proofs`:

* `Typing`, `BudgetSpent`: `TypeOK` and `FailedWhenBudgetSpent` are inductive only together
  (`TypesAndBudget`): that `retry_count` stays within `Attempts` needs that a row which has
  used them up is failed, hence neither claimed nor marked again.
* `CounterSafe`: `CounterInv` adds that every worker's private `count`, and the number it
  found for `FinalizeInstance`, is at most the number of uploaded rows. Uploaded rows never
  become fewer (`SettledStays`, `UploadedGrows`), and `MarkUploaded` adds one to both
  (`MarkAddsOne`).
* `VerdictSafe`: `VerdictInv` adds that what a worker found, but has not written, is sound,
  and that every row exists (`Produced`). A sound verdict stays sound because settled rows
  stay (`VerdictStays`); `JudgeSound` relates the counts to the rows. Without `Produced` the
  statement is false: a verdict over the rows so far is what `task_startup` shows.
* `DuplicatesExplained`: `ClaimInv` says of a batch whose lease never ran out while claimed
  and that never failed (`Quiet`) that at most one worker has it in hand, that this worker
  holds its claim, and that it was received at most once, and then is being marked or
  settled (`Exclusive`). `DuplicateNeedsCause` alone is not inductive.
* `UploadImplementsDelivery`: every step maps to a step of `Delivery` or a stutter.
  `MarkInv` says that a batch about to be marked uploaded was received;
  `VerdictInv` gives the guard of `Publish`.

`TaskInstance_proofs` uses them again. Read a worker that starts up or produces as idle
(`UploaderPlace`), and every step of `TaskInstance` is a step of `BatchUpload`, a stutter, or
makes one row appear (`UploaderSees`); so the lemmas about the uploader's steps carry over,
and only the new row needs an argument.

* `TaskTyping`: `Types`, the types of both modules with the retry budget.
* `NoGap`: `PrefixInv` adds that a producing worker has every row before its index behind it.
  `PrefixIsCount` (a set without a gap that has k members is 1 .. k) makes `CountBatches` + 1
  the first missing index; only `CreateBatch` makes rows appear (`RowMade`).
* `MetaIsTrue`: `MetaInv` adds that a worker about to write the totals has summed all rows.
* `RowsKept`: from `RowKept`, every step.
* `CountIsSafe`, `DuplicateHasCause`: `CounterInv` and `ClaimInv` of `BatchUpload_proofs`, the
  latter with the addition that a row which does not exist has been sent by nobody and is in
  nobody's hands (`Unborn`).

`IndexedProduce_proofs`: `Typing`, `OrderKept`, `NothingLost`, `ParallelImplementsSequential`.
The inductive invariant is `IInv`: an index that was handed out is held by a builder, in the
channel, in the map or created (`OnTheWay`); the channels are closed in order and only when
nobody sends any more (`Phases`); and `created` is the indexes from the first on (`Written`).

`MinuteLog_proofs`:

* `WindowSound`, `WindowsDisjoint`: what `calcMinuteRange` returns is a window of the task's
  grid, over for the delay, and there is no later one that is; two windows are equal or
  disjoint. From lemmas about division.
* `Typing`, and with it that a backfill keeps its limit.
* `NoOverlap`: `GridInv`, every copy of the interval is the current one and everything a
  producer holds is on its grid, unless a range was given that is no window or the interval
  was changed.
* `Punctual`: `EarlyInv`, the window that begins at the cutoff of a backfill was over for the
  delay when the clock was read, and the clock does not go back.
* `NothingSkipped`: `BackInv`, every window between the start of a backfill and its cursor has
  rows or failed (`Passed`), and the one it works on begins at the cursor.
* `HalfProducedOnlyWithCause`: `RowsInv`, a range has no rows but those of its own files, and a
  producer has a row, its own or another's, for every index before the one it has come to.

`ParallelRun_proofs`: `Typing`, `LimitKept`, `NobodyLeftOut`, `ToldAll`. `IInv` says that the
semaphore holds one token per goroutine at work (`Counted`), which goroutines there can be in
which stage of the caller (`Stages`), that every failure is in the channel or on its way
(`Errors`), and what has been told so far (`Told`).

`MinuteUpload_proofs`, along `BatchUpload_proofs`:

* `Typing`: `Types` adds `AttemptLeft`, an open log has used fewer attempts than the largest
  limit allows. With limits that change under way this is all that is left of the budget:
  that a log is failed exactly when its budget is spent does not hold (`OverLimit`).
* `DuplicatesExplained`: `ClaimInv`, and `UploadImplementsDelivery`: `MarkInv`, as above; a
  reload and the different limits of the workers disturb neither.

`BackupFiles_proofs`:

* `Typing`: `Types` adds that what a call has in hand goes with where it is, and that an
  instance with rows was started.
* `NothingMissing`: `FileInv` adds that what a builder has begun to write is there
  (`BuiltIsThere`); a row is created after its file was saved, and no file is removed.
* `LossExplained`: `PrefixInv` says of an instance that shares its second with no other that
  its rows have no gap, that a call at an index has all rows before it behind it, and that a
  complete instance has all rows (`Gapless`, `Behind`, `Whole`). Sharing never ends
  (`SharesStays`).
* `ReadsItsData`: `DataInv` says of such an instance that its files hold its own data or part
  of it, and as long as only one call was ever at work on it (`Solo`), that the file of every
  row is whole: the builders of the call are at indexes without a row. Files of a second in
  which no instance was started do not exist (`Fresh`): a new instance finds none of its own.

### The calls end

Liveness under fairness is out of the prover's reach, but what makes these calls end is not.
A call ends however it is scheduled if it can always take a next step and every step leaves
it with fewer to go. Both are statements about single states and steps and need no fairness:

* `BatchUpload_proofs`: `CallsGetShorter` (`CallEnds`), with the variant `Left`: eight for
  every batch the call has not attempted, plus the place in the round (`Turn`). A claim either
  brings a batch not in `seen`, or is the last (`LoopEnds`). `CallsAreShort`: never more than
  `8 * NumBatches + 7`. `NobodyWaits`: a worker in a call can always go on; the claim protocol
  has no lock to wait for, and a mark is always about a batch (`BatchInHand`). The invariant
  behind them is `InTurn`: of the batches in hand, only the one being marked was attempted.
* `TaskInstance_proofs`: `TaskCallsGetShorter` and `TaskNobodyWaits` for production, resume
  and upload together, at most `9 * NumBatches + 9` steps; from the lemmas about the uploader.
* `MinuteUpload_proofs`: `RunsGetShorter`, `NobodyWaits`, at most `3 * NumBatches + 3` steps.
  The loop returns at the first log that failed or whose claim was lost, so each further
  round means that all logs of the claim were uploaded; and uploaded logs never become fewer.
* `IndexedProduce_proofs`: `NobodyIsStuck`: unless everything has returned, somebody can go
  on, which is the absence of deadlock and of leaked goroutines. `EveryStepCounts` reads the
  number of steps taken off the state (`Steps`): every step adds one, so none is repeated.
  `StepsAreFew`: there are at most `6 * Total + Cardinality(Worker) + 3`.
* `ParallelRun_proofs`: `NobodyIsStuck`, `OnlyForward` and `PhaseIsShort` (at most
  `5 * items + 4` steps in a phase).
* `MinuteLog_proofs`: `BackfillComesToAnEnd`. Every step of a call goes one place on, one file
  on, or, from one round of the backfill to the next, at least a minute nearer to a cutoff
  that does not move. Assumes `FilesCounted`.

### Nothing is stranded

`NothingStranded` (`BatchUpload_proofs`), `TaskNothingStranded`: a row that is not settled is
one the next run of its instance may claim, or its lease is alive and only has to run out.
No crash, failure or overtaking leaves a row to be repaired by hand. It needs
`FailedWhenBudgetSpent`, so that a row which used up its attempts is not open. (Whether a run
looks at the instance again is another question: section 6, `task_startup`.) In
`MinuteUpload_proofs`, where the limit changes, a log may besides be above the limit of the
moment; it is claimable under the largest one, so raising the limit again brings it back.

### The instance implements its life

`TaskImplementsLife` (`TaskInstance_proofs`): `made` is the number of rows, `complete` that
`total_batches` is set, `outcome`, `tries` and `reached` are read off `status`, `retry_count`
and the remote side. `LifeInv` collects `Types`, `PrefixInv`, `MetaInv`, `ClaimsInv` and `MarkInv`: a new
row is the next one because there is no gap (`MakeMaps`), `UpdateProducedMeta` comes when all
rows are there (`CompleteMaps`), and a mark maps to a settlement because the worker's claim
still holds (`UploadStepLives`).

### Only model-checked

Liveness under fairness: `Finishes`, `RepeatedCallsComplete`, `Returns`, `SettlesWhenNamed`,
`OnlyStrandedRemain` and the two `Terminates`. Of `Returns` and `Terminates` the halves that
need no fairness are the theorems of "The calls end"; the others speak of several calls in a
row and of leases that must run out, and have `NothingStranded` as their only safety half.
Every invariant, every action property and every refinement a passing run checks is a theorem.

## 6. Findings

* `upload_headroom`: with `MaxRetry = 1` the first failed attempt marks a batch failed,
  against the test `upload_pending_test.go:37` (its fake repository fails a row only when
  the incremented `retry_count` is above the limit). The reason is the evaluation order of
  the UPDATE, section 2.
* `task_startup`: `OnStartup` resumes a production only when `total_batches` is set, and
  production sets it last. So a production that died is not resumed; the rows it made are
  uploaded, and the instance is closed as uploaded. Only another call of `RunBigTask` with
  the same window repairs it (`RepeatedCallsComplete`). `ClosedMeansUploaded` fails without any
  crash, too, when a second worker's `RunBigUploader` meets a production under way, because
  `FinalizeInstance` counts the rows there are. If it writes its count late, the
  instance may stay closed with a batch still pending for a retry, although it is fully
  produced: no later `RunBigUploader` looks at it, only `RunBigTask` does.
* `minute_gap`: the backfill starts behind the newest row of the task. A window that was
  missed, followed by one that was produced, is never looked at again.

Seen while modelling, and said by properties that hold:

* Two triggers of one biz task within one second give their instances the same file names
  (`LostNeedsSharedName`, `WrongDataNeedsCause`). The second `CreateBatch` violates
  `uk_file_name`, `mapCreateErr` makes it `ErrAlreadyExists`, which `errors.go:5-6` and
  `docs/DEVELOPER_GUIDE.md:58` call idempotent, and production goes on: that instance lacks rows
  and is closed as uploaded, and the rows of the other may deliver its data. `uk_file_name` is
  meant for batches of the same instance; the namer is the one the kit installs by default.
* Lowering `max_retry` in `task_config` leaves rows that are neither claimable nor failed
  (`OverLimit`, a log; the batch tables are claimed and marked by the same statements).
* Changing `interval_minutes` makes windows with rows overlap (`OverlapNeedsCause`): a record is
  then in two files. Nothing in the code or the documents says it may not be changed.
* A log left claimed by a dead worker is not found by `RunMinuteUploader` while the task has
  no pending log (`OnlyStrandedRemain`).

## 7. Not modelled

* The loop of `OnStartup` over the minute tasks, one after the other: `MinuteLog` has one task,
  `ParallelRun` begins behind the loop.
* A reload that changes the delay (a larger one moves the current window back, a smaller one
  on; the grid stays), the file prefix or `enabled`.
* The checks of path segments in `FSBackupStore`, and the directory of the day: two saves of a
  name on different days write different files. File names print local time, so that the hour
  a clock is set back in repeats the names of minute windows; the models have no local time.
* Several instances in one upload module: rows of different instances share nothing but
  `uk_file_name` (`BackupFiles`) and the goroutines of `ParallelRun`.
* The registry (a locked map filled at start), JSON and metadata conversions, the example's
  data sources, DDL and wiring.

## 8. Plan

Done, in this order: `Delivery`, `BatchUpload` with its proofs, `UploadProgress`, `TaskInstance`,
`TaskProgress`, `OrderedProduce`, `IndexedProduce` with its proofs, `ClaimRows` (split off
`BatchUpload`), `MinuteUpload`, `MinuteProgress`, `MinuteLog`; then `MinuteWindow` and the clock in
`MinuteLog` with their proofs, the reload in `MinuteUpload`, `ParallelRun` with its proofs,
`BackupFiles`, the proofs of `TaskInstance`, `MinuteUpload` and `BackupFiles`, and the reload that
changes the interval in `MinuteLog`; then the theorems that calls end and strand nothing,
`InstanceLife` with its refinement, and any change of `max_retry` in `MinuteUpload`.

What could follow, in this order: `delay_seconds` as a part of the snapshot in `MinuteLog`;
`max_retry` of the batch tables as a part of it in `BatchUpload`, as in `MinuteUpload`; the
directory of the day in `BackupFiles`.
