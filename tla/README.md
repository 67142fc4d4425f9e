# A verification of mutest-rs

mutest-rs compiles a Rust crate with many mutations at once ("meta mutant"), each behind a
*substitution point* that asks at run time whether its mutation is active, and then runs the crate's
own tests once per mutation in the resulting harness binary. The verdict about a mutation (detected,
undetected, timed out, crashed) is only worth something if the tests that were counted really ran the
mutation, and ran nothing else; and the list of verdicts is only worth something if it is complete
although tested code may hang, crash or exit the process that evaluates it.

That is what the modules here are about. They follow the path of a mutation: from the walk of the call graph
that finds the function, the operator that proposes it and the program it is written into (`mutest-emit`,
`mutest-operators`, `mutest-driver`), through the builds and harnesses of a run (`cargo-mutest`), to the tests
that are run for it and the report of what they found (`mutest-runtime`). `PROJECT.json` maps every definition to the lines
it stands for, and lists the runs, the hazards and the theorems.

## 1. The system

| part | where | its state | its operations | what makes it correct |
|---|---|---|---|---|
| test threads | `test_runner.rs`, `codegen/guard.rs`, `codegen/substitution.rs` | active mutant handle, one signal per test, count of abandoned threads, thread-local pointer to the signal | activate, run a test, give it up, substitution point, loop point, body location, end of a thread | a test runs its own mutant and no other; the count is exact; no panic while unwinding |
| run of a mutant | `test_runner.rs` (`Scheduler`), `harness.rs` (`run_tests`), `harness/unrepeatable.rs` | queue, running tests, channel of completions, per-test results, verdicts | start, time out, receive, join, end of the in-process phase, end of the child phase | every test accounted for, one result each, verdicts that have a reason, the run ends |
| thread pool | `thread_pool.rs` | jobs, workers, flags and packets of a job | execute, take, publish the thread id, finish, join | no job lost, packets written before they are read |
| supervisor, journal | `supervisor.rs`, `journal.rs`, `completion.rs`, `summary.rs` | the journal file, completion record, summary log, stop signal and completion order (statics) | start and restart workers, observe, reap, isolate what crashed, exit code | complete means complete; what crashed is isolated; restarts end; stop signals are honoured |
| mutation analysis | `harness.rs`, `harness/scheduling.rs`, `timeouts.rs`, `alone.rs` | mutants remaining and running, results, timed-out mutations | evaluate one by one, in batches or side by side; rerun timeouts | conflicting mutants never overlap, each mutation finished once |
| reference run | `harness/profiling.rs`, `unrepeatable.rs` | profile of the tests | run, run again, record | failing tests end the analysis, and only they |
| lingering monitor | `harness.rs` | channel of abandoned threads, those it watches | submit, receive, scan, finish | one result per abandoned test, none lost at the end |
| progress log | `progress.rs` | active tests, terminal flag, sequence | start, end, finish, fail | what `docs/runtime-progress.md` says |
| child processes | `subprocess.rs`, `mutation_child.rs`, `mutation_child/child.rs` | child, monitor, report | start, report, time out, kill, reap | one result per child, none left behind |
| matrices | `flakiness.rs`, `subsumption.rs`, `detections.rs`, `triangle_bit_matrix.rs` | bit matrices | pure functions | equal to their definitions |
| exit codes | `mutest-exit-code`, `cargo-mutest/src/summary.rs` | the log of harnesses | write, read, most severe | the code of the worst harness |
| batching, conflicts | `codegen/mutation.rs`, `mutation/conflicts.rs` | conflict graph | build, batch | no two conflicting mutations in a batch |
| call graph | `analysis/call_graph.rs`, `call_graph/unsafety.rs` | reachable definitions, distances, unsafety of paths | collect, walk from each test, truncate | distances are shortest, limits kept, nothing behind a limit forgotten |
| mutation operators | `mutest-operators`, `codegen/mutation.rs` (`MutationCollector`) | none | propose the mutations of a place | every mutation compiles, and changes something |
| meta mutant | `codegen/substitution.rs`, `guard.rs`, `harness.rs` | slots, substitution maps | write, bake, overlay | only the active mutation's code runs |
| cargo mutest, driver | `cargo-mutest`, `mutest-driver/src/build_status.rs`, `mutest-emit/src/stop.rs` | build failure marker, exit-code log, summary log | build, stop, run, summarise | failures are not taken for success |
| lowering of compiler data | `analysis/ast_lowering.rs` | matches of syntax nodes with nodes of the HIR | walk both trees, record, validate, look a definition up | every node is matched, with its own lowering |
| name hygiene | `codegen/hygiene.rs`, `analysis/res.rs` | the rewritten names, scopes, names of blocks | visit a node, rewrite its names, find a path that the place may use | the printed program means what the expanded one meant |
| build of integration tests | `mutest-driver/src/passes/external_mutant`, `inject.rs`, `main.rs`, `passes/analysis.rs` | artifacts, records beside them, the exchange directory | compile a library and record how, choose the mutant, have a child compile it, rebuild what is between, link | a test is linked with its own mutant, and every build ends |
| printing, JSON, inspector, embedded, shims | the other directories | syntax trees, files | rewrites and output | not modelled: section 15 |

How they meet: the driver writes one program with all mutations, and the slots and conflicts it computed are
what the runtime trusts when it puts mutants side by side. In a harness, the analysis *activates* a mutant in the handle and calls the run; the run starts threads,
reports to the callback that forms the verdicts, and returns the threads it gave up to the monitor; the
analysis records each verdict in the journal, and retires the mutant. The supervisor shares nothing with
the worker but files, signals and the exit status, and `cargo mutest` shares nothing with harnesses and drivers
but the log, the marker and the exit status of Cargo.

What is hard here:

* **Threads that cannot be stopped.** An abandoned test keeps running. It is told with a swapped signal and
  a count that both sides may decrement, while the handle is replaced for the next mutant.
* **Late results.** A completion may arrive after the test was given up, in the middle of the next tests.
* **Batches.** One scheduler runs tests of several mutations; a detection may end some and not the others.
* **Crashes at any step.** The worker is killed by tested code; what it wrote is all that is left, perhaps
  cut in the middle of a row. Tested code can also exit with the code of a completed analysis.
* **Stop signals** race the completion of the worker, its death and its restart.
* **Many writers, one verdict.** The exit code of a run is put together from files that several processes wrote,
  of which any may have died in the middle of a row.
* **Two trees in step.** The syntax tree that is mutated and the HIR that is analysed are walked side by side, without
  a key to compare: one element that only one of the trees has shifts everything behind it.
* **A program without its macros.** Once it is printed, nothing tells two names apart that only an expansion told apart, and
  nothing lets a name through that only the definition of a macro could see.
* **Builds side by side.** The tests of a workspace are built at the same time, each against a mutant of its own. Drivers and their
  children share no memory, only files, and any of them may find files of an earlier run, or fail.
* **Limits of the analysis.** A trace of calls that is cut short must not let a mutation behind it share a
  process with one in front of it; one mutation that does not compile fails all of them.

## 2. Modules

| module | what it is |
|---|---|
| `TestThreads` | threads of in-process tests and substitution points, one shared access per step |
| `RunContract` | abstract: what a run promises the analysis about its threads and results |
| `TestRun` | the scheduler, the callback, both phases, the pool; implements `RunContract` |
| `TestRunProofs` | theorems about it, the refinement among them |
| `Supervision` | supervisor, journal, completion record, and what the worker writes |
| `SupervisionProofs` | theorems about it |
| `MutationAnalysis` | the analysis of a worker: one by one, batches, dynamic scheduler, timeout reruns, jobs of the pool |
| `MutationAnalysisProofs` | theorems about it |
| `OwnedProcess` | abstract: what a run of a test in a process of its own promises |
| `IsolatedProcess` | monitor, owner and test of one such run; implements `OwnedProcess` |
| `TestIsolationProofs` | theorems about `TestThreads` and `IsolatedProcess`, the refinement among them |
| `MutationChild` | a child that runs several tests and its parent, built on `OwnedProcess` |
| `MutationChildProofs` | theorems about it |
| `Queues` | `VecDeque::retain`, and lemmas about queues of any length, for the four models that filter one, for `Supervision`'s journal and the log of `CargoRun` |
| `ExitCodes` | the codes, their order, the log of harnesses with torn and joined rows |
| `ProgressLog` | the writer of progress records, and what their reader may conclude |
| `EvaluationReport` | verdicts, detection matrix, subsumption, flakiness |
| `HarnessWorker` | a worker from its start to its exit, put together from these three; the lingering test monitor |
| `CargoRun` | a `cargo mutest run`: builds, harnesses with restarts, the exit code; extends `HarnessWorker` |
| `CargoRunProofs` | theorems about it, `HarnessWorker` and the three modules below that |
| `CallGraph` | collection of the graph, the walks of the tests, unsafety, truncated entry points |
| `MutationOperators` | what each operator proposes for a place; the reference for what compiles |
| `Metamutant` | the program with all mutations: slots, guards, substitution maps, the code that runs |
| `Batching` | the three batching algorithms and simulated annealing |
| `RustcLowering` | external: the syntax trees, and the HIR that `rustc` makes of them |
| `AstLowering` | for each pair of nodes, the pairs that the walk visits next |
| `DefFinder` | how a definition of the HIR is found in the syntax tree |
| `BodyResolutions` | the collector of the matches, the validator and the lookups; extends these two |
| `NameResolution` | external: what `rustc` resolves a name to, with the marks of macros |
| `VisiblePaths` | the paths by which a place may name a definition; extends `NameResolution` |
| `MacroHygiene` | the sanitizer, one step per node of the expanded program; extends `VisiblePaths` |
| `ExternalMutant` | the drivers of libraries, of integration tests, and the children that compile the mutants |
| `CompilerPasses` | `BodyResolutions` and then `MacroHygiene`, on one crate, and then `ExternalMutant` |
| `MutationGeneration` | the analysis pass of the driver, from the tests to the written program; extends these four |
| `MutationGenerationProofs` | theorems about it, through all four |
| `MCWorkers` | instance of `Supervision` (`MCSupervision`) and of `TestThreads` |
| `MCTestRuns` | instance of `TestRun`, `IsolatedProcess` and `MutationChild` |
| `MCMutationAnalysis`, `MCMutationGeneration` | instances of these modules |
| `MCBuilds` | instance of `CargoRun` (`MCCargoRun`) and of `CompilerPasses` |
| `MCSupervision`, `MCTestRun`, `MCCargoRun`, `MCBodyResolutions` | instances that also have a run of their own, for one finding each (section 16); `MCBodyResolutions` has the crates of `CompilerPasses` |
| `MCHygienePrograms`, `MCExternalMutant` | the programs and the workspaces of `CompilerPasses` |

**Runs of more than one system.** `MCWorkers`, `MCTestRuns` and `MCBuilds` check several modules in one run. They do not compose them:
`system` says which one runs in a behaviour, the others rest in one initial state, and each has the fairness of its own specification.
So the states are the sum of those of the systems and not their product, and every property is about the system that it names; of one that rests
it is true. To share a state space, two modules must not share a name, which is why the definitions of some carry the name of what they are about
(`OwnedNext`, `ChildNext`, `ThreadsNext`, `ResolvingNext`).



**Composition.** `TestThreads` retires a mutant when each of its tests is queued, joined or lingering
(`RunEnded`). That this holds when a run returns is the promise of `RunContract`, and `TestRun` is shown to
implement `RunContract` with a refinement mapping (`WatchOf`): the two halves of the argument "no lingering
thread is missed when the handle is replaced". `Supervision` takes the run of a mutant as one step that ends
(`RunEnds`), which is what `TestRun!RunEnds` shows. `MutationAnalysis` puts the modes of the analysis around
such runs, with the test of each mutation reduced to a job of the pool. `OwnedProcess` is the promise of
`subprocess::run`: `IsolatedProcess` is shown to keep it, and `MutationChild` takes its actions for the
process of the child (`Process!Start`, `Process!Exit` and so on), so that what it shows rests on the promise
only. `MutationGeneration` ends where `TestThreads` and `MutationAnalysis` begin: its `MeetsOnlyItsMutation` is, on
the program as written, what those two assume of the slots, the reachability and the conflicts they are given.
`BodyResolutions` comes before it: the types and calls that `MutationOperators` is given for a place are those of the
node that was matched with it. `MacroHygiene` follows on the tree whose bodies are resolved, as in `passes/analysis.rs`:
what is mutated and printed is its result. `ExternalMutant` comes last, on a workspace: the targets that it carries from the tests to
the mutant are those of `CallGraph`, here given.
`CargoRun` runs each harness through `HarnessWorker`, with the supervisor of `Supervision` reduced to what a later
worker and the log see of it.

## 3. TestThreads

One process, a set of mutants with a slot each, one thread per in-process test run. `handle` is
`ACTIVE_MUTANT_HANDLE`, `signal` the `AtomicBool` of each test, `abandoned` `ABANDONED_TEST_THREADS`; `watch`
is what the runner knows of a test, `pc` where its thread is. Every access to shared state is its own step:

* giving a test up is `AbandonCount`, `AbandonSwap`, and `AbandonUncount` if the swap found the signal already
  cleared; a thread that ends does `DropSignal` and, if it was given up, `DropUncount`;
* a location or guard is `ReadSlot`, `SubstCount`, `SubstSignal` (`active_subst`), then `ActiveCount` and
  `GoesOn` (`is_test_thread_active`), then `Apply` or the cancelling panic;
* a location inside a body that was entered with a guard is `BodyPoint`, `BodyCount`, `BodySignal`
  (`runs_mutation_at`, `runs_mutation_of_new_mutant`);
* a loop starts with `LoopPoint`. `Panic` is a failure of the test itself, after which destructors run.

Properties: `NoForeignCode` (no test runs another mutant's code, even long after it was given up),
`LiveTestRunsItsMutant` (until it is given up it never misses its own), `CountIsExact`, `NoSecondPanic`.
The first two are two sides of one trade: a thread that is cancelled too late runs foreign code, one that
is cancelled too early reports a verdict without its mutant.

Run `workers`: three mutants, where m1 and m2 share the slot of a guarded body, m2 and m3 share a test and
so conflict, and m1 and m3 do not conflict and run side by side. That is the smallest instance with both
ways to get a foreign mutant (same slot; another slot that the test also reaches) and two runners at once.
Nothing is bounded but the constants. The count is at most the number of tests.

Assumptions: steps are sequentially consistent. The count is loaded `Relaxed` after the slot was read, which
x86-64 keeps in order; on aarch64 nothing does, and the model does not show what happens there. The
substitutions of a handle are several slots and replaced as a whole; here they are read slot by slot, and a
reader sees each slot before or after a replacement. Threads that a test spawns have no signal and are never
cancelled: `docs/open-defects.md` lists this, and the model has no such threads.

## 4. TestRun and RunContract

One run of a mutant or batch: first the tests of this process, then those for child processes, each phase
with a scheduler and a channel of its own. `rpc` is where the scheduler is:
`StartTest`/`Started` (`start_queued_tests`; with a pool, `JobHandle::thread_id` waits until a worker took the
job), `CollectOverdue`/`AbandonTimedOut` (`abandon_timed_out_tests`), `AwaitNext` (the loop ends if nothing
runs), `Receive`/`LimitComesDue`/`Join` (`finish_next_test`), `EndInProcess`/`EndChild`. `Report` is the
callback of `harness::run_tests`: the result per test, the verdict, the tests removed from the queue, and the
early end. A thread goes from "queued" through "running", "sent" and "finished"; `sent` and `finished` are
apart because a completion is on the channel before the thread can be joined. A message stays at the head of
the channel until its test is joined. Limits pass at any moment after the start was reported.

* `VerdictHasWitness`: detected exactly if a test failed; undetected only if none failed, crashed or timed
  out. Among crashed and timed out the last one wins, so a verdict may depend on the order; `README.md:94`
  of the repository promises nothing about that pair.
* `NothingLost`: a run that returns has a result of each test that its verdicts need, but for those it
  returns as not started. `QueuedTestsRun` drops the exception, and does not hold (finding 1).
* `DetectionStopsTests`: no test starts for a mutation that another test already settled.
* `RunEnds` (liveness), `KeepsContract` (refinement of `RunContract`).

`RunEnds` has one exception, `PoolHeld`: with `--use-thread-pool`, tests that hang keep their threads, and once
they hold all of them `start_queued_tests` (`test_runner.rs:858`) waits for a free one without a limit (`thread_pool.rs:65`).

Six tests of two mutations, by turns as `maximize_mutation_parallelism` orders them. Three of m1 hang, two in
process and one in a child, and its fourth panics after it reported success; those of m2 may all pass, so its
verdict needs each of them. With `exhaustive` either way. Runs: `test_runs` (two at a time, on a thread per test, a pool of
two, which the hanging tests may hold, or one of three) and `run_queued` (one at a time).

Left out, as the code cannot get there: ignored tests are filtered before; every test of an evaluation has a
limit; `run_serially` is the same loop with one test at a time and no limits. The children that run several
tests (`run_in_mutation_children`) are taken as one child per test, and a child's monitor as its thread;
section 7 has both in detail.

## 5. Supervision

`started`, `finished`, `isolated`, `profiled` and `tail` are the journal; `tail` says whether its last row is
whole, cut short, or joined to a row that followed one cut short (which makes the file unreadable). The worker
opens it (`OpenJournal`), takes or makes the reference run, starts mutants (`journal_started`), and after the
run of one returned records each result, or defers a timeout, which is run again at the end without another
row for its start (`ConfirmTimeout`). It appends its summary, writes its completion record and exits. Its tests
may end it at any of these steps (`TestEndsWorker`), in any way: a signal, an exit with a code that looks
completed, with the very code that was recorded, or another; a row may be cut short by it. `leftover` are
mutations with threads that were given up and still run. Each write to the journal may fail halfway, and the
journal may not exist at all.

The supervisor is `CheckStop`, `Spawn`, `WatchWorker` (`start_worker`), the loop of `Observe` and `WaitOn`
(`wait_completed`), `Reap` (`Attempt::finish`), `Decide` (`restarts_after_crash`) and `Exit`. `Stop` is the
signal handler, which may interrupt it anywhere but after its decision to exit; it sets `stop` and `order`
(`STOP_SIGNAL`, `COMPLETION_ORDER`).

* `CompletedIsComplete`: an exit as completed means every mutation has a result, is in the journal exactly
  once, and one summary was logged.
* `WorkerReadsJournal`: no crash leaves a journal that the next worker refuses.
* `CrashedRunsIsolated`: what was under evaluation in process when tests ended the worker never runs in
  process again, unless a write was lost.
* `WitnessedCompletionStands` (a stop after a witnessed completion does not undo it) and
  `StopCancelsCompletion` (a completion counts only if no stop came before; does not hold, finding 2).
* `SupervisorEnds` (liveness): restarts come to an end.

Run `workers` has three instances in its initial states (`Setups`): two mutations that both crash, side by
side; a batch of which one crashes; and a mutation that `--isolate` isolates from the start. A batch is run
again although a part of it has finished. `supervision_stale` is finding 2. Nothing counts without bound: a
restart needs a newly isolated or a newly finished mutation. Two mutations are enough for "finished,
unfinished, crashed and deferred at once", and for three workers in a row. 
Not modelled: a completion record that cannot be read and a failing `waitid`, which end a run as incomplete;
creation of the record's file; the containment on Windows and macOS; the flakiness mode, which has no
journal.

## 6. MutationAnalysis

The analysis of a worker that did not crash, in each `mode`: `alone` (`evaluate_alone` for every unit),
`batched` (units are the batches), and `dynamic`, the scheduler that runs mutants side by side. Its pass is
`ReadActive` (`active_count` of the pool, which is read once), `ActivateNewly`/`SpawnNewly`, `StartCollecting`,
`CollectMutant` for each running mutant, `Deactivate`, and `Wake`; between any two of these the runs go on:
`StartTest`, the job of the pool (`ReceiveJob`, `CountJob`, `FinishJob`, `UncountJob`: a job is received before it is
counted as active and done before it is counted back), `GiveUp` of a test past its limit, `RunEnds`. Mutations
that timed out in process are run again at the end (`Confirm`, `FinishConfirm`), the isolated ones side by
side (`StartSideBySide`, `TakeRerun`, `FinishSideBySide`). `earlier` is what a worker before this one finished.

* `NoConflictingTests`, `LiveTestsAreActive`: the handle holds the mutation of every live test, and of none it
  conflicts with, although it is rebuilt while tests run and holds finished mutants for a pass.
  No more mutants are under way than the pool has threads, whichever count was read.
* `ConfirmedAlone`, and `AnalysisEnds` (liveness): the analysis comes to an end, with each mutation recorded exactly once.

Run `analysis`: five mutations. m1 and m2 conflict, m4 is unsafe, m5 is reached past the limits of the call
graph, m3 hangs its test, at its second run too; three threads, one rerun side by side at a time; with and
without m1 finished earlier. That gives a full scheduler, a conflict that keeps a mutant waiting, a batch of
which a part is done, and a rerun of each kind. `AnalysisEnds` needs a thread that no test holds: hanging
tests as many as threads leave `active_count` at its maximum, and `harness.rs:698` never schedules again.
That is the exception of `RunEnds` (section 4) seen from the analysis, so the instance has one thread to spare.

## 7. IsolatedProcess and MutationChild

`IsolatedProcess` is one call of `subprocess::run` on Linux. The monitor polls in a loop (`ReadCompletion`,
`ForwardCancellation`, `TryWait`, `FinishLoop`) and drops an owner that it gives up (`DropOwner`, `EndOwner`); `deadline`
is the stage it allows time for. The owner is `SpawnTest`, what its poll may find (`SeeCancel`, `SeeClosed`,
`ReapTest`, `SeeLimit`, `ExecuteFails`), `KillDescendants`, `ReportDecision` and `OwnerExits`. `OwnerBreaks` and `WorkerDies` may
come at any step, deadlines may pass at any time, and the test may leave a process that holds its output, or
does not. `cancel` stands for the bytes on the socket: an owner that exits with them unread resets it.

* `KeepsOwnedContract`: a result is that of this test, and nothing of the test is left (refinement of `OwnedProcess`).
* `CompletionSurvivesCancel`: a cancellation that raced a completion does not undo it.
* `RunReturns` (liveness): with a limit, or once cancelled, the monitor returns whatever the others do.
* `OwnerCleansUp` (liveness): an owner cleans up after the death of the worker.

`MutationChild` is `run_in_mutation_children`. The child (`Begin`, `Pass`, `FailOrCrash`, `AllPassed`) runs ahead of the
parent, which looks whether the child exited (`Hear`) *before* it reads the report (`Read`), gives out a pass or an
exit (`GivePass`, `GiveExit`), kills a child whose test is late (`StopLate`, `GiveLate`) or that a settled mutation made
stale (`StopStale`, `DropStale`), and starts the next (`SpawnChild`, with the batch of `Batch`). `did` is what a test
really did in its last child, which the parent can only infer.

* `ResultIsItsTests`: each result is what that test did, never that of a neighbour in the report.
* `RunsAlone`, and `ChildRunEnds` (liveness): the run ends, with a result of each test that was not settled by another.
  `RunsAlone` includes that no child is left when the next one starts or the run returns.

Run `test_runs`: one isolated test with and without a limit; and for the children a batch of two mutations, two tests that share a child, one that must run alone, one
that hangs, one ignored; with and without `--exhaustive`. Left out: threads that a passed test left in the
child, and failures to write the report (a child that cannot open it reports nothing, which is in). The
portable variant of `subprocess.rs` and the job objects of Windows are not modelled.

## 8. CargoRun

A `cargo mutest run` of two targets, from its options to its exit code.

* **Builds.** `StartBuild`, `BuildGoesOn`, `BuildSucceeds`, `BuildFails` (an error of its own, or of its child), `NoticeFailure` (the thread
  of a driver finds the marker and requests a stop), `AbortBuild` (`abort_if_requested`), `OutsideFails`
  (a dependency that no driver builds), `EndBuilds`. The marker may not open, or take no name. `driver` is where the driver of a build has
  got to: only in the loops that walk the call graph (`call_graph.rs:677`, `:862`) does it look for a request. One that generates mutants does
  not, nor one that waits for its child, which does not know the marker (`specialized_crate.rs:93`), or for `rustc`; and one that draws moves for simulated
  annealing may never end ("drawing", section 9).
* **Harnesses.** `StartHarness` writes the first row of the log, `StartWorker` and `WorkerOver` are the supervisor with one restart
  (`restarts_after_crash`, `completion::outcome`), `HarnessExits` writes the last row and hands the summary over. Any of them may be
  killed (`HarnessKilled`, `CargoKilled`); rows may fail or be cut short, and a process id may be used again.
* **The worker** (`HarnessWorker`): `BeginReference`, the tests of a run with their progress records, `EndReference`, `EndRepeat`,
  `EndMutation`, `EndIteration` (`--flakes`), `Completes`, `WorkerExits`. A test may end it while tests run, by a signal or with status 0 (`TestEndsWorker`).
  The monitor of lingering tests is `MonitorReceives`, `MonitorReports`, `MonitorEnds`, against `ThreadEnds`.
* **The end.** `CargoExits`, `Report` (`run_exit_code` from the marker and the log), `Inspect`.

`ExitCodes` has the codes, their order and the log: appended rows, rows cut short, and a row that joins one. `ProgressLog` has
the writer (`SetPhase`, `StartTest`, `EndTest`, `Terminal`), each with the outcomes in which a record fails, and the `reader`: what
somebody who knows only `docs/runtime-progress.md` has concluded from the records so far. `EvaluationReport` has the verdicts
and their exit code, and the matrices and flakiness as the code computes them.

* `RunCodeIsTrue`: the exit code of a completed analysis means that every target was built, every harness completed with
  all mutations judged and summarised, and that the code is that of the worst: 3 if a mutation timed out, 2 if one was not detected,
  else 0, and always 0 with `--flakes`. 0 holds even where a write failed. A failed
  build is named, one that was stopped is not, and the run exits 4. Conversely, a run in which all this happened says so.
  `ZeroMeansCaught` is what the repository says of 0, and does not hold (finding 4).
* `ProgressTrue`: records follow the protocol, and "completed" is never said with a test under way or a mutation without a
  verdict, or before the completion was recorded.
* `ReportTrue`: at completion, every test that started has one result in the evaluation stream (two if it timed out and
  ended later), however it ended and whatever the monitor had not yet seen; subsumption and flakiness are what their
  definitions over the sets of detecting tests say.
* `BuildsStop` (liveness): once a build has left the marker, the others end, however long their walks would take, unless one of them draws for ever, which no
  request ends.

Run `builds`: four sets of options: in process, isolated with `--exhaustive`, on a thread pool with tests that time out,
and `--flakes=2`. The first harness has two mutations that share a test or one that two tests reach; the second has
one. Two workers per harness and two process ids are enough for a restart, for a log of two harnesses, and for an id that
is used again; the files of an earlier run may be in place. The timeout rerun of `MutationAnalysis` is not repeated here.

What a reader of the code may not expect: a harness that dies before its first row, or cannot write it, is not seen at all when another one
exits with 2 or 3: the run then exits with the code of the other. `RunCodeIsTrue` says so (`unlogged`).

## 9. MutationGeneration

The analysis pass of the driver, which is one thread: a function of the program it is given and of the options, of
which the random orders and the hash maps leave several outcomes open.

* `CallGraph`: `collect` and the walk of each test as steps, one call level at a time, with the limits of depth and of traces, the
  unsafety a path hands on, and the truncated entry points. Functions of other crates are walked but not mutated.
  `TargetsExact` compares with the least distance and the worst unsafety of all paths, defined without a walk and without paths: a function is at
  least *n* away if some distances that no call exceeds (`NotTooLong`) put it at *n*; that is its distance if it is not at least *n* + 1 away.
* `MutationOperators`: per kind of place (a function, a parameter, an operation, a call, a jump, a match, a struct, a range), the
  conditions of each operator in `mutest-operators/src` and what it puts in the place. `Compiles` and `HasEffect` are the reference:
  what the compiler requires of the code in that place, written from the language rather than the operators. `CompiledPlace` is what the compiler
  has already made sure of in the places of a program that compiles; the places of the instance, and of the proofs, are of this kind.
* `Metamutant`: which locations share a slot (`KeepsOriginal`: a body with a second, unmutated copy is entered through one guard),
  the map of a mutant or batch, `SubstMap::overlay`, and the mutations whose code runs under a map.
* `Batching`: random and greedy (four orders, with and without epsilon) placement and simulated annealing, with the sizes they
  are given.
* `MutationGeneration`: `ReadOptions`, `ApplyOperators` (which nodes are offered, which targets are skipped, ids), `BuildConflicts`,
  `Batch`, `WriteProgram`.

Properties: `TargetsExact`; `FollowsTable` (the table of `UnsafeTargeting` in `mutation.rs`); `MutantsCompile`; `MeetsOnlyItsMutation`, which is the point of the whole pass:
on the finished program, with each batch and with each two mutants the scheduler may overlay, a test meets the code of its
own mutation and of no other, along every call there is and not only those within the limits; and `GenerationEnds`: the pass ends, and
then each mutation is in one batch, the size is kept, there is no conflict, and isolated ones are alone (`BatchesValid`). It ends in another way with
simulated annealing only, and then in exactly two: without mutations there is no batch to draw, and the pass panics (`mutation.rs:1042`); where there are some and
no mutation may move to another batch (`NoRoom`) it draws for ever (`:1041`). `AlwaysABatch` is what the `unreachable!()` there claims, and does not hold (finding 5).
All but `GenerationEnds` are also proved, for every program (section 14).

Run `generation`: every graph with three functions of the crate and one of a library over six calls that may be there, four
patterns of unsafe functions and blocks, four limits, all four modes, two filters and six ways to batch. Two levels are enough
for a path that is nearer and one that is less safe, a limit in front of a mutation, and a call back from a library. A second
set of programs has one function with all places of one kind (each with its rare forms: borrowed results, overloaded operators
with other result types, guards that are `let`s, jumps out of labelled blocks). Graphs of more than six mutations are batched
in one way, as they are all of one function. `generation_taint` is finding 3, and `generation_anneal` finding 5. Iterations of the
annealing are two (`MaxIterations`), where the code has 5000: a move leaves valid batches after any number (section 14).

Left to the input: how calls are found in MIR and generic instances resolved, and the types of expressions; that a syntax
node has the type of its own lowering is section 10. The values in ranges are not modelled: `range_limit_swap` moves an end
by one, which overflows at the bound of its type. `call_ignore` looks for recursion through the default value in the direct
calls of its implementation only, and so does the model.

## 10. BodyResolutions

`mutest-emit` mutates the syntax tree and knows types and calls of the HIR only. `BodyResolutions` collects the matches between
the two: `VisitItem` takes the next item of the crate, `VisitNode` records the ids of a pair (`insert_same` panics if one of
them is known to belong to another) and goes on to the pairs that `AstLowering!Walk` has for it; `Mismatch` is a panic or a
warning where the walk has no case. `Validate` is `--verify-ast-lowering`, `FindDef` the lookup of a definition.

`RustcLowering` is the environment: a node is its kind, a label for what the lowering looks at (a name, a resolution), an id
and its children, and `Lower` says what `rustc` makes of it: loops and `?` and `.await` become matches, `async` functions move
their parameters into a coroutine, assignments to patterns become a `let` and assignments, statements and predicates move.
The id of a lowered node says what it stands for, which is how the properties know the truth that the code has to find out.

* `EveryNodeMatched`: every match is of a node with its own lowering, never with that of a neighbour; the walk does not panic or
  warn, and the validator finds no node without a match, except in exactly these cases:
  * The walk panics (`StopsWalk`) at a path on a type that is a projection: `<T::Item>::default()`, of which the number of segments is taken down below zero, or
    `unreachable!` (`ast_lowering.rs:1447`), `<<T as Tr>::Item>::default()`, where one node is given two ids (`:1774`); at `async fn f((x): u32)`, as the parentheses hide that the
    parameter is a plain one (`:424`), and the statements run out; and at a parenthesized type of a parameter of a function without a body, which
    is visited with the parentheses (`:321`).
  * These have no match (`NeverMatched`): `_` as a generic argument and the literal of `-1` as a pattern (`:1526`, `:1247`), and what is in foreign modules: foreign
    items are not collected (`:2022`), but validated.
  * The validator itself panics at an empty block: `block.stmts.len() - 1` (`:2176`), where the build checks arithmetic (`HasEmptyBlock`).
* `FoundIsAsked`: a definition that is looked up is that definition; it is not found only if it is an import, or in the body of a
  constant, which is not searched. The lookup panics exactly where a block of a function has an item that is named as one of an earlier block, or one that is looked up is in such
  an item (`HasNamesake`); `ItemsOfPathSuffice` is that it never does, as a comment of the code says, and does not hold (finding 6).

Run `builds`: each type, pattern and expression that `ast_lowering.rs` has a case for, in a function with parameters, nested
items and other statements around it, in an `async` function, in a constant and as the value of a block; generics, traits, impls
and foreign blocks nested in functions, closures and modules; and each of the exceptions (`OtherCrates`). Run `lookup` is finding 6.

Not included: binders of closures, `for await`, `gen` functions, paths that start with `$crate`, nested patterns in a
destructuring assignment that is in parentheses, unions, trait aliases, assembly, and pattern types.

## 11. Name hygiene

Mutations are written into the expanded program, which is printed and compiled again. A name in it may have come out of a macro,
and mean what only the macro can see: `MacroHygiene` is the pass that rewrites every such name first.

`program` is what the compiler knows, `printed` the same tree as far as it is rewritten, `at` the node that is visited next, `hack`
the flag that says whether the visit is in a top-level item of a macro 2.0. There is one step for each node, in the order of the visit:
`VisitItem`, `VisitExternCrate`, `VisitUse`, `VisitAssocItem`, `VisitMember` (fields, variants, type parameters), `VisitLet`, `VisitBlock`,
`VisitLabel`, `VisitPath`, `VisitQualifiedPath`, `VisitTypeDependent` (fields and methods of a receiver), and `Done`. A step may panic
(`outcome`) where the node refers to something for which no path was found.

`VisiblePaths` is the search for such a path: down from a scope and its parents (`DescendantDefPath`), through the `use`s and reexports
that are visible from there, through the parents of a definition of another crate (`visible_parent_map`), and the forms in which a path
is then written (`self::`, `super::`, `crate::`, the name of a crate, a type).

`NameResolution` is the environment. A name is a word and the marks of the expansions it came out of; `macro_rules` marks hide
locals and labels, those of macros 2.0 hide items as well. It has modules, blocks, imports with globs and renamings (a fixed point in
at most `Rounds` rounds), preludes, other crates, visibilities, and type-dependent names. It says what `program` means, and in the same way what
`printed` means to a compiler that knows of no macro.

* `PrintedMeansTheSame`: when the pass is done, every reference in the printed program resolves to what it resolved to before, every item
  is as visible as it was, and no two names of a scope have become one, except in the cases below, and in all of them.
* `PanicsOnlyAtHiddenNames`: the pass panics only where the node refers to something that no path from there may name, or in the cases below.
* `LocalsAreHygienic`: variables and labels are what they were where they are defined, as a comment of the code says. Does not hold (finding 7).

Run `builds` takes the programs of `MCHygienePrograms`, after the crates of section 10; the two sides are varied one at a time, as they
have nothing in common but the order of the passes. The families are: paths of each form from each place; items that differ in marks only;
locals and labels under nested expansions; imports (lists, globs, renamings, chains of reexports); items in blocks, and uses that they shadow;
types, enums, impls and what depends on a receiver; restricted visibilities; and other crates, with `$crate`, private modules and reexports. Each
is expanded by a `macro_rules`, by a macro 2.0, or in part by each, and in two of them by one macro in another. No import of a program needs more
than four rounds. `ExceptionPrograms` are the programs that the pass does not keep, and neighbours of them that it keeps.

Where the printed program means something else. `KeepsMeaning` is an equivalence, for each reference and each visibility: it is kept if and only if it is none of these
(`RefNotKept`, `RestrictedInBlock`).

* A name is written with its last mark alone. Two names of a scope whose last marks agree become one (`HasTwin`); a label and its use are apart where theirs differ, and
  a label nearer by is taken if it is written alike (`LabelNotKept`).
* A written path starts with a bare name, and a variable or type parameter is nearer that is written like it (`HiddenByBinder`): a `let` of a macro after what
  was captured, or a local around a use of an item.
* An item or an import of a block further in is written like it (`HiddenByBlock`), in `<>` also one of any block around, as a type there is written as if there
  were none; `use a::b::{self}` in a block, of which `self` and not `b` is remembered as the name it brings into scope (`HiddenBySelfImport`).
* An item of a trait that is in scope where the macro is defined, and not where it is used (`TraitNotInScope`).
* A variant of an enum that only an alias leads to (`VariantOfAlias`).
* What is restricted to a module of a block, as by `pub(self)`: there is no path to such a module.

Where the pass panics, although there are paths (`PanicsAtNameable`):

* an import that goes through an item of a block; one of a macro through a private module of another crate; one written by hand that follows an item of a
  macro 2.0 in its module, as `hack` is still set;
* something of a crate that only an `extern crate` in a module out of reach names, and which so counts as a crate that can be named everywhere;
* a visibility restricted to a module of a block.

Not in the instance: names that are written as they are in the paths of aliases; and a hidden module that reexports itself, where `visible_parent_map` (`res.rs:743`) climbs
from parent to parent without an end.

## 12. External mutants

An integration test is a crate of its own, linked with the library that it tests. `ExternalMutant` is how such a test is built against a
mutated library: several processes, which meet in files only.

| step | code |
|---|---|
| `EmitMetadata`, `LinkLib`, `Publish`, `PublishFails` | `compile_recompilable_dep_crate`: metadata first, for which other libraries wait, then the library, then a record beside each artifact. A macro or a probe of a build script is compiled by `rustc` alone (`FallsBack`) and has no record |
| `StartTest`, `StopTest` | the driver of a test, once all it links is done; it stops when another part of the build has failed, if `cargo mutest` gave it a marker |
| `CheckRuntime`, `WriteAside`, `RenameRuntime` | `extract_file`: the embedded runtime replaces a file of another version |
| `AnalyzeTest` | `mutant_crate_for_tests`, and what the child is asked for: the record, the targets in stable form, the suffix, the records of the dependents |
| `WriteRequest`, `RequestFails`, `ReadResult`, `ChildHasFailed` | `compile_in_child` in the driver, with the removal of the exchange directory |
| `ChildCompiles`, `ChildReports` | the child: a driver in the recorded environment (`read_replay_request`, `Targets::decode`, `into_target_session`, `write_replay_result`) |
| `RebuildDependent` | `rebuild_dependent`: what stands between the tests and the mutant is compiled again against it |
| `CompileTests` | `compilation::run`, with the externs and search paths of `inject_runtime_crate_and_deps` |

A build (`Build`) is the crate, the suffix of its name, the mutations in it, the environment it was compiled in, and the builds that it was
compiled on. `Links` is what `rustc` asks: each crate that is linked is found by its hash in a directory that is searched, and there are not two
builds of one crate. So a crate that was not built again, or was built on the wrong mutant, shows in what the test links.

* `LinksOwnMutant`: the test links the mutant of its own targets, the crates above it built on this mutant, the runtime of this version, and all
  else as it is. The mutant is the only candidate, or the library of the package, or the candidate below all others that the tests name, and where no
  crate is clearly meant the tests are left out. This holds while another test is built against the same or another library, whatever was left.
* `BuildsEnd` (liveness): every driver ends, with an error just when something it needs is missing or fails (`Doomed`), and its child with it; no
  exchange is left.

The workspaces (`Ways`, 86) are: three libraries above each other, low <- mid <- top, with tests of one name in the packages of low and of top, built
together from nothing, up to date, with a runtime of another version, with an old exchange, with sources changed since; one of these tests alone,
with each of the faults (a record, the exchange, the child, its report, a dependent, a source edited in between), each record unusable or
missing, every set of candidates, tests that name only a part, every kind of target, without Cargo, and without a test binary to
emit; two libraries side by side and one on both; and a library with a macro beside it or built on it. Two tests are the least that can disturb
each other, and the chain has a crate below, at and above the mutant. The tests that are built together choose different mutants (low and top), of
which one is built on the other.

What the model takes the code for, and a reader may not expect: `choose_mutant_crate` may choose a candidate that is linked only through another
crate (`analysis.rs:126`), and `inject.rs:205` then stops the build, as it is no extern of the tests, where `analysis.rs:146` says that tests without a mutant should
not stop the others. A macro built on the mutant has no record, and stops the build too (`invocation.rs:182`). The environment of a child is
cleared, and the marker is not among what it is given again (`specialized_crate.rs:93`): a child goes on when the build has failed. These are in
`Doomed`, in the actions, and in `BuildsStop` (section 8).

## 13. Fairness

`TestRun!FairSpec`: weak fairness of the scheduler, of each thread and of the passing of each limit. The
scheduler is one thread whose waits are in its guards; threads run under the operating system; time passes.
A test in `Hanging` never completes by itself, so fairness of its thread gives nothing; a failing monitor is
not assumed to fail. `Supervision!FairSpec`: weak fairness of the worker, of the supervisor, and of the end of a
worker that outlives a stop signal (it is killed a second later, `Attempt::escalate`). The ends of tests
inside the worker are taken as part of the worker's steps because limits end them (`TestRun!RunEnds`). Crashes,
stop signals, deferred timeouts and write failures are never forced. `MutationAnalysis!FairSpec`: the analysis, each
run, each thread of the pool that has a job whose test ends, and the giving up of late tests.
`IsolatedProcess!FairSpec`: the monitor, which polls, and the passing of its deadlines; the owner and the test may
do nothing for ever, and only `OwnerCleansUp`, which is about the owner, assumes that the owner runs.
`MutationChild!FairSpec`: the parent and the limits, and from `subprocess::run` that a child that ended or was asked
to is cleaned up and its outcome sent (`RunReturns`); the child itself may hang. `TestThreads` claims no liveness: an
abandoned test may run for ever.

`MutationGeneration!FairSpec`: the pass is one thread, so `WF_vars(Next)`. Simulated annealing draws for a move until it finds one, and
where there is none it never ends; `GenerationEnds` names that case (`NoRoom`). `CargoRun!FairSpec`: Cargo ends its builds,
the thread of a driver notices the marker, a walk that was asked to stop does, and a driver that does not walk comes to the end of what it does (`Proceeds`), unless it draws.
A walk may take for ever if nobody stops it, and so may a test or a worker: `BuildsStop` is the only liveness claimed there.

`CompilerPasses!Passes`: weak fairness of `BuildTests`, all steps of drivers and children taken together. Each is a process that the operating system
runs, a driver waits for its child only, and each has finitely many steps; `rustc` is taken to end. The two passes before it are one thread, and nothing about
their end is claimed.

`WorkersSpec`, `RunsSpec` and `BuildsSpec` (section 2) ask of each system what its own specification asks, and nothing of a system that rests.

## 14. What is proved

`TestIsolationProofs` has two parts. Of `TestThreads` it proves, for every finite set of tests and all mutants, slots and
reachability:

* `ThreadsTypeCorrect`: in particular the count never falls below zero, where it would wrap;
* `CountExact`, `NoForeign`, `LiveRunsOwn`, `NeverAborts`: the four properties of section 3.

The only assumption is `TestThreadsAssumption`; what it asks of the program is that a test *reaches* the slot of the mutant
it is run for, which is how tests are chosen for a mutant (`is_reachable_test`).

The properties are not inductive. `ThreadsInv` adds three parts:

1. `SignalInv`: who clears the signal first. While a test is running or about to be given up its signal is set
   exactly until its thread ends; the thread decrements the count only when it lingers, the runner only
   when the thread had ended. With `CountIsExact` this is inductive (`CountRises`, `CountFalls`, `CountKept`).
2. `HandleInv`: what the slots hold. The mutants in it are active, in their own slots, and without conflict;
   so a slot that a live test reaches holds its mutant or none (`LiveReadsOwn`, by `OwnConflicts`).
3. `RegInv`: a thread that read a foreign mutant is one that was given up. By `CountSeesLingering` it then finds
   the count above zero, by `SignalInv` its signal cleared, and drops what it read before `Apply`.

`LiveRunsOwn` adds `LiveInv` (a live thread holds its mutant at its own points), and `NeverAborts` needs types
only. TLC checks each of the four on the instance; the proofs are for any, and `ThreadsTypeOK` is proved and no property of a run.

Of `IsolatedProcess` it proves, for any set of results:

* `Refinement`: `IsolatedProcess` implements `OwnedProcess` (`KeepsOwnedContract`). Each step is mapped to a step or a
  stutter: `SpawnTest` to `Start`, the exit of the test to `Exit`, `KillDescendants` and the end of what was left to
  `Clean`, the monitor's last step to `Return`, giving the owner up to `Fail`.
* `CompletionStands`: `CompletionSurvivesCancel`; and `TypeCorrect`.

The refinement holds because of four facts that the run does not name: the test is started and exits only under an
owner that is executing (`TestInv`); a whole report was written after everything was killed, and what is read was
written (`ReportInv`); a decided result is the test's exit and a cancellation has somebody who asked for it
(`DecisionInv`); an owner that exited well has reported (`ExitInv`). `IInv` is their conjunction with the types. The
assumption `IsolatedProcessAssumption` says that the results are distinct from the other outcomes.

`TestRunProofs` proves, for every finite set of tests in any order, any mutations, child and hanging tests, concurrency and
sizes of the pool:

* `TypeCorrect`, `VerdictsHold`, `AccountHolds`: `TypeOK`, `VerdictHasWitness` and `NothingLost` always hold; `DetectionStops`:
  the action property `DetectionStopsTests`.
* `ContractKept`: `TestRun` implements `RunContract` (`KeepsContract`). Most steps leave `WatchOf` or what was `seen` as it is
  (`Same`); a report changes one result (`SeenOne`), the end of a phase gives up all that runs (`SeenGivenUp`), and the other steps
  are one action of the contract each (`ContractStep`).

`IInv` adds three parts. `PlaceInv`: a test is in one place (queued, in the hand of the scheduler, running, lingering), and in the
right phase, which says that a test is started once, and that only a test that is over has a result. `ChannelInv`: the message that a
join waits for is at the head of the channel, and only a child crashes. `AccountInv` is what `NothingLost` means before the end: in each
phase the tests without account are queued or running, those of the first phase are handed over or unstarted when it is over. Without the
first, a result could be overwritten; without the last, nothing is known when the run returns. `Unaccounted` can only shrink, because a
verdict that is settled stays settled.

`SupervisionProofs` proves, for all setups (any finite set of mutations in any disjoint mutants, of which any crash the worker):
`TypeCorrect`, `CompletionHolds`, `JournalHolds`, `IsolationHolds` and `WitnessHolds`. The parts of `IInv`:

1. `JournalInv`: between workers, and before one has opened it, the journal can be read; if no row was lost the worker in charge can write.
2. `WorkInv` and `RowsInv`: within a worker each mutation is under evaluation, undecided, deferred or has a result, one of them at a time; and what
   it knows is what the rows say. The second makes `results` comparable with `finished`, the two sides of `CompletedIsComplete`.
3. `CompletionInv`: when the completion is recorded, nothing is left; and no worker starts out with a record.
4. `EndedInv`: a mutation that ended a worker is isolated, or is started and unfinished, so that the next worker will isolate it, or is finished
   while a part of its mutant is still isolated. The last case is the subtle one: a batch is evaluated as a whole, so a mutation that is itself
   no longer unfinished stays out of the process only as the rest of its batch is isolated (`Confined`).
5. `StatusInv`: what a witnessed completion and a cancellation say of the order of stop and completion.

`MutationAnalysisProofs` proves, for any finite set of mutations, conflicts, batches (disjoint, and without conflicts: `BatchesValid` of
`Batching`), order, unsafe and truncated mutations, and size of the pool: `NoConflicts`, `ActiveHolds`, `ConfirmsAlone`. `IInv`: the units of the
mode (`UnitsInv`), one unit at a time outside of the scheduler (`OneInv`), what the scheduler holds (`SchedulerInv`), and that
the handle holds no conflict (`Peaceful`). `SchedulerInv` is the point of the proof: it separates `running`, which may still hold mutants that
are done, from the runs that are active, and says at which step of the pass the handle must cover which of them. `PoolInv` relates the busy threads
that were read at the start of the pass to the mutants that are under way now.

`MutationChildProofs` proves, for any queue, `TypeCorrect`, `ResultsHold` (`ResultIsItsTests`) and `AloneHolds` (`RunsAlone`). The report has
no names: the parent takes the n-th line for the n-th test it asked for. `OrderInv` is why that is right although the child runs ahead: what the parent
expects is as long as what was passed, what is in the report and what the child has still to run, in this order, and each pass is that of its place.
`TurnInv` says whose the exit of the child is, `OutcomeInv` that an exit was observed before the report was found empty, `AloneInv` that a test
that must run alone shares its child with none.

`MutationGenerationProofs` proves, for any tests, functions, programs, limits, modes, filters and ways to batch:

* `MeetsOnly`: `MeetsOnlyItsMutation`, the property of section 9. It is the one result that needs every part of the pass.
* `TableHolds`: `FollowsTable`, for whatever the operators propose.
* `BatchesHold`: `BatchesValid` always holds, which is what `MutationAnalysisAssumption` asks of its batches.
* `TargetsAreExact`: `TargetsExact`, for call graphs with paths of any length.
* `AllCompile`: `MutantsCompile`, for any places, and types nested to any depth.

The argument follows the pass, and `IInv` has one part per link:

1. `GraphInv`: what a test or a recorded function calls is recorded, left out for the depth limit, without calls, or still to be recorded.
   So when the walks begin, nothing is missing from the graph but what `cutCallers` names (`GraphStep`).
2. `WalkInv`: a walk has reached what its test calls, reaches nothing that the test does not reach, and of each function that it has
   reached and that is not in its queue it has the callees, or the test is marked as truncated. How far and by which unsafe path does
   not matter here, so neither does the order of the calls: `FollowAllReaches` says what a walk knows after any calls, by induction.
3. `WalkedInv`: a test that has walked is recorded on all mutable functions that it truly reaches, unless it is marked. This
   needs no path: what the walk has reached is closed under calls, so it holds what `TrulyReached` defines as the least such set.
   `ReachInv` is the converse, and that each target is reached by some test.
4. `ConflictsInv`: two mutations that do not conflict share no test, and their tests are not truncated. With 3, a test of the
   one does not reach the function of the other at all, also not by calls that a limit hid (`ApartInFunctions`).
5. `BatchesInv`: the batches and the mutations still to be placed are a partition, batches are within the size and without conflict;
   `BatchJoined`, `BatchAdded` and `BatchMoved` are the three ways to change them, `OrdersHoldAll` says that each order has each mutation once.
6. `Sets` (not an invariant): a map sets only slots of its mutations, and one slot of each. `SubstMapSets` shows it of batches, as mutations
   in distinct functions never set the same slot, `OverlaySets` of two maps laid over one another; `SetsThenMeets` concludes with 3 and 4.
7. `TaintInv` and `MadeInv`, for the table: a function that safe paths alone lead to keeps the unsafety of its own code, whatever walks come
   to it (`RecordTargetTaints`), and from the operators on there is a mutation at a place of a selected function exactly if the function is not
   skipped, the place is offered and something is proposed for it (`AppliedMutations`, `MutationsOfHold`). `SafelyReached` then turns
   the two tests of the code, `Skipped` and `CountsAsUnsafe`, into conditions on the source, and the cells of the table are cases.

For `TargetsAreExact` there is a second invariant, `DistancesInv`, which is relative to the first and needs neither paths nor the order of the search:

1. `RecordingInv`, `RecordedInv`: distances that no call exceeds put each function that is not recorded and makes calls where the recording has
   come; so when it stops at the depth limit, what is left out is as far as the mutation depth (`AllFurther`, `RecordedAtLast`).
2. `Sound` (in `SearchInv` for the queue, in `SoundInv` for the targets): nothing that is found is nearer than any such distances, or more unsafe than any
   sources that no call exceeds (`NotTooSafe`). It is handed on along calls (`SoundAlong`), so no path has to be named.
3. `SearchInv`: where the walk has not been as near as it knows a function to be (`Near`), or by as unsafe a path (`Worst`), the function is in the queue, that
   near or that unsafe. `reaches_closer_or_more_unsafely` puts it there (`FollowImproves`), whether to the front or to the back; a call that is cut by the
   trace limit, or not recorded for the depth limit, is as far as the mutation depth (`CutIsFar`).
4. `Left`: when the queue is empty, what the walk knows is itself such distances, at most any number (`CapHolds`), and such sources; with 2 they are the least and the
   most unsafe (`WalkLeaves`). Later walks only make targets nearer (`LeftStays`), and the nearest of all tests are again such distances (`NearestOfAll`).

For `AllCompile` there is no invariant beyond `program \in Programs`; the work is in the operators. `ProposalsFit` says of each that its guards are enough for what
`Compiles` and `HasEffect` ask. Three of them are not seen at a glance: a catch-all arm without a guard always stays behind a deleted one (`ArmsFit`), a value that
`fn_return_default` builds is of the returned type at every depth, and with `MAX_TY_DEPTH` (`ReplacementsFit`, by induction along the type; the recursion of
`Replacements` is first shown to have a solution, `ValuesExist`), and where a default is put for a call, nothing borrows from a temporary (`CallOperatorsFit`). `OfferedStands`
is the part of the collector, and `EnumeratedWithin` says that the numbering of the proposals adds none.

What the operators propose matters to `AllCompile` only. TLC finds no violation of `IInv`, nor of the parts of `DistancesInv` with distances up to 3, on the instance of the run `generation`. The assumptions are `FnsAssumption`,
`ProgramsAssumption` (calls are of functions, safety is one of three), `LimitsAssumption` (no limit is below the mutation depth, as the driver demands)
`PlacesAssumption` (a place has finitely many proposals) and, for `AllCompile` only, `CompiledAssumption`: the places are those of a program that compiles, where a binding
covers every value, a loop at the end of a block gives it its type, `str` has no parameters, and an operator with a `let` in it stands in a let chain.

`CargoRunProofs` proves, for any targets and what their harnesses hold, any options and number of iterations, process ids (used again or not),
and one worker or two for each harness: `RunCodeTrue` (`RunCodeIsTrue`), `ProgressIsTrue` (`ProgressTrue`) and `ReportIsTrue` (`ReportTrue`). Six
parts of `IInv` are about the worker, five about the builds, the harnesses and Cargo:

1. `ProgressInv`: the reader is where the writer is (`Followed`): same phase, same active tests. Each call keeps this, whether the record is
   written or refused (`PhaseFollowed`, `StartFollowed`, `EndFollowed`, `TerminalFollowed`), if it is made at the right moment, which is what the rest says:
   numbers of tests are new (`active` within `1..ids`), and a phase is set before a test starts.
2. `RunInv` and `ResultsInv`: a test of a run is to run, runs, or has a result, never two of these; so a result is given once, and only by a test that
   reaches the mutation. The verdict is `Undetected` exactly if all these results are (`ResultTaken`).
3. `CompletionInv`: a completion record means that all mutations are judged, is the code of their results, and comes after the monitor has ended.
4. `MonitorInv` and `StreamInv`: a test that was started runs, was given up in this run, is in one batch of the channel, or is watched. Only in these
   places may its results be missing in the stream, and when the monitor has ended there are no such places.
5. `BuildInv`: the marker names the culprits, a harness starts only when all is built, and a run with a build that is not built has an empty log.
6. `HarnessInv`, `CertifiedInv`: how each harness ended, that an exit of a completed analysis was certified by its results (`CompletedOutcome`), and that a
   harness that was certified ended so or was killed.
7. `LogInv`: if nothing was lost, `read` makes of the log the codes of the harnesses that ended, and the harness at hand is the last one without an exit, so
   `record_exit_of_latest` gives its exit to no other harness with its process id (`ExitIsRead`). It is by induction over the rows (`ReadRecursion`, `ReadOneMore`).
8. `CodeInv`: what Cargo exits with.

`ReportIsTrue` needs two more facts, about operators: the entry of the subsumption matrix by the sets of detecting tests (`SubsumptionBySets`; the half below
the diagonal is reversed), and that outcomes of which one is `Undetected` are more than one exactly if another is not (`MoreThanOne`). `RunCodeTrue` rests on
`WorstCompleted`: the worst code is that of a completed analysis exactly if all are. The assumptions are `WorkerAssumption` and `CargoAssumption`: a harness has
finitely many mutations, each option has its range, and each target its harness. TLC finds no violation of `IInv` on the instance `MCCargoRun`.

`Queues` holds the facts about queues that these proofs need: what filtering (`KeepKeeps`), popping (`PopLeaves`), `PushFrontHolds` and
removing leave. What `Keep` computes for a queue of any length is by induction over the queue. The induction theorems of the library cannot be used here (they take
an operator), so the induction is by the least counterexample, from the well-foundedness of finite sets under inclusion (`LeastNatural`), and the function that `Keep`
is defined with is first shown to exist (`KeptExists`).

The assumptions are those of each model (`TestRunAssumption` and so on): the sets of tests and mutations are finite, queues hold each element once,
the subsets are subsets, and the marks for "no result" are not results.

Model-checked only:

* All liveness (`RunEnds`, `SupervisorEnds`, `AnalysisEnds`, `OwnerCleansUp`, `BuildsEnd`, ...), which the prover does not treat; and
  fairness with it: the theorems are about `Spec`.
* `BodyResolutions`, `MacroHygiene`, `ExternalMutant`: their trees and graphs need recursive operators, out of the prover's reach.
* `QueuedTestsRun`, `StopCancelsCompletion`, `SafeCalleesTainted`, `ZeroMeansCaught`, `AlwaysABatch`, `ItemsOfPathSuffice` and `LocalsAreHygienic`, which do not hold (section 16).


## 15. Not modelled

* How syntax trees are built (`codegen/ast.rs`) and types are printed (`analysis/ty.rs`). `Metamutant` begins where a mutation has its place.
* Of name hygiene: generic arguments, lifetimes, attributes, associated types, struct patterns, constants in types, and derive macros.
* Of the lowering, the constructs listed at the end of section 10.
* Finding calls in MIR and resolving generic instances (`analysis/call_graph.rs`, the queries): the graph is the input of `CallGraph`.
* Of the driver: targets other than the host and their search paths, what is printed, the timings, the metadata files, and the library path that a child is given.
* JSON output, the inspector, the options of driver and `cargo mutest`, build shims: input and output.
* The portable variant of `subprocess.rs`, the containment on Windows and macOS, and embedded targets (a prototype).
* Weak memory: `test_runner.rs:266` loads the count `Relaxed` (section 3).
* Threads that a test spawned, and what a passed test leaves in a mutation child (`docs/open-defects.md`).
* In `Supervision`: a completion record that cannot be read. In the thread pool: the packets of a job, and a worker thread that panics.

## 16. Findings

1. `run_queued`: with one test at a time (or when all that run exceed their limits in one pass) the loop of
   `run_until_all_finish` (`test_runner.rs:838`) ends as soon as nothing runs, also when tests are queued. With
   `--exhaustive` they are not run, and a mutation of a batch whose tests were still queued is reported as
   undetected.
2. `supervision_stale`: `COMPLETION_ORDER` (`supervisor.rs:245`) is never reset between workers. If a worker whose
   completion was witnessed then ends otherwise, and is replaced, a stop signal during the next worker is not
   first any more: its completion counts although the stop came before it.
3. `generation_taint`: the walk hands a safe callee the unsafety of the path *to* its caller, never that of the caller
   (`call_graph.rs:882`). A safe function called by one with an unsafe block, outside of that block, is not tainted, so `--cautious`
   mutates it as safe code; the comment at `call_graph.rs:799` and the diagram below it have it tainted.
4. `exit_code_zero`: `verdict_exit_code` (`harness.rs:1070`) takes no notice of crashed mutations, and with `--flakes` the code is 0 whatever was found
   (`harness.rs:1065`); `README.md:83` of the repository says of 0 that the tests caught every mutation.
5. `generation_anneal`: simulated annealing on a crate without mutations is given no batches, and reaches the `unreachable!()` at `mutation.rs:1042`. The loop around
   it (`:1041`) never ends where no mutation may be moved, as with a single one.
6. `lookup`: two functions of one name in two blocks of a function have the same path of items. The first one is found for both, and `span_bug!`
   (`ast_lowering.rs:2752`) ends the compiler; the comment at `:2733` says that the item-like components suffice.
7. `locals`: a label is written with its own marks (`hygiene.rs:1808`), and so is its use. A `break` of a macro that is defined inside of the loop has a mark that the label has not,
   and leads nowhere in the printed program; the comment at `hygiene.rs:103` has labels and locals hygienic. A `let` with the marks of an earlier one captures its uses, too.

One more has no run of its own, as it is one look-up and no behaviour: where the chosen mutant is linked only through another crate, `inject.rs:205` stops the build, although
`analysis.rs:146` says that tests without a mutant should not stop the others. `LinksOwnMutant` and `BuildsEnd` count it among the builds that must fail (`Doomed`, section 12).

## 17. What is left

1. The refinement of `RunContract` by the runs inside `MutationAnalysis`.
