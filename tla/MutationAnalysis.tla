--------------------------- MODULE MutationAnalysis ---------------------------
(***************************************************************************)
(* The analysis of a worker that did not crash                             *)
(* (mutest-runtime/src/harness.rs, run_mutation_analysis and               *)
(* evaluate_alone; harness/scheduling.rs, timeouts.rs), on the thread pool *)
(* of thread_pool.rs.                                                      *)
(*                                                                         *)
(* Mutants are evaluated one by one, in batches, or side by side by the    *)
(* dynamic scheduler, which reads how many threads of the pool are busy    *)
(* while runs start, end and give tests up.  Mutations that timed out run  *)
(* again at the end.  A run here has one test for each of its mutations:   *)
(* what a run does with several is TestRun's.                              *)
(***************************************************************************)
EXTENDS Naturals, FiniteSets, Queues

CONSTANTS
    Mutations,
    Order,      \* the mutations in the order of the meta mutant
    Batches,    \* the batches, in order, of the batched mode
    Conflicts,  \* the pairs of mutations that one test may reach both of
    Unsafe,     \* the mutations isolated by --isolate or by the journal
    Truncated,  \* those reached past the limits of the call graph
    Hanging,    \* the mutations that make their test hang
    PoolSize,   \* the threads of the pool, which is also the width of the scheduler
    RerunWidth, \* half the cores
    Resumes     \* what an earlier worker may have finished

ASSUME MutationAnalysisAssumption ==
    /\ IsFiniteSet(Mutations)
    /\ Order \in Seq(Mutations) /\ ToSet(Order) = Mutations /\ IsInjective(Order)
    /\ Batches \in Seq(SUBSET Mutations)
    /\ UNION ToSet(Batches) = Mutations /\ {} \notin ToSet(Batches) /\ IsInjective(Batches)
    /\ \A B, C \in ToSet(Batches) : B = C \/ B \cap C = {}
    /\ \A p \in Conflicts : p \subseteq Mutations /\ Cardinality(p) = 2
    /\ \A B \in ToSet(Batches) : \A p \in Conflicts : ~(p \subseteq B)
    /\ UNION {Unsafe, Truncated, Hanging} \subseteq Mutations
    /\ PoolSize \in Nat \ {0} /\ RerunWidth \in Nat \ {0}
    /\ Resumes \subseteq SUBSET Mutations

VARIABLES
    mode,      \* the kind of MutationParallelism
    earlier,   \* the mutations that an earlier worker finished
    mpc,       \* where the analysis has got to
    remaining, \* the units still to evaluate: mutants, or batches
    unit,      \* the unit under evaluation, where only one is
    seen,      \* the busy threads as the scheduler read them
    newly,     \* the mutants scheduled in this pass
    scheduled, \* whether the pass scheduled any
    running,   \* running_mutants
    unchecked, \* the running mutants that the pass has still to look at
    removed,   \* whether the pass found one finished
    handle,    \* the mutations in the active mutant handle
    run,       \* where the run of each mutation has got to
    timedOut,  \* whether the run found it timed out
    job,       \* the job of the test in each phase
    deferred,  \* timed_out_mutations
    again,     \* the reruns of isolated mutations still queued
    recorded   \* how often the result of each mutation was recorded

loop == <<remaining, unit, seen, newly, scheduled, running, unchecked, removed>>
runs == <<run, timedOut, job>>
vars == <<mode, earlier, mpc, loop, handle, runs, deferred, again, recorded>>

Modes == {"alone", "batched", "dynamic"}
Phases == {"analysis", "confirm"}

-----------------------------------------------------------------------------
(* Definitions. *)

Confirming == mpc \in {"confirm", "confirming", "side", "done"}
Phase == IF Confirming THEN "confirm" ELSE "analysis"

\* ScheduledMutant::new looks at the call graph's limits as well; elsewhere only isolates does.
IsolatedUnit(U) == U \cap Unsafe # {}
Isolated(m) == m \in Unsafe \cup Truncated

\* The run of the mutation is in child processes.
InChild(m) ==
    CASE Confirming -> IsolatedUnit({m})
      [] ~Confirming /\ mode = "dynamic" -> Isolated(m)
      [] ~Confirming /\ mode # "dynamic" -> IsolatedUnit(unit)

\* Mutant: isolated mutants count, and those of this process do not.
RunsAlongsideIsolated(m, others) == \A o \in others : Isolated(o) => {m, o} \notin Conflicts

RunsAlongside(m, others) ==
    Isolated(m) \/ \A o \in others : ~Isolated(o) => {m, o} \notin Conflicts

InProcessSubstitutions(ms) == {m \in ms : ~Isolated(m)}

\* A unit is skipped if an earlier worker finished all of it.
FinishedBefore(U) == U \subseteq earlier

Units(d) == IF d = "batched" THEN Batches ELSE [i \in DOMAIN Order |-> {Order[i]}]

\* active_count: from the job's receipt until its worker is free for another.
ActiveCount == Cardinality({j \in DOMAIN job : job[j] \in {"running", "finished"}})
Held == {j \in DOMAIN job : job[j] \in {"received", "running", "finished"}}

Init ==
    /\ mode \in Modes
    /\ earlier \in Resumes
    /\ mpc = IF mode = "dynamic" THEN "load" ELSE "next"
    /\ remaining = Keep(Units(mode), {U \in ToSet(Units(mode)) : ~FinishedBefore(U)})
    /\ unit = {} /\ newly = {} /\ running = {} /\ unchecked = {} /\ handle = {}
    /\ seen = 0 /\ scheduled = FALSE /\ removed = FALSE
    /\ run = [m \in Mutations |-> "none"]
    /\ timedOut = [m \in Mutations |-> FALSE]
    /\ job = [j \in Mutations \X Phases |-> "none"]
    /\ deferred = {} /\ again = {}
    /\ recorded = [m \in Mutations |-> IF m \in earlier THEN 1 ELSE 0]

-----------------------------------------------------------------------------
(* The runs, on threads of their own, and their tests. *)

SetRun(m, state) == run' = [run EXCEPT ![m] = state]
SetJob(m, p, state) == job' = [job EXCEPT ![<<m, p>>] = state]
RunsOnly == UNCHANGED <<mode, earlier, mpc, loop, handle, deferred, again, recorded>>

\* ThreadPool::execute, or a child process.
StartTest(m) ==
    /\ run[m] = "spawned"
    /\ IF InChild(m) THEN SetRun(m, "child") /\ UNCHANGED job
                     ELSE SetRun(m, "testing") /\ SetJob(m, Phase, "queued")
    /\ RunsOnly /\ UNCHANGED timedOut

\* A free worker receives the job, then counts itself as active and starts the test.
ReceiveJob(m, p) ==
    /\ job[<<m, p>>] = "queued"
    /\ Cardinality(Held) < PoolSize
    /\ SetJob(m, p, "received")
    /\ RunsOnly /\ UNCHANGED <<run, timedOut>>

CountJob(m, p) ==
    /\ job[<<m, p>>] = "received"
    /\ SetJob(m, p, "running")
    /\ RunsOnly /\ UNCHANGED <<run, timedOut>>

\* The test ends, and its result is released; only then is the worker counted as free.
FinishJob(m, p) ==
    /\ job[<<m, p>>] = "running"
    /\ m \notin Hanging
    /\ SetJob(m, p, "finished")
    /\ RunsOnly /\ UNCHANGED <<run, timedOut>>

\* Mutant: a worker that ran a job is never counted as free.
UncountNever(m, p) == FALSE

UncountJob(m, p) ==
    /\ job[<<m, p>>] = "finished"
    /\ SetJob(m, p, "returned")
    /\ RunsOnly /\ UNCHANGED <<run, timedOut>>

\* The run gives up a test past its limit, which keeps its thread.
GiveUp(m) ==
    /\ run[m] = "testing"
    /\ job[<<m, Phase>>] = "running"
    /\ SetRun(m, "ended")
    /\ timedOut' = [timedOut EXCEPT ![m] = TRUE]
    /\ RunsOnly /\ UNCHANGED job

\* The run joins its test, or its child; the test may have passed its limit.
RunEnds(m) ==
    /\ \/ run[m] = "testing" /\ job[<<m, Phase>>] \in {"finished", "returned"}
       \/ run[m] = "child"
    /\ SetRun(m, "ended")
    /\ \E late \in IF m \in Hanging THEN {TRUE} ELSE BOOLEAN :
           timedOut' = [timedOut EXCEPT ![m] = late]
    /\ RunsOnly /\ UNCHANGED job

-----------------------------------------------------------------------------
(* Results. *)

Record(ms) == recorded' = [m \in Mutations |-> IF m \in ms THEN recorded[m] + 1 ELSE recorded[m]]

\* timeouts::finish_mutation: those that timed out within short limits are deferred.
FinishMutations(ms) ==
    \E short \in SUBSET {m \in ms : timedOut[m]} :
        /\ deferred' = deferred \cup short
        /\ Record(ms \ short)

ResetRuns(ms) ==
    /\ run' = [m \in Mutations |-> IF m \in ms THEN "none" ELSE run[m]]
    /\ timedOut' = [m \in Mutations |-> m \notin ms /\ timedOut[m]]
SpawnRuns(ms) == run' = [m \in Mutations |-> IF m \in ms THEN "spawned" ELSE run[m]]

-----------------------------------------------------------------------------
(* One mutant or batch at a time. *)

Evaluate ==
    /\ mpc = "next" /\ remaining # <<>>
    /\ unit' = Head(remaining)
    /\ remaining' = Tail(remaining)
    /\ handle' = Head(remaining)
    /\ SpawnRuns(Head(remaining))
    /\ mpc' = "await"
    /\ UNCHANGED <<mode, earlier, seen, newly, scheduled, running, unchecked, removed>>
    /\ UNCHANGED <<timedOut, job, deferred, again, recorded>>

\* Mutant: the results of a batch are recorded again for what finished earlier.
UnitResultsAll == unit

\* The mutations of a batch that an earlier worker finished keep their results.
UnitResults == unit \ earlier

FinishUnit ==
    /\ mpc = "await"
    /\ \A m \in unit : run[m] = "ended"
    /\ FinishMutations(UnitResults)
    /\ ResetRuns(unit)
    /\ unit' = {}
    /\ mpc' = "next"
    /\ UNCHANGED <<mode, earlier, remaining, seen, newly, scheduled, running, unchecked, removed>>
    /\ UNCHANGED <<handle, job, again>>

-----------------------------------------------------------------------------
(* The dynamic scheduler. *)

\* A running mutant holds a slot even while its tests run in child processes.
ReadActive ==
    /\ mpc = "load"
    /\ running # {} \/ remaining # <<>>
    /\ seen' = IF ActiveCount > Cardinality(running) THEN ActiveCount ELSE Cardinality(running)
    /\ mpc' = "schedule"
    /\ UNCHANGED <<mode, earlier, remaining, unit, newly, scheduled, running, unchecked, removed>>
    /\ UNCHANGED <<handle, runs, deferred, again, recorded>>

Fits(i) == \A m \in remaining[i] : RunsAlongside(m, newly \cup running)

HasRoom == seen + Cardinality(newly) < PoolSize

\* The first of the remaining mutants that may run alongside the others is taken out.
ScheduleMutant(i) ==
    /\ mpc = "schedule"
    /\ HasRoom
    /\ Fits(i) /\ \A j \in 1..(i - 1) : ~Fits(j)
    /\ newly' = newly \cup remaining[i]
    /\ remaining' = RemoveAt(remaining, i)
    /\ UNCHANGED <<mode, earlier, mpc, unit, seen, scheduled, running, unchecked, removed>>
    /\ UNCHANGED <<handle, runs, deferred, again, recorded>>

\* Mutant: the handle is set for the mutants that start, and not for those that run.
ActivateOnlyNewly ==
    /\ mpc = "schedule"
    /\ ~HasRoom \/ \A i \in DOMAIN remaining : ~Fits(i)
    /\ scheduled' = (newly # {})
    /\ handle' = IF newly # {} THEN InProcessSubstitutions(newly) ELSE handle
    /\ mpc' = "spawn"
    /\ seen' = 0
    /\ UNCHANGED <<mode, earlier, remaining, unit, newly, running, unchecked, removed>>
    /\ UNCHANGED <<runs, deferred, again, recorded>>

\* No more fit: the handle is replaced for the mutants that run and those about to.
ActivateNewly ==
    /\ mpc = "schedule"
    /\ ~HasRoom \/ \A i \in DOMAIN remaining : ~Fits(i)
    /\ scheduled' = (newly # {})
    /\ handle' = IF newly # {} THEN InProcessSubstitutions(running \cup newly) ELSE handle
    /\ mpc' = "spawn"
    /\ seen' = 0
    /\ UNCHANGED <<mode, earlier, remaining, unit, newly, running, unchecked, removed>>
    /\ UNCHANGED <<runs, deferred, again, recorded>>

SpawnNewly(m) ==
    /\ mpc = "spawn"
    /\ m \in newly
    /\ newly' = newly \ {m}
    /\ running' = running \cup {m}
    /\ SpawnRuns({m})
    /\ UNCHANGED <<mode, earlier, mpc, remaining, unit, seen, scheduled, unchecked, removed>>
    /\ UNCHANGED <<handle, timedOut, job, deferred, again, recorded>>

StartCollecting ==
    /\ mpc = "spawn"
    /\ newly = {}
    /\ unchecked' = running
    /\ mpc' = "collect"
    /\ UNCHANGED <<mode, earlier, remaining, unit, seen, newly, scheduled, running, removed>>
    /\ UNCHANGED <<handle, runs, deferred, again, recorded>>

\* is_finished is asked once of each; a run that has finished is joined.
CollectMutant(m) ==
    /\ mpc = "collect"
    /\ m \in unchecked
    /\ unchecked' = unchecked \ {m}
    /\ IF run[m] = "ended"
       THEN /\ running' = running \ {m}
            /\ removed' = TRUE
            /\ FinishMutations({m})
            /\ ResetRuns({m})
       ELSE UNCHANGED <<running, removed, deferred, recorded, run, timedOut>>
    /\ UNCHANGED <<mode, earlier, mpc, remaining, unit, seen, newly, scheduled>>
    /\ UNCHANGED <<handle, job, again>>

\* The substitutions of the finished mutants go; a pass that did nothing sleeps.
Deactivate ==
    /\ mpc = "collect"
    /\ unchecked = {}
    /\ handle' = IF removed THEN InProcessSubstitutions(running) ELSE handle
    /\ mpc' = IF ~removed /\ ~scheduled THEN "sleep" ELSE "load"
    /\ removed' = FALSE /\ scheduled' = FALSE
    /\ UNCHANGED <<mode, earlier, remaining, unit, seen, newly, running, unchecked>>
    /\ UNCHANGED <<runs, deferred, again, recorded>>

Wake ==
    /\ mpc = "sleep"
    /\ mpc' = "load"
    /\ UNCHANGED <<mode, earlier, loop, handle, runs, deferred, again, recorded>>

-----------------------------------------------------------------------------
(* The reruns of mutations that timed out. *)

AllEvaluated ==
    /\ mpc \in {"next", "load"}
    /\ remaining = <<>> /\ running = {}
    /\ mpc' = "confirm"
    /\ again' = {m \in deferred : IsolatedUnit({m})}
    /\ UNCHANGED <<mode, earlier, loop, handle, runs, deferred, recorded>>

Substitutions(m) ==
    IF mode = "batched" THEN UNION {B \in ToSet(Batches) : m \in B} ELSE {m}

\* Mutant: the reruns of this process start side by side as well.
ConfirmSideBySide(m) ==
    /\ mpc \in {"confirm", "confirming"}
    /\ m \in deferred \ again /\ m \notin unit
    /\ unit' = unit \cup {m}
    /\ handle' = handle \cup Substitutions(m)
    /\ SpawnRuns({m})
    /\ mpc' = "confirming"
    /\ UNCHANGED <<mode, earlier, remaining, seen, newly, scheduled, running, unchecked, removed>>
    /\ UNCHANGED <<timedOut, job, deferred, again, recorded>>

\* Those of this process come first, one at a time (in the order they timed out, which nothing
\* here depends on), with the whole batch in the handle.
Confirm(m) ==
    /\ mpc = "confirm"
    /\ m \in deferred \ again
    /\ unit' = {m}
    /\ handle' = Substitutions(m)
    /\ SpawnRuns({m})
    /\ mpc' = "confirming"
    /\ UNCHANGED <<mode, earlier, remaining, seen, newly, scheduled, running, unchecked, removed>>
    /\ UNCHANGED <<timedOut, job, deferred, again, recorded>>

FinishConfirm ==
    /\ mpc = "confirming"
    /\ \A m \in unit : run[m] = "ended"
    /\ Record(unit)
    /\ ResetRuns(unit)
    /\ deferred' = deferred \ unit
    /\ unit' = {}
    /\ mpc' = "confirm"
    /\ UNCHANGED <<mode, earlier, remaining, seen, newly, scheduled, running, unchecked, removed>>
    /\ UNCHANGED <<handle, job, again>>

StartSideBySide ==
    /\ mpc = "confirm"
    /\ deferred \ again = {}
    /\ mpc' = "side"
    /\ UNCHANGED <<mode, earlier, loop, handle, runs, deferred, again, recorded>>

InSideRun == {m \in Mutations : run[m] \in {"spawned", "child"}}

\* Each of the threads takes the next rerun from the queue, until it is empty.
TakeRerun(m) ==
    /\ mpc = "side"
    /\ m \in again
    /\ Cardinality(InSideRun) < RerunWidth
    /\ again' = again \ {m}
    /\ SpawnRuns({m})
    /\ UNCHANGED <<mode, earlier, mpc, loop, handle, timedOut, job, deferred, recorded>>

\* All threads have ended: the results are recorded in the order of the analysis.
FinishSideBySide ==
    /\ mpc = "side"
    /\ again = {} /\ InSideRun = {}
    /\ Record(deferred)
    /\ deferred' = {}
    /\ mpc' = "done"
    /\ UNCHANGED <<mode, earlier, loop, handle, runs, again>>

-----------------------------------------------------------------------------
Analysis ==
    \/ Evaluate \/ FinishUnit
    \/ ReadActive \/ ActivateNewly \/ StartCollecting \/ Deactivate \/ Wake
    \/ (\E i \in DOMAIN remaining : ScheduleMutant(i))
    \/ AllEvaluated \/ FinishConfirm \/ StartSideBySide \/ FinishSideBySide
    \/ \E m \in Mutations : SpawnNewly(m) \/ CollectMutant(m) \/ Confirm(m) \/ TakeRerun(m)

RunStep(m) == StartTest(m) \/ GiveUp(m) \/ RunEnds(m)

JobStep(m, p) == ReceiveJob(m, p) \/ CountJob(m, p) \/ FinishJob(m, p) \/ UncountJob(m, p)

Next ==
    \/ Analysis
    \/ \E m \in Mutations : RunStep(m) \/ \E p \in Phases : JobStep(m, p)

Spec == Init /\ [][Next]_vars

\* Every thread keeps running, and limits pass.
FairSpec ==
    /\ Spec
    /\ WF_vars(Analysis)
    /\ \A m \in Mutations : WF_vars(RunStep(m)) /\ \A p \in Phases : WF_vars(JobStep(m, p))

-----------------------------------------------------------------------------
(* Properties. *)

\* The mutations with a test in this process that was not given up.
Live == {m \in Mutations : run[m] = "testing" /\ job[<<m, Phase>>] \in {"received", "running"}}

\* No test whose verdict counts shares the process with a test of a conflicting mutation, or
\* finds the substitutions of one in the handle: a verdict stands for one mutation.
NoConflictingTests ==
    \A m \in Live : \A n \in Live \cup handle : {m, n} \notin Conflicts

\* From its start until it ends or is given up, a test's mutation is in the handle, however often
\* the scheduler replaces it for others meanwhile; and no more mutants are under way than the pool
\* has threads, whichever count of busy threads the scheduler read (harness.rs:700).
LiveTestsAreActive ==
    /\ Live \subseteq handle
    /\ Cardinality(running \cup newly) <= PoolSize

\* A timed-out mutation runs again in this process while no other test is live: what it competes
\* with is at most tests that were given up.
ConfirmedAlone == Confirming => Cardinality(Live) <= 1

\* The analysis ends although a mutation hangs its test, and again in its second run, as long as
\* the pool has a thread left; it has then recorded each mutation once, be it finished earlier, in
\* a batch of which a part was finished earlier, or at its second run.
AnalysisEnds == <>(mpc = "done" /\ \A m \in Mutations : recorded[m] = 1)
=============================================================================
