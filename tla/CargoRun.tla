------------------------------ MODULE CargoRun ------------------------------
(* A `cargo mutest run` (cargo-mutest/src/main.rs and summary.rs): Cargo      *)
(* builds the test harnesses side by side, each with a driver that stops when *)
(* another one has failed (mutest-driver/src/build_status.rs), and then runs  *)
(* them one after another; each is a supervisor that records how it ended     *)
(* (mutest-runtime/src/supervisor.rs) of workers (HarnessWorker). The run     *)
(* makes its exit code and its summary of what they left. How the supervisor  *)
(* judges a worker is in Supervision.                                         *)
EXTENDS HarnessWorker

CONSTANTS
    Targets,        \* the targets of the run, in the order in which Cargo runs their harnesses
    Pids,           \* process ids; a later harness may have that of an earlier one
    MaxWorkers      \* the workers a supervisor starts: at most one restart

ASSUME CargoAssumption ==
    /\ Targets \subseteq Nat /\ MaxWorkers \in {1, 2}
    /\ \A o \in WorkerOptions : DOMAIN o.suites = Targets /\ \A t \in Targets : o.suites[t] \in Suites

VARIABLES
    job,        \* "run" or "no-run"
    build,      \* the build of each target: "waiting", "building", "built" or "failed"
    driver,     \* where the driver of each build has got to, "none" if there is none
    asked,      \* the drivers that were asked to stop
    outside,    \* a build that no driver takes part in failed
    marker,     \* the build failure marker: whether it exists, and the builds it names
    log,        \* the exit code log
    summaries,  \* the summary log: <<target, "evaluated">> or <<target, "reference failed">>
    harness,    \* what the harness at hand is at
    target,     \* its target
    pid, workers, status,
    ended,      \* how each harness ended: its exit status
    cargo,      \* "removing" old files, "building", "testing", "exited", then "reported", "inspected"
    ccode,      \* the exit code of Cargo, NoCode if it was killed
    code,       \* the exit code of the run
    \* History, which no action reads.
    culprits,   \* the builds that failed by an error of their own before they were asked to stop
    unlogged,   \* a write to the marker or the log failed, or a harness died before its first row
    certified   \* what each harness completed with: the mutations judged, whether all were caught, and the code that their tests call for

builds == <<build, driver, asked, outside, marker, culprits>>
process == <<harness, target, pid, workers, status>>
reports == <<log, summaries, ended, unlogged, certified>>
cargoVars == <<job, builds, process, reports, cargo, ccode, code>>
vars == <<workerVars, cargoVars>>

-----------------------------------------------------------------------------
(* The builds *)

BuildFrame == UNCHANGED <<workerVars, job, process, log, summaries, ended, certified, ccode, code>>

\* RunReports::pass_to empties the files of an earlier run with this process id.
PassTo ==
    /\ cargo = "removing"
    /\ cargo' = "building"
    /\ log' = <<>> /\ marker' = [exists |-> FALSE, names |-> {}]
    /\ UNCHANGED <<workerVars, job, build, driver, asked, outside, culprits, process, summaries, ended, unlogged, certified>>
    /\ UNCHANGED <<ccode, code>>

Failing == outside \/ \E t \in Targets : build[t] = "failed"

\* The stages of a driver. It looks for a stop request only in the loops that walk the call graph. A driver of an integration
\* test waits for a child that generates the mutants for it (compile_in_child), and for rustc (rebuild_dependent). A driver that
\* generates mutants may come to draw for ever: simulated annealing may have no move to find (Batching!NoRoom).
StagesAfter ==
    [analysing |-> {"walking"}, walking |-> {"generating"}, generating |-> {"child", "drawing"},
     child |-> {"drawing"}, drawing |-> {}]

\* Cargo starts no more builds once one has failed.
StartBuild(t) ==
    /\ cargo = "building" /\ build[t] = "waiting" /\ ~Failing
    /\ build' = [build EXCEPT ![t] = "building"] /\ driver' = [driver EXCEPT ![t] = "analysing"]
    /\ UNCHANGED <<asked, outside, marker, culprits, cargo, unlogged>> /\ BuildFrame

BuildGoesOn(t) ==
    /\ build[t] = "building"
    /\ \E stage \in StagesAfter[driver[t]] : driver' = [driver EXCEPT ![t] = stage]
    /\ UNCHANGED <<build, asked, outside, marker, culprits, cargo, unlogged>> /\ BuildFrame

BuildSucceeds(t) ==
    /\ build[t] = "building" /\ driver[t] \in {"generating", "child"}
    /\ build' = [build EXCEPT ![t] = "built"] /\ driver' = [driver EXCEPT ![t] = "none"]
    /\ UNCHANGED <<asked, outside, marker, culprits, cargo, unlogged>> /\ BuildFrame

\* run_recording_build_failure and record_failure: a build that was asked to stop is not named; the marker may not open, or may
\* take no name.
RecordFailure(t, stopped) ==
    IF stopped THEN UNCHANGED <<marker, unlogged>>
    ELSE \/ marker' = [exists |-> TRUE, names |-> marker.names \cup {t}] /\ UNCHANGED unlogged
         \/ marker' \in {marker, [marker EXCEPT !.exists = TRUE]} /\ unlogged' = TRUE

\* An error of its own, or of its child: a child does not know the marker, which is not among what it is given.
BuildFails(t) ==
    /\ build[t] = "building"
    /\ build' = [build EXCEPT ![t] = "failed"] /\ driver' = [driver EXCEPT ![t] = "none"]
    /\ RecordFailure(t, t \in asked)
    /\ culprits' = IF t \in asked THEN culprits ELSE culprits \cup {t}
    /\ UNCHANGED <<asked, outside, cargo>> /\ BuildFrame

\* A driver that waits for a marker that names a build.
NoticeNamedFailure(t) ==
    /\ build[t] = "building" /\ marker.names # {} /\ t \notin asked
    /\ asked' = asked \cup {t}
    /\ UNCHANGED <<build, driver, outside, marker, culprits, cargo, unlogged>> /\ BuildFrame

\* The thread of stop_once_the_build_has_failed finds the marker and requests a stop.
NoticeFailure(t) ==
    /\ build[t] = "building" /\ marker.exists /\ t \notin asked
    /\ asked' = asked \cup {t}
    /\ UNCHANGED <<build, driver, outside, marker, culprits, cargo, unlogged>> /\ BuildFrame

\* abort_if_requested.
AbortBuild(t) ==
    /\ build[t] = "building" /\ driver[t] = "walking" /\ t \in asked
    /\ build' = [build EXCEPT ![t] = "failed"] /\ driver' = [driver EXCEPT ![t] = "none"]
    /\ RecordFailure(t, TRUE)
    /\ UNCHANGED <<asked, outside, culprits, cargo>> /\ BuildFrame

\* A dependency, built by rustc alone, fails.
OutsideFails ==
    /\ cargo = "building" /\ ~Failing /\ \E t \in Targets : build[t] = "waiting"
    /\ outside' = TRUE
    /\ UNCHANGED <<build, driver, asked, marker, culprits, cargo, unlogged>> /\ BuildFrame

EndBuilds ==
    /\ cargo = "building" /\ \A t \in Targets : build[t] # "building"
    /\ \/ Failing /\ cargo' = "exited" /\ ccode' = 101
       \/ /\ \A t \in Targets : build[t] = "built"
          /\ IF job = "no-run" THEN cargo' = "exited" /\ ccode' = SUCCESS ELSE cargo' = "testing" /\ UNCHANGED ccode
    /\ UNCHANGED <<workerVars, job, builds, process, reports, code>>

-----------------------------------------------------------------------------
(* The harnesses *)

Remaining == Targets \ DOMAIN ended
HarnessFrame == UNCHANGED <<job, builds, cargo, ccode, code>>

LogRow(row) ==
    \/ log' \in Appended(log, row) /\ UNCHANGED unlogged
    \/ log' \in AppendFailed(log, row) /\ unlogged' = TRUE

\* supervise, with the first row. A process id is any of an earlier harness or a new one.
StartHarness ==
    /\ cargo = "testing" /\ harness = "none" /\ Remaining # {}
    /\ target' = Min(Remaining) /\ pid' \in {p \in Pids : p <= Cardinality(DOMAIN ended) + 1}
    /\ harness' = "ready" /\ workers' = 0 /\ status' = NoCode
    /\ LogRow(Started(pid'))
    /\ suite' = opts.suites[Min(Remaining)]
    /\ journaled' = <<>> /\ marked' = {}
    /\ UNCHANGED <<opts, wpc, wcode, writer, run, results, past, stream, watching, completion, summaries, ended, certified>>
    /\ HarnessFrame

\* run_worker.
StartWorker ==
    /\ harness = "ready" /\ harness' = "watch" /\ workers' = workers + 1
    /\ FreshWorker("open", NewWriter(opts.progress))
    /\ UNCHANGED <<suite, opts, persistent, target, pid, status, reports>> /\ HarnessFrame

WorkerRuns ==
    /\ harness = "watch" /\ WorkerNext
    /\ UNCHANGED cargoVars

\* completion::outcome.
Outcome ==
    IF wcode = SIGNALLED \/ (AnalysisCompleted(wcode) /\ completion # wcode) THEN PANIC ELSE wcode

\* The code of one harness, from the results of its tests.
CodeOf(rs) ==
    IF \E m \in DOMAIN rs : rs[m].verdict = "TimedOut" THEN TIMED_OUT
    ELSE IF \E m \in DOMAIN rs : Range(rs[m].tests) \subseteq {"Undetected"} THEN MISSED ELSE SUCCESS

\* Of a harness that has completed: the mutations it has judged, whether its tests caught them all, and its code.
Completed(rs) ==
    [judged |-> DOMAIN rs, caught |-> \A m \in DOMAIN rs : rs[m].verdict = "Detected", code |-> CodeOf(rs)]

Put(f, x, y) == [z \in DOMAIN f \cup {x} |-> IF z = x THEN y ELSE f[z]]

\* restarts_after_crash: mutations were left unfinished, or more are finished.
Restarts ==
    /\ workers < MaxWorkers /\ ~AnalysisCompleted(Outcome) /\ opts.flakes = 0
    /\ current \notin {0} \cup marked \/ journaled # <<>>

WorkerOver ==
    /\ harness = "watch" /\ wpc = "over"
    /\ IF Restarts
       THEN /\ harness' = "ready" /\ marked' = IF current # 0 THEN marked \cup {current} ELSE marked
            /\ UNCHANGED <<status, certified>>
       ELSE /\ harness' = "exit" /\ status' = Outcome /\ UNCHANGED marked
            /\ certified' = IF AnalysisCompleted(Outcome)
                            THEN Put(certified, target, Completed(results)) ELSE certified
    /\ UNCHANGED <<suite, opts, wpc, wcode, writer, run, results, past, stream, watching, completion, journaled>>
    /\ UNCHANGED <<target, pid, workers, log, summaries, ended, unlogged>> /\ HarnessFrame

\* The harness is gone, and what it kept.
Gone ==
    /\ harness' = "none" /\ target' = 0 /\ pid' = 0 /\ workers' = 0 /\ status' = NoCode
    /\ FreshWorker("none", NewWriter(FALSE))
    /\ suite' = <<>> /\ journaled' = <<>> /\ marked' = {}
    /\ UNCHANGED opts
Ends(exit) == ended' = Put(ended, target, exit) /\ Gone

\* exit_as, with the last row. The summary of the last worker is handed over before: that of its epilogue, or
\* of reference tests that failed.
HarnessExits ==
    /\ harness = "exit"
    /\ LogRow(Exited(pid, status))
    /\ summaries' = summaries \cup (IF monitor = "joined" THEN {<<target, "evaluated">>} ELSE {})
                               \cup (IF wcode = BASELINE_FAILED THEN {<<target, "reference failed">>} ELSE {})
    /\ Ends(status)
    /\ UNCHANGED certified /\ HarnessFrame

\* The supervisor itself is killed; its worker dies with it (die_with).
HarnessKilled ==
    /\ harness \in {"ready", "watch", "exit"}
    /\ Ends(SIGNALLED)
    /\ UNCHANGED <<log, summaries, unlogged, certified>> /\ HarnessFrame

-----------------------------------------------------------------------------
(* The end of the run *)

\* cargo test --no-fail-fast.
CargoExits ==
    /\ cargo = "testing" /\ harness = "none" /\ Remaining = {}
    /\ cargo' = "exited" /\ ccode' = IF \A t \in Targets : ended[t] = SUCCESS THEN SUCCESS ELSE 101
    /\ UNCHANGED <<workerVars, job, builds, process, reports, code>>

\* run_exit_code.
RunExitCode(named, codes) ==
    CASE named # {} -> BASELINE_FAILED
      [] named = {} /\ ccode = NoCode -> PANIC
      [] named = {} /\ ccode = SUCCESS -> SUCCESS
      [] named = {} /\ ccode = 101 /\ codes # {} -> IF worst(codes) = SUCCESS THEN PANIC ELSE worst(codes)
      [] named = {} /\ ccode = 101 /\ codes = {} -> BASELINE_FAILED

\* RunReports::exit_code reads the files once and removes them.
Report ==
    /\ cargo = "exited" /\ cargo' = "reported"
    /\ code' = RunExitCode(marker.names, read(log))
    /\ UNCHANGED <<workerVars, job, builds, process, reports, ccode>>

\* inspect_completed_analysis: the inspector opens only on a completed analysis, and hands on its own failure.
Inspect ==
    /\ cargo = "reported" /\ AnalysisCompleted(code)
    /\ cargo' = "inspected"
    /\ code' \in {code, USAGE, PANIC}
    /\ UNCHANGED <<workerVars, job, builds, process, reports, ccode>>

\* Cargo is killed, and whatever it runs ends too.
CargoKilled ==
    /\ cargo \in {"building", "testing"}
    /\ cargo' = "exited" /\ ccode' = NoCode
    /\ Gone
    /\ build' = [t \in Targets |-> IF build[t] = "building" THEN "failed" ELSE build[t]] /\ driver' = [t \in Targets |-> "none"]
    /\ UNCHANGED <<job, asked, outside, marker, culprits, reports, code>>

CargoInit ==
    /\ job \in {"run", "no-run"}
    /\ build = [t \in Targets |-> "waiting"] /\ driver = [t \in Targets |-> "none"] /\ asked = {} /\ outside = FALSE
    /\ \/ marker = [exists |-> FALSE, names |-> {}] /\ log = <<>>
       \/ marker = [exists |-> TRUE, names |-> Targets] /\ log = <<Started(1), Exited(1, MISSED)>>
    /\ summaries = {} /\ harness = "none" /\ target = 0 /\ pid = 0 /\ workers = 0 /\ status = NoCode
    /\ ended = <<>> /\ cargo = "removing" /\ ccode = NoCode /\ code = NoCode
    /\ culprits = {} /\ unlogged = FALSE /\ certified = <<>>

Init ==
    /\ CargoInit /\ NoWorker
    /\ suite = <<>> /\ opts \in WorkerOptions
    /\ journaled = <<>> /\ marked = {}

BuildStep(t) == StartBuild(t) \/ BuildGoesOn(t) \/ NoticeFailure(t) \/ AbortBuild(t)
RunStep == PassTo \/ EndBuilds \/ StartHarness \/ StartWorker \/ WorkerRuns \/ WorkerOver \/ HarnessExits \/ CargoExits \/ Report

Next ==
    \/ RunStep
    \/ \E t \in Targets : BuildStep(t) \/ BuildSucceeds(t) \/ BuildFails(t)
    \/ OutsideFails \/ HarnessKilled \/ CargoKilled \/ Inspect

Spec == Init /\ [][Next]_vars

\* A driver that neither walks nor draws comes to the end of its stage.
Proceeds(t) == driver[t] # "walking" /\ (BuildGoesOn(t) \/ BuildSucceeds(t))

\* Cargo and the drivers go on; but a walk may take for ever until it is asked to stop, and drawing has no end.
FairSpec ==
    /\ Spec
    /\ WF_vars(EndBuilds)
    /\ \A t \in Targets : WF_vars(NoticeFailure(t)) /\ WF_vars(AbortBuild(t)) /\ WF_vars(Proceeds(t))

-----------------------------------------------------------------------------

\* What the exit code of the run is made of. It is 0, 2 or 3 only if every target was built, every harness completed with all its
\* mutations judged and summarised, and it is then that of the worst of the harnesses: 3 if a mutation timed out, 2 if one went
\* undetected, else 0. A mutation that crashed counts for none of these, and a harness run with --flakes has the code 0 whatever it
\* finds (harness.rs:1065, harness.rs:1070): 0 does not say that all mutations were caught (ZeroMeansCaught). 0 hides no harness even
\* where a log could not be written; 2 and 3 do hide one that left no row, as it died before its first or could not write it
\* (`unlogged`). A failed build is named, no build that was stopped is, and the run exits 4.
RunCodeIsTrue ==
    cargo = "reported" =>
        /\ (job = "run" /\ (code = SUCCESS \/ (AnalysisCompleted(code) /\ ~unlogged))) =>
            /\ DOMAIN certified = Targets /\ ~Failing
            /\ \A t \in Targets : certified[t].judged = DOMAIN opts.suites[t] /\ <<t, "evaluated">> \in summaries
            /\ code = IF opts.flakes > 0 THEN SUCCESS ELSE worst({certified[t].code : t \in Targets})
        /\ (job = "run" /\ ccode # NoCode /\ ~unlogged /\ DOMAIN certified = Targets /\ \A t \in Targets : ended[t] # SIGNALLED)
            => AnalysisCompleted(code)
        /\ (Failing /\ ccode # NoCode) => code = BASELINE_FAILED
        /\ ~unlogged => marker.names = culprits

\* A run exits 0 only if the tests caught every mutation: "The analysis completed, and the tests caught every mutation." (README,
\* "Exit codes").
ZeroMeansCaught ==
    cargo = "reported" /\ job = "run" /\ code = SUCCESS =>
        \A t \in Targets :
            t \in DOMAIN certified /\ certified[t].judged = DOMAIN opts.suites[t] /\ certified[t].caught

\* What a reader of the progress records is told is true: the records follow the protocol, and "completed" means that every
\* test has ended, that every mutation is judged, and that the worker had recorded its completion with that code
\* (docs/runtime-progress.md, "What the records promise").
ProgressTrue ==
    LET reader == writer.reader
    IN /\ reader.sound
       /\ reader.terminal = "completed" =>
            reader.outstanding = {} /\ completion = reader.code /\ DOMAIN results = Muts

\* In a process that ran its tests itself, every test that started has a result in the evaluation stream when the worker
\* completes, given up or not, and a second one only after it timed out.
StreamWhole ==
    ~opts.isolated /\ marked = {} =>
        \A i \in DOMAIN stream : Len(stream[i]) = 1 \/ (Len(stream[i]) = 2 /\ stream[i][1] = "TimedOut")

Detecting(m) == {x \in DOMAIN results[m].tests : results[m].tests[x] # "Undetected"}

\* Subsumption is inclusion between the sets of tests that detect, where both are detected at all.
SubsumptionIsInclusion ==
    \A a, b \in Muts : a # b =>
        LET entry == SubsumptionMatrix(results, SuiteTests)[<<a, b>>]
            both == Detecting(a) # {} /\ Detecting(b) # {}
        IN /\ entry = "Indistinguishable" <=> both /\ Detecting(a) = Detecting(b)
           /\ entry = "Subsumes" <=> both /\ Detecting(b) \subseteq Detecting(a) /\ Detecting(a) # Detecting(b)
           /\ entry = "Subsumed" <=> both /\ Detecting(a) \subseteq Detecting(b) /\ Detecting(a) # Detecting(b)

\* A test is flaky for a mutation if it detected it in one iteration and not in another one that ran it.
FlakyIsBoth ==
    \A m \in Muts : LET runs == Append(past, results)
                      Saw(i, x, set) == x \in DOMAIN runs[i][m].tests /\ runs[i][m].tests[x] \in set
                  IN FlakyTests(runs, m) = {x \in SuiteTests :
                        \E i, j \in DOMAIN runs : Saw(i, x, {"Undetected"}) /\ Saw(j, x, {"Detected", "TimedOut", "Crashed"})}

\* What a worker that completes has reported agrees with what its tests did.
ReportTrue == wpc = "recorded" => StreamWhole /\ SubsumptionIsInclusion /\ FlakyIsBoth

\* Once a build has failed and left the marker, the other builds end, however long their walks of the call graph would take
\* (build_status.rs, "Stop analysis after a sibling compiler fails"), unless one draws for ever, which no request ends: a driver
\* that generates mutants or waits for its child does not look for one, and goes on to the end of what it does.
BuildsStop ==
    marker.exists /\ cargo = "building" ~> cargo # "building" \/ \E t \in Targets : driver[t] = "drawing"
=============================================================================
