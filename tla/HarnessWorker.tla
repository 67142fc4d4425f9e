--------------------------- MODULE HarnessWorker ---------------------------
(* The worker of a test harness from its start to its exit, as mutest_main    *)
(* puts it together (mutest-runtime/src/harness.rs): the reference runs, the  *)
(* mutations one after another, the thread that watches tests that were given *)
(* up, the reports, and the exit. It records its progress on the way. A run   *)
(* of tests keeps here only what these parts see of it (TestRun and           *)
(* MutationAnalysis have the rest); mutations that timed out do not run again.*)
EXTENDS ProgressLog, EvaluationReport

CONSTANTS
    Suites,         \* what a harness holds: a function from its mutations to the tests that reach them
    WorkerOptions,  \* records isolated (--isolate=all), exhaustive, progress, pool, flakes (0, or the iterations), and
                    \* suites: those of the harnesses of the run
    Concurrency     \* the tests that run at once

ASSUME WorkerAssumption ==
    /\ Concurrency \in Nat \ {0}
    /\ \A o \in WorkerOptions : {o.isolated, o.exhaustive, o.progress, o.pool} \subseteq BOOLEAN /\ o.flakes \in Nat
    /\ \A s \in Suites : DOMAIN s \subseteq Nat \ {0} /\ IsFiniteSet(DOMAIN s)

VARIABLES
    suite,      \* the mutations and tests of this harness
    opts,       \* its options
    wpc,        \* what the worker is at
    wcode,      \* its exit status, SIGNALLED if it was killed
    writer,     \* the progress writer
    todo,       \* the tests of this run that have not started
    running,    \* the tests that run: records id and test
    failures,   \* reference tests that failed
    current,    \* the mutation under evaluation, or 0
    results,    \* what this worker knows of the mutations
    past,       \* the results of earlier iterations of --flakes
    ids,        \* the number of tests started
    given,      \* the threads of this run given up at their timeout
    alive,      \* the threads given up that still run
    stream,     \* the results the evaluation stream holds of each test start
    inbox,      \* the channel of the lingering test monitor: batches
    watched,    \* the tests it watches
    scan,       \* whether it looks for one that ended
    monitor,    \* "open", "closed" once the sender is dropped, "joined"
    completion, \* the completion record
    journaled,  \* results in the journal, which outlives the worker
    marked      \* mutations that a crashed worker left unfinished

run == <<todo, running, failures, current, ids, given, alive>>
watching == <<inbox, watched, scan, monitor>>
persistent == <<journaled, marked>>
workerVars == <<suite, opts, wpc, wcode, writer, run, results, past, stream, watching, completion, persistent>>

Muts == DOMAIN suite
SuiteTests == UNION {suite[m] : m \in Muts}
InTests == wpc \in {"reference", "repeat", "evaluate"}
IsolatedNow == wpc = "evaluate" /\ (opts.isolated \/ current \in marked)

FreshRun(tests) == todo' = tests /\ running' = {} /\ given' = {}

-----------------------------------------------------------------------------
(* Progress *)

\* progress::fail, and exits that tell the reader first.
ExitIncomplete(w, code) ==
    /\ \E o \in WithWriter(w, Terminal(w, FALSE, code)) : writer' = o.writer
    /\ wpc' = "over" /\ wcode' = code
    /\ UNCHANGED <<run, results, past, stream, watching, completion, persistent>>

\* What happens after a call of the progress writer: the worker goes on, or fails.
Recording(outcomes, goesOn) ==
    \E o \in WithWriter(writer, outcomes) :
        \/ o.ok /\ writer' = o.writer /\ wcode' = wcode /\ goesOn
        \/ ~o.ok /\ ExitIncomplete(o.writer, PANIC)

-----------------------------------------------------------------------------
(* Runs of tests *)

\* profile_passing_tests; a profile that the journal holds already is taken from there.
BeginReference ==
    /\ wpc = "open"
    /\ IF journaled # <<>> \/ marked # {}
       THEN wpc' = "evaluate" /\ UNCHANGED <<writer, wcode, run, stream>>
       ELSE Recording(SetPhase(writer, "reference"),
                      wpc' = "reference" /\ FreshRun(SuiteTests) /\ UNCHANGED <<failures, current, ids, alive, stream>>)
    /\ results' = journaled
    /\ UNCHANGED <<past, watching, completion, persistent>>

Verdict == results[current].verdict

\* The callback of run_tests stops the run once the mutation is detected.
Stopped == wpc = "evaluate" /\ current # 0 /\ ~opts.exhaustive /\ Verdict \in {"Detected", "TimedOut"}

StartsTest(t) ==
    /\ InTests /\ t \in todo /\ ~Stopped
    /\ Cardinality(running) < Concurrency
    /\ Recording(StartTest(writer, ids + 1),
                 /\ ids' = ids + 1
                 /\ todo' = todo \ {t}
                 /\ running' = running \cup {[id |-> ids + 1, test |-> t]}
                 /\ stream' = IF wpc = "evaluate" THEN [i \in DOMAIN stream \cup {ids + 1} |-> IF i = ids + 1 THEN <<>> ELSE stream[i]] ELSE stream
                 /\ UNCHANGED <<wpc, failures, current, given, alive, results, past, watching, completion, persistent>>)

\* The result of test r reaches the callback of the run.
Callback(r, outcome) ==
    CASE wpc = "evaluate" -> /\ results' = [results EXCEPT ![current] = WithTestResult(@, r.test, outcome)]
                             /\ stream' = [stream EXCEPT ![r.id] = Append(@, outcome)]
                             /\ failures' = failures
      [] wpc = "reference" -> failures' = (IF outcome = "Undetected" THEN failures ELSE failures \cup {r.test}) /\ UNCHANGED <<results, stream>>
      [] wpc = "repeat" -> UNCHANGED <<failures, results, stream>>

Outcomes == {"Undetected", "Detected"} \cup (IF IsolatedNow THEN {"Crashed", "TimedOut"} ELSE {})

\* finish_next_test.
TestReports(r, outcome) ==
    /\ InTests /\ r \in running /\ ~Stopped
    /\ Recording(EndTest(writer, r.id, TRUE),
                 /\ running' = running \ {r}
                 /\ Callback(r, outcome)
                 /\ UNCHANGED <<wpc, todo, current, ids, given, alive, past, watching, completion, persistent>>)

\* abandon_timed_out_tests: the test is given up in this process. The first reference run has no timeouts.
TestTimesOut(r) ==
    /\ wpc \in {"repeat", "evaluate"} /\ ~IsolatedNow
    /\ r \in running /\ ~Stopped
    /\ Recording(EndTest(writer, r.id, FALSE),
                 /\ running' = running \ {r}
                 /\ given' = given \cup {r.id} /\ alive' = alive \cup {r.id}
                 /\ Callback(r, "TimedOut")
                 /\ UNCHANGED <<wpc, todo, current, ids, past, watching, completion, persistent>>)

\* cleanup_isolated_tests: a run that stops cancels what runs in child processes.
CancelTest(r) ==
    /\ Stopped /\ IsolatedNow /\ r \in running
    /\ Recording(EndTest(writer, r.id, TRUE),
                 running' = running \ {r} /\ UNCHANGED <<wpc, todo, failures, current, ids, given, alive, results, past, stream, watching, completion, persistent>>)

RunOver == IF Stopped THEN IsolatedNow => running = {} ELSE todo = {} /\ running = {}

\* exit_unless_all_pass; with every test in a child process no test runs twice (unrepeatable::find).
EndReference ==
    /\ wpc = "reference" /\ RunOver
    /\ IF failures # {} THEN ExitIncomplete(writer, BASELINE_FAILED)
       ELSE IF opts.isolated
       THEN wpc' = "evaluate" /\ UNCHANGED <<wcode, writer, run, results, past, stream, watching, completion, persistent>>
       ELSE /\ wpc' = "repeat" /\ FreshRun(SuiteTests)
            /\ UNCHANGED <<wcode, writer, failures, current, ids, alive, results, past, stream, watching, completion, persistent>>

\* Tests that did not end again are left to themselves.
EndRepeat ==
    /\ wpc = "repeat" /\ RunOver
    /\ wpc' = "evaluate" /\ FreshRun({})
    /\ UNCHANGED <<wcode, writer, failures, current, ids, alive, results, past, stream, watching, completion, persistent>>

BeginMutation(m) ==
    /\ wpc = "evaluate" /\ current = 0 /\ m \notin DOMAIN results
    /\ \A n \in Muts \ DOMAIN results : m <= n
    /\ Recording(SetPhase(writer, "evaluation"),
                 /\ current' = m /\ FreshRun(suite[m]) /\ wpc' = wpc
                 /\ results' = [n \in DOMAIN results \cup {m} |-> IF n = m THEN NoResult ELSE results[n]]
                 /\ UNCHANGED <<failures, ids, alive, past, stream, watching, completion, persistent>>)

\* The tests still running are given up, and the monitor gets them and those that timed out; the result is recorded, but not
\* in the iterations of --flakes.
EndMutation ==
    /\ wpc = "evaluate" /\ current # 0 /\ RunOver
    /\ LET left == {r.id : r \in running}
       IN /\ alive' = alive \cup left
          /\ inbox' = Append(inbox, given \cup left)
    /\ journaled' = IF opts.flakes > 0 THEN journaled ELSE results
    /\ current' = 0 /\ FreshRun({})
    /\ UNCHANGED <<wpc, wcode, writer, failures, ids, results, past, stream, watched, scan, monitor, completion, marked>>

EndIteration ==
    /\ wpc = "evaluate" /\ current = 0 /\ DOMAIN results = Muts
    /\ IF Len(past) + 1 < opts.flakes
       THEN past' = Append(past, results) /\ results' = <<>> /\ UNCHANGED <<wpc, monitor>>
       ELSE wpc' = "join" /\ monitor' = "closed" /\ UNCHANGED <<past, results>>
    /\ UNCHANGED <<wcode, writer, run, stream, inbox, watched, scan, completion, persistent>>

-----------------------------------------------------------------------------
(* LingeringTestMonitoringThread *)

MonitorFrame == UNCHANGED <<wpc, wcode, writer, run, results, past, completion, persistent>>

MonitorReceives ==
    /\ wpc \notin {"none", "over"} /\ inbox # <<>> /\ ~scan
    /\ watched' = watched \cup Head(inbox) /\ inbox' = Tail(inbox)
    /\ scan' = TRUE
    /\ UNCHANGED <<monitor, stream>> /\ MonitorFrame

\* After each receive, and after each wait in vain, one test that ended is reported. Tests on the pool cannot be joined.
Ended == IF opts.pool THEN {} ELSE watched \ alive
MonitorReports ==
    /\ wpc \notin {"none", "over"}
    /\ scan \/ (inbox = <<>> /\ monitor = "open")
    /\ \/ \E i \in Ended : watched' = watched \ {i} /\ stream' = [stream EXCEPT ![i] = Append(@, "Completion")]
       \/ Ended = {} /\ scan /\ UNCHANGED <<watched, stream>>
    /\ scan' = FALSE
    /\ UNCHANGED <<inbox, monitor>> /\ MonitorFrame

\* A monitor that leaves at once, whatever is in the channel.
MonitorLeaves ==
    /\ wpc \notin {"none", "over"} /\ monitor = "closed" /\ ~scan
    /\ stream' = [i \in DOMAIN stream |-> IF i \in watched THEN Append(stream[i], "Termination") ELSE stream[i]]
    /\ watched' = {} /\ monitor' = "joined"
    /\ UNCHANGED <<inbox, scan>> /\ MonitorFrame

\* The channel is empty and its sender is gone: what is left is reported as it is dropped.
MonitorEnds ==
    /\ wpc \notin {"none", "over"} /\ monitor = "closed" /\ inbox = <<>> /\ ~scan
    /\ stream' = [i \in DOMAIN stream |-> IF i \in watched THEN Append(stream[i], "Termination") ELSE stream[i]]
    /\ watched' = {} /\ monitor' = "joined"
    /\ UNCHANGED <<inbox, scan>> /\ MonitorFrame

-----------------------------------------------------------------------------
(* The end *)

FinalCode == IF opts.flakes > 0 THEN SUCCESS ELSE VerdictExitCode(results)

\* completion::finish, up to the completion record: the record may fail, and so may the journal have done before.
Completes ==
    /\ wpc = "join" /\ monitor = "joined"
    /\ \/ /\ Ready(writer)
          /\ completion' = FinalCode /\ wpc' = "recorded"
          /\ UNCHANGED <<wcode, writer, run, results, past, stream, watching, persistent>>
       \/ ExitIncomplete(writer, PANIC)

\* progress::terminal, and the exit.
WorkerExits ==
    /\ wpc = "recorded"
    /\ Recording(Terminal(writer, TRUE, completion),
                 wpc' = "exiting" /\ UNCHANGED <<run, results, past, stream, watching, completion, persistent>>)

Exits ==
    /\ wpc = "exiting"
    /\ wpc' = "over" /\ wcode' = completion
    /\ UNCHANGED <<writer, run, results, past, stream, watching, completion, persistent>>

\* A test, or a thread given up, crashes the process or makes it exit with a code of its own.
TestEndsWorker ==
    /\ wpc \notin {"none", "over"}
    /\ (running # {} /\ ~IsolatedNow) \/ alive # {}
    /\ wpc' = "over" /\ wcode' \in {SIGNALLED, SUCCESS}
    /\ UNCHANGED <<writer, run, results, past, stream, watching, completion, persistent>>

ThreadEnds ==
    /\ wpc \notin {"none", "over"}
    /\ \E i \in alive : alive' = alive \ {i}
    /\ UNCHANGED <<wpc, wcode, writer, todo, running, failures, current, results, past, ids, given, stream, watching, completion, persistent>>

WorkerStep ==
    \/ BeginReference \/ EndReference \/ EndRepeat \/ EndMutation \/ EndIteration
    \/ (\E t \in todo : StartsTest(t))
    \/ (\E r \in running : CancelTest(r) \/ TestTimesOut(r) \/ (\E outcome \in Outcomes : TestReports(r, outcome)))
    \/ (\E m \in Muts : BeginMutation(m))
    \/ MonitorReceives \/ MonitorReports \/ MonitorEnds
    \/ Completes \/ WorkerExits \/ Exits

WorkerNext == (WorkerStep \/ TestEndsWorker \/ ThreadEnds) /\ UNCHANGED <<suite, opts>>

\* Before a worker starts, and after it is gone.
NoWorker ==
    /\ wpc = "none" /\ wcode = NoCode /\ writer = NewWriter(FALSE)
    /\ todo = {} /\ running = {} /\ failures = {} /\ current = 0 /\ results = <<>> /\ past = <<>>
    /\ ids = 0 /\ given = {} /\ alive = {} /\ stream = <<>>
    /\ inbox = <<>> /\ watched = {} /\ scan = FALSE /\ monitor = "open"
    /\ completion = NoCode

FreshWorker(at, w) ==
    /\ wpc' = at /\ wcode' = NoCode /\ writer' = w
    /\ todo' = {} /\ running' = {} /\ failures' = {} /\ current' = 0 /\ results' = <<>> /\ past' = <<>>
    /\ ids' = 0 /\ given' = {} /\ alive' = {} /\ stream' = <<>>
    /\ inbox' = <<>> /\ watched' = {} /\ scan' = FALSE /\ monitor' = "open"
    /\ completion' = NoCode
=============================================================================
