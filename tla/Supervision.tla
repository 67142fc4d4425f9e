----------------------------- MODULE Supervision -----------------------------
(***************************************************************************)
(* A test harness binary as a supervisor of worker processes               *)
(* (mutest-runtime/src/supervisor.rs, journal.rs and completion.rs, with   *)
(* what the worker of harness.rs writes to the journal).                   *)
(*                                                                         *)
(* The tests of a mutant run in the worker and may end it at any moment.   *)
(* The supervisor reads from the journal what the worker left unfinished,  *)
(* marks it for isolation, and starts another worker that goes on.  A      *)
(* worker proves that it completed with a record written last.  A stop     *)
(* signal may come at any moment, and ends the run without a restart.      *)
(***************************************************************************)
EXTENDS Naturals, FiniteSets, SequencesExt

CONSTANT
    Setups \* records of what a run is made of:
           \*   mutants   the sets of mutations that are evaluated together: batches, or one each
           \*   width     the mutants evaluated side by side
           \*   crashing  the mutations whose tests may end the process they run in
           \*   unsafe    the mutations that --isolate runs in child processes from the start

ASSUME SupervisionAssumption ==
    \A s \in Setups :
        /\ IsFiniteSet(UNION s.mutants) /\ {} \notin s.mutants
        /\ \A B, C \in s.mutants : B = C \/ B \cap C = {}
        /\ s.width \in Nat \ {0}
        /\ s.crashing \cup s.unsafe \subseteq UNION s.mutants

VARIABLES
    setup,       \* this run's
    \* The journal, which outlives the workers.
    journaled,   \* whether there is one
    started, finished, isolated, profiled, \* its rows
    tail,        \* whether its last row is whole, cut short, or joined to one cut short
    \* The worker process.
    wpc,         \* where it has got to
    healthy,     \* whether it still records rows
    earlier,     \* what it read as finished and isolated when it opened the journal
    evaluating,  \* the mutants under evaluation, and whether in this process
    undecided,   \* mutations evaluated, whose result is not recorded yet
    deferred,    \* mutations that timed out, which run again at the end
    results,     \* mutations with a result in memory
    leftover,    \* mutations whose tests still run after their evaluation
    completion,  \* whether the completion record is written
    summary,     \* the lines of its summary log
    wexit,       \* how it ended: "none", "done", "lookalike", "other", "killed" or "stopped"
    \* The supervisor process.
    sup, status, previous, log, code,
    stop,        \* STOP_SIGNAL: a stop signal arrived
    order,       \* COMPLETION_ORDER: "stop" or "completion", whichever came first
    signalled,   \* the stop signal reached the worker
    witnessed, cancelled, \* what the Attempt saw of the worker
    \* History, which no action reads.
    lostRow,     \* a write to the journal failed
    ended,       \* mutations under evaluation in a worker that its tests ended
    stopFirst    \* the stop signal came before this worker's completion was witnessed or read

rows == <<started, finished, isolated, profiled, tail>>
memory == <<earlier, evaluating, undecided, deferred, results, leftover>>
worker == <<wpc, healthy, memory, completion, summary, wexit>>
signals == <<stop, order, signalled, witnessed, cancelled, stopFirst>>
supervisor == <<sup, status, previous, log, code>>
vars == <<setup, journaled, rows, worker, signals, supervisor, lostRow, ended>>

MutantSets == setup.mutants
Mutations == UNION MutantSets
Crashing == setup.crashing
Unsafe == setup.unsafe

Alive == wpc \notin {"none", "dead"}

Init ==
    /\ setup \in Setups
    /\ journaled \in BOOLEAN
    /\ started = {} /\ finished = <<>> /\ isolated = {} /\ profiled = FALSE /\ tail = "whole"
    /\ wpc = "none" /\ healthy = TRUE
    /\ earlier = [finished |-> {}, isolated |-> {}]
    /\ evaluating = {} /\ undecided = {} /\ deferred = {} /\ results = {} /\ leftover = {}
    /\ completion = FALSE /\ summary = 0 /\ wexit = "none"
    /\ sup = "start" /\ status = "none" /\ previous = 0 /\ log = 0 /\ code = "none"
    /\ stop = FALSE /\ order = "none" /\ signalled = FALSE
    /\ witnessed = FALSE /\ cancelled = FALSE /\ stopFirst = FALSE
    /\ lostRow = FALSE /\ ended = {}

-----------------------------------------------------------------------------
(* The journal. *)

\* A row after one cut short joins it, and can no longer be read.
Extended == IF tail = "torn" THEN "joined" ELSE tail

\* journal::read: any row that cannot be read, and a result recorded twice, are errors.
Readable == tail = "whole" /\ IsInjective(finished)
Unfinished == started \ ToSet(finished)

\* WorkerJournal::append: `write` adds the row, or the write fails, maybe halfway, and the
\* worker records no more rows.
Appends(write, unwritten) ==
    \/ /\ journaled /\ healthy
       /\ write
       /\ tail' = Extended
       /\ UNCHANGED <<healthy, lostRow>>
    \/ /\ journaled /\ healthy
       /\ healthy' = FALSE /\ lostRow' = TRUE
       /\ tail' \in {tail, "torn"}
       /\ unwritten
    \/ ~(journaled /\ healthy) /\ unwritten /\ UNCHANGED <<tail, healthy, lostRow>>

-----------------------------------------------------------------------------
(* The worker. *)

\* open_for_worker: what the journal holds is read once; a journal that cannot be read ends the
\* worker.
OpenJournal ==
    /\ wpc = "open"
    /\ IF journaled /\ ~Readable
       THEN wpc' = "dead" /\ wexit' = "other" /\ UNCHANGED <<earlier, results>>
       ELSE /\ earlier' = [finished |-> ToSet(finished), isolated |-> isolated]
            /\ results' = ToSet(finished)
            /\ wpc' = "reference"
            /\ UNCHANGED wexit
    /\ UNCHANGED <<journaled, rows, healthy, evaluating, undecided, deferred, leftover>>
    /\ UNCHANGED <<completion, summary, supervisor, signals, lostRow, ended>>

\* profiling::reference_run: taken from the journal, or run, and recorded if every test passes.
ReferenceRun ==
    /\ wpc = "reference"
    /\ \/ /\ profiled
          /\ wpc' = "evaluate"
          /\ UNCHANGED <<profiled, tail, healthy, lostRow, wexit>>
       \/ /\ ~profiled
          /\ wpc' = "evaluate"
          /\ Appends(profiled' = TRUE, UNCHANGED profiled)
          /\ UNCHANGED wexit
       \/ /\ ~profiled
          /\ wpc' = "dead" /\ wexit' = "other"
          /\ UNCHANGED <<profiled, tail, healthy, lostRow>>
    /\ UNCHANGED <<journaled, started, finished, isolated, memory, completion, summary>>
    /\ UNCHANGED <<supervisor, signals, ended>>

Under == UNION {e.mutations : e \in evaluating}
Known == results \cup undecided \cup deferred \cup Under

\* Mutant: what crashed an earlier worker is not isolated.
InProcessIfSafe(B) == B \cap Unsafe = {}

\* journal::isolates: all of a mutant runs in child processes if one of its mutations has to.
InProcess(B) == B \cap (earlier.isolated \cup Unsafe) = {}
Evaluation(B) == [mutations |-> B, in_process |-> InProcess(B)]

\* journal_started, then the tests run; a mutant that an earlier worker finished is skipped.
StartMutant(B) ==
    /\ wpc = "evaluate"
    /\ undecided = {}
    /\ Cardinality(evaluating) < setup.width
    /\ ~(B \subseteq Known)
    /\ Appends(started' = started \cup B, UNCHANGED started)
    /\ evaluating' = evaluating \cup {Evaluation(B)}
    /\ UNCHANGED <<journaled, finished, isolated, profiled, wpc, earlier, undecided, deferred>>
    /\ UNCHANGED <<results, leftover, completion, summary, wexit, supervisor, signals, ended>>

\* The run of the mutant returned; tests that it gave up may go on in this process.
RunEnds(e) ==
    /\ Alive
    /\ e \in evaluating
    /\ evaluating' = evaluating \ {e}
    /\ undecided' = undecided \cup (e.mutations \ results)
    /\ leftover' \in {leftover} \cup (IF e.in_process THEN {leftover \cup e.mutations} ELSE {})
    /\ UNCHANGED <<journaled, rows, wpc, healthy, earlier, deferred, results, completion>>
    /\ UNCHANGED <<summary, wexit, supervisor, signals, lostRow, ended>>

\* record_finished_mutation.
RecordResult(m) ==
    /\ Alive
    /\ m \in undecided
    /\ undecided' = undecided \ {m}
    /\ Appends(finished' = Append(finished, m), UNCHANGED finished)
    /\ results' = results \cup {m}
    /\ UNCHANGED <<journaled, started, isolated, profiled, wpc, earlier, evaluating, deferred>>
    /\ UNCHANGED <<leftover, completion, summary, wexit, supervisor, signals, ended>>

\* timeouts::finish_mutation: a timeout within short limits is not recorded yet.
DeferTimeout(m) ==
    /\ wpc = "evaluate"
    /\ m \in undecided
    /\ undecided' = undecided \ {m}
    /\ deferred' = deferred \cup {m}
    /\ UNCHANGED <<journaled, rows, wpc, healthy, earlier, evaluating, results, leftover>>
    /\ UNCHANGED <<completion, summary, wexit, supervisor, signals, lostRow, ended>>

Idle == evaluating = {} /\ undecided = {}

AllEvaluated ==
    /\ wpc = "evaluate"
    /\ Idle
    /\ \A B \in MutantSets : B \subseteq Known
    /\ wpc' = "confirm"
    /\ UNCHANGED <<journaled, rows, healthy, memory, completion, summary, wexit>>
    /\ UNCHANGED <<supervisor, signals, lostRow, ended>>

\* confirm_timeouts: each deferred mutation runs again, without a row for its start.
ConfirmTimeout(m) ==
    /\ wpc = "confirm"
    /\ Idle
    /\ m \in deferred
    /\ deferred' = deferred \ {m}
    /\ evaluating' = {Evaluation({m})}
    /\ UNCHANGED <<journaled, rows, wpc, healthy, earlier, undecided, results, leftover>>
    /\ UNCHANGED <<completion, summary, wexit, supervisor, signals, lostRow, ended>>

\* The epilogue appends the summary; completion::finish ends a worker that lost rows.
Finish ==
    /\ wpc = "confirm"
    /\ Idle /\ deferred = {}
    /\ summary' = summary + 1
    /\ IF journaled /\ ~healthy
       THEN wpc' = "dead" /\ wexit' = "other"
       ELSE wpc' = "record" /\ UNCHANGED wexit
    /\ UNCHANGED <<journaled, rows, healthy, memory, completion, supervisor, signals, lostRow, ended>>

\* completion::record replaces the placeholder in one rename; a worker that cannot record, or whose
\* progress log is not consistent, ends without.
WriteCompletion ==
    /\ wpc = "record"
    /\ \/ completion' = TRUE /\ wpc' = "recorded" /\ UNCHANGED wexit
       \/ wpc' = "dead" /\ wexit' = "other" /\ UNCHANGED completion
    /\ UNCHANGED <<journaled, rows, healthy, memory, summary, supervisor, signals, lostRow, ended>>

ExitCompleted ==
    /\ wpc = "recorded"
    /\ wpc' = "dead" /\ wexit' = "done"
    /\ UNCHANGED <<journaled, rows, healthy, memory, completion, summary, supervisor, signals>>
    /\ UNCHANGED <<lostRow, ended>>

\* The rows that a death in the middle of a write leaves.
CutShort == {tail} \cup (IF journaled /\ healthy /\ wpc \in {"reference", "evaluate", "confirm"}
                         THEN {"torn"} ELSE {})

Ended == UNION {e.mutations : e \in {f \in evaluating : f.in_process}}

\* A test in this process crashes it, or exits with a code of its own choosing: one of a completed
\* analysis, maybe the very code that the worker recorded, or another.
TestEndsWorker ==
    /\ Alive
    /\ (Ended \cup leftover) \cap Crashing # {}
    /\ wpc' = "dead"
    /\ wexit' \in {"killed", "lookalike", "other"} \cup (IF completion THEN {"done"} ELSE {})
    /\ tail' \in CutShort
    /\ ended' = ended \cup Ended
    /\ UNCHANGED <<journaled, started, finished, isolated, profiled, healthy, memory, completion>>
    /\ UNCHANGED <<summary, supervisor, signals, lostRow>>

WorkerStep ==
    \/ OpenJournal \/ ReferenceRun \/ AllEvaluated \/ Finish \/ WriteCompletion \/ ExitCompleted
    \/ (\E B \in MutantSets : StartMutant(B))
    \/ (\E e \in evaluating : RunEnds(e))
    \/ \E m \in Mutations : RecordResult(m) \/ ConfirmTimeout(m)

-----------------------------------------------------------------------------
(* The supervisor. *)

Watching == sup \in {"wait", "observed"}

\* start_worker starts none once a stop signal has come.
CheckStop ==
    /\ sup = "start"
    /\ IF stop THEN sup' = "decide" /\ status' = "signal"
       ELSE sup' = "checked" /\ UNCHANGED status
    /\ UNCHANGED <<journaled, rows, worker, signals, previous, log, code, lostRow, ended>>

\* The worker starts with an empty completion record and summary log; a stop signal that comes
\* now is not forwarded to it.
Spawn ==
    /\ sup = "checked"
    /\ sup' = "spawned"
    /\ wpc' = "open" /\ wexit' = "none" /\ healthy' = TRUE
    /\ earlier' = [finished |-> {}, isolated |-> {}]
    /\ evaluating' = {} /\ undecided' = {} /\ deferred' = {} /\ results' = {} /\ leftover' = {}
    /\ completion' = FALSE /\ summary' = 0
    /\ signalled' = FALSE /\ witnessed' = FALSE /\ cancelled' = FALSE
    /\ stopFirst' = stop
    /\ UNCHANGED <<journaled, rows, status, previous, log, code, stop, order, lostRow, ended>>

\* WORKER_PID is set, and a stop signal that came before is sent now.
WatchWorker ==
    /\ sup = "spawned"
    /\ sup' = "wait"
    /\ signalled' = stop
    /\ UNCHANGED <<journaled, rows, worker, status, previous, log, code, lostRow, ended>>
    /\ UNCHANGED <<stop, order, witnessed, cancelled, stopFirst>>

\* The handler of stop signals, which interrupts the supervisor anywhere.
Stop ==
    /\ ~stop /\ sup \notin {"exit", "exited"}
    /\ stop' = TRUE
    /\ order' = IF order = "none" THEN "stop" ELSE order
    /\ signalled' = (signalled \/ Watching)
    /\ stopFirst' = (sup # "decide" /\ ~witnessed)
    /\ UNCHANGED <<journaled, rows, worker, supervisor, witnessed, cancelled, lostRow, ended>>

\* Attempt::observe: a completion counts only if no stop signal came before it.
Observe ==
    /\ sup = "wait"
    /\ sup' = "observed"
    /\ cancelled' = (cancelled \/ (stop /\ order = "stop"))
    /\ IF ~stop /\ completion /\ order # "stop"
       THEN witnessed' = TRUE /\ order' = "completion"
       ELSE UNCHANGED <<witnessed, order>>
    /\ UNCHANGED <<journaled, rows, worker, status, previous, log, code, stop, signalled, stopFirst>>
    /\ UNCHANGED <<lostRow, ended>>

\* wait_completed goes round while the worker has not exited.
WaitOn ==
    /\ sup = "observed"
    /\ Alive
    /\ sup' = "wait"
    /\ UNCHANGED <<journaled, rows, worker, status, previous, log, code, signals, lostRow, ended>>

\* The worker dies of the stop signal, or is killed as it outlives it.
StopEndsWorker ==
    /\ Watching
    /\ Alive /\ stop
    /\ wpc' = "dead"
    /\ wexit' \in {"killed"} \cup (IF signalled THEN {"stopped"} ELSE {})
    /\ tail' \in CutShort
    /\ UNCHANGED <<journaled, started, finished, isolated, profiled, healthy, memory, completion>>
    /\ UNCHANGED <<summary, supervisor, signals, lostRow, ended>>

\* Mutants: a status of a completed analysis stands by itself; a late stop undoes a completion.
OutcomeOfStatus ==
    CASE cancelled \/ order = "stop" -> "panic"
      [] wexit \in {"done", "lookalike"} -> "completed"
      [] OTHER -> "panic"
OutcomeUnlessStopped ==
    CASE cancelled \/ stop -> "panic"
      [] wexit = "done" /\ completion -> "completed"
      [] OTHER -> "panic"

\* Attempt::finish and completion::outcome.
Outcome ==
    LET stoppedFirst == cancelled \/ order = "stop"
        late == witnessed /\ stop /\ wexit = "stopped"
    IN  CASE stoppedFirst -> "panic"
          [] ~stoppedFirst /\ (late \/ (wexit = "done" /\ completion)) -> "completed"
          [] ~stoppedFirst /\ wexit = "other" -> "other"
          [] OTHER -> "panic"

\* The worker is reaped and its descendants are killed; if that fails the run ends incomplete.
Reap ==
    /\ sup = "observed"
    /\ wpc = "dead"
    /\ \/ sup' = "decide" /\ status' = Outcome
       \/ sup' = "exit" /\ status' = "panic"
    /\ UNCHANGED <<journaled, rows, worker, signals, previous, log, code, lostRow, ended>>

NewlyIsolated == Unfinished \ isolated

\* Mutant: a worker is restarted even if no mutation finished since the last restart.
ProgressedAlways == TRUE
Progressed == Len(finished) > previous

CutTornRow == IF tail = "torn" THEN "whole" ELSE tail

\* Mutant: the row cut short is skipped, and left in the journal.
IsolateUncut ==
    /\ CutTornRow = "whole" /\ IsInjective(finished)
    /\ tail' = tail
    /\ isolated' = isolated \cup NewlyIsolated
    /\ previous' = Len(finished)
    /\ sup' = IF NewlyIsolated # {} \/ Progressed THEN "start" ELSE "exit"

\* isolate_unfinished: the row cut short is cut off, and the unfinished mutations are marked for
\* the next worker, if there is something for it to do.
Isolate ==
    /\ CutTornRow = "whole" /\ IsInjective(finished)
    /\ tail' = CutTornRow
    /\ isolated' = isolated \cup NewlyIsolated
    /\ previous' = Len(finished)
    /\ sup' = IF NewlyIsolated # {} \/ Progressed THEN "start" ELSE "exit"

\* The journal cannot be read, or the row is not written, or not whole: no other worker starts.
CannotIsolate ==
    /\ CutTornRow # "whole" \/ ~IsInjective(finished) \/ NewlyIsolated # {}
    /\ tail' \in {CutTornRow} \cup (IF CutTornRow = "whole" THEN {"torn"} ELSE {})
    /\ sup' = "exit"
    /\ UNCHANGED <<isolated, previous>>

\* restarts_after_crash.
Decide ==
    /\ sup = "decide"
    /\ IF ~journaled \/ status = "completed" \/ stop
       THEN sup' = "exit" /\ UNCHANGED <<isolated, previous, tail>>
       ELSE Isolate \/ CannotIsolate
    /\ UNCHANGED <<journaled, started, finished, profiled, worker, signals>>
    /\ UNCHANGED <<status, log, code, lostRow, ended>>

\* The end of `supervise`: mutations left unfinished, or a journal that cannot be read, make the
\* run incomplete; the summary of the last worker is handed over, or was logged directly.
Exit ==
    /\ sup = "exit"
    /\ sup' = "exited"
    /\ code' = IF journaled /\ (~Readable \/ Unfinished # {}) THEN "panic" ELSE status
    /\ log' = log + summary
    /\ UNCHANGED <<journaled, rows, worker, signals, status, previous, lostRow, ended>>

SupervisorStep == CheckStop \/ Spawn \/ WatchWorker \/ Observe \/ WaitOn \/ Reap \/ Decide \/ Exit

Next ==
    /\ \/ WorkerStep \/ TestEndsWorker \/ SupervisorStep \/ Stop \/ StopEndsWorker
       \/ \E m \in Mutations : DeferTimeout(m)
    /\ UNCHANGED setup

Spec == Init /\ [][Next]_vars

\* Both processes keep running, and the supervisor kills a worker that outlives a stop signal.
FairSpec ==
    /\ Spec
    /\ WF_vars(WorkerStep /\ UNCHANGED setup)
    /\ WF_vars(SupervisorStep /\ UNCHANGED setup)
    /\ WF_vars(StopEndsWorker /\ UNCHANGED setup)

-----------------------------------------------------------------------------
(* Properties. *)

\* The run exits as completed only if every mutation has a result in the worker that completed,
\* each of them is in the journal once, and the harness logged one summary; a crash, an exit of
\* a test, a torn row and a failed write never pass as completion.
CompletedIsComplete ==
    code = "completed" =>
        /\ results = Mutations
        /\ journaled => ToSet(finished) = Mutations /\ Len(finished) = Cardinality(Mutations)
        /\ log = 1

\* However a worker died, the next one can read the journal, and does not refuse it.
WorkerReadsJournal == wpc = "open" /\ journaled => Readable

\* A mutation that was under evaluation when its tests ended the worker never runs inside a
\* worker again, so it cannot end another one, as long as no write to the journal failed.
CrashedRunsIsolated ==
    journaled /\ ~lostRow => \A e \in evaluating : Alive /\ e.in_process => e.mutations \cap ended = {}

\* "A stop signal that arrives after a witnessed completion does not undo it", even if the worker
\* dies of it.
WitnessedCompletionStands ==
    sup = "decide" /\ witnessed /\ ~stopFirst /\ wexit \in {"done", "stopped"} => status = "completed"

\* "A completion counts only if no stop signal came before it."
StopCancelsCompletion == code = "completed" => ~stopFirst

\* The supervisor ends: it restarts no worker for ever, whatever crashes.
SupervisorEnds == <>(sup = "exited")
=============================================================================
