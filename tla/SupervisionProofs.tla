--------------------------- MODULE SupervisionProofs ---------------------------
(***************************************************************************)
(* However many workers crash, wherever a test ends one, a write fails or  *)
(* a stop signal comes in: completion is what it says, and what ended one  *)
(* worker does not run in another.                                         *)
(***************************************************************************)
EXTENDS Supervision, Queues

\* A worker that has read the journal and goes on, and a supervisor that has one.
Running == wpc \in {"reference", "evaluate", "confirm", "record", "recorded"}
Attending == sup \in {"spawned", "wait", "observed"}

TypeOK ==
    /\ setup \in Setups
    /\ {journaled, profiled, healthy, completion, lostRow, stop, signalled, witnessed, cancelled,
        stopFirst} \subseteq BOOLEAN
    /\ {started, isolated, undecided, deferred, results, leftover, ended} \subseteq SUBSET Mutations
    /\ finished \in Seq(Mutations)
    /\ earlier \in [finished : SUBSET Mutations, isolated : SUBSET Mutations]
    /\ evaluating \subseteq [mutations : SUBSET Mutations, in_process : BOOLEAN]
    /\ {summary, previous, log} \subseteq Nat
    /\ tail \in {"whole", "torn", "joined"}
    /\ wpc \in {"none", "open", "reference", "evaluate", "confirm", "record", "recorded", "dead"}
    /\ wexit \in {"none", "done", "lookalike", "other", "killed", "stopped"}
    /\ sup \in {"start", "checked", "spawned", "wait", "observed", "decide", "exit", "exited"}
    /\ status \in {"none", "signal", "completed", "panic", "other"}
    /\ code \in {"none", "signal", "completed", "panic", "other"}
    /\ order \in {"none", "stop", "completion"}

\* A worker is attended to for as long as it lives, and one starts only from a journal that it can
\* read.
JournalInv ==
    /\ ~Attending => ~Alive
    /\ journaled /\ (sup \in {"start", "checked"} \/ wpc = "open") => Readable
    /\ journaled /\ ~lostRow => healthy
    /\ wpc = "open" => ~completion

\* The mutations of a worker are evaluated, undecided, deferred, or have a result, one at a time;
\* those of one mutant go together.
WorkInv ==
    /\ \A e, f \in evaluating : e = f \/ e.mutations \cap f.mutations = {}
    /\ \A e \in evaluating :
          /\ \E B \in MutantSets : e.mutations \subseteq B
          /\ ~(e.mutations \subseteq results)
          /\ e.mutations \in MutantSets \/ e.mutations \cap results = {}
          /\ e.in_process => e.mutations \cap earlier.isolated = {}
    /\ undecided \cap (results \cup deferred \cup Under) = {} /\ deferred \cap (results \cup Under) = {}
    /\ wpc \in {"open", "reference"} => evaluating = {} /\ undecided = {} /\ deferred = {}
    /\ wpc = "evaluate" =>
          /\ \A e \in evaluating : e.mutations \in MutantSets
          /\ \A B \in MutantSets : B \cap (undecided \cup deferred) # {} =>
                                    B \subseteq results \cup undecided \cup deferred

\* What a worker whose writes did not fail has done is in the journal.
RowsInv ==
    /\ Running => earlier.isolated = isolated
    /\ journaled /\ healthy =>
          /\ Running \/ completion => results = ToSet(finished)
          /\ undecided \cup deferred \cup Under \subseteq started

\* A worker records its completion once nothing is left to do.
CompletionInv ==
    /\ wpc \in {"confirm", "record", "recorded"} \/ completion => Mutations \subseteq Known
    /\ wpc \in {"record", "recorded"} \/ completion =>
          /\ evaluating = {} /\ undecided = {} /\ deferred = {}
          /\ summary = 1
          /\ journaled => healthy
    /\ wpc \in {"open", "reference", "evaluate", "confirm"} => summary = 0 /\ ~completion

\* A mutation may not run in a worker if these are isolated: it or its result is known, and the
\* mutant that it is of is isolated.
Confined(m, marked) ==
    /\ m \in marked \cup ToSet(finished)
    /\ \A B \in MutantSets : m \in B => B \cap marked # {}

\* The mutations that ended a worker are marked before the next one starts.
EndedInv ==
    journaled /\ ~lostRow =>
        /\ \A m \in ended : Confined(m, isolated \cup Unfinished)
        /\ sup \in {"start", "checked"} \/ Alive => \A m \in ended : Confined(m, isolated)

\* What the supervisor makes of completion records and stop signals.
StatusInv ==
    /\ witnessed => completion /\ order = "completion"
    /\ cancelled => order = "stop"
    /\ wexit = "stopped" => stop
    /\ witnessed /\ wexit \in {"done", "stopped"} =>
          /\ sup \notin {"start", "checked"}
          /\ sup = "decide" => status = "completed"
    /\ status = "completed" => completion /\ sup \in {"decide", "exit", "exited"}
    /\ sup # "exited" => log = 0 /\ code = "none"

IInv ==
    /\ TypeOK /\ JournalInv /\ WorkInv /\ RowsInv /\ CompletionInv /\ EndedInv /\ StatusInv
    /\ CompletedIsComplete

-----------------------------------------------------------------------------
\* A run begins without a worker, with an empty journal.
LEMMA InitIInv == Init => IInv
<1> SUFFICES ASSUME Init PROVE IInv
  OBVIOUS
<1> USE DEF Init
<1>1. TypeOK
  <2>1. {journaled, profiled, healthy, completion, lostRow, stop, signalled, witnessed, cancelled,
         stopFirst} \subseteq BOOLEAN
    OBVIOUS
  <2>2. {started, isolated, undecided, deferred, results, leftover, ended} \subseteq SUBSET Mutations
    OBVIOUS
  <2>3. earlier \in [finished : SUBSET Mutations, isolated : SUBSET Mutations]
    OBVIOUS
  <2>4. finished \in Seq(Mutations) /\ evaluating = {} /\ {summary, previous, log} \subseteq Nat
    OBVIOUS
  <2> QED BY <2>1, <2>2, <2>3, <2>4 DEF TypeOK
<1>2. JournalInv
  BY DEF JournalInv, Attending, Alive, Readable, IsInjective
<1>3. WorkInv /\ RowsInv /\ CompletionInv
  BY DEF WorkInv, RowsInv, CompletionInv, Running, Under, ToSet
<1>4. EndedInv /\ StatusInv /\ CompletedIsComplete
  BY DEF EndedInv, StatusInv, CompletedIsComplete
<1> QED BY <1>1, <1>2, <1>3, <1>4 DEF IInv

-----------------------------------------------------------------------------
(* The supervisor. *)

\* What stays as it is while the worker and the journal do.
LEMMA WorkerKept ==
  ASSUME IInv, UNCHANGED <<setup, journaled, rows, worker, lostRow, ended>>
  PROVE  /\ WorkInv' /\ RowsInv' /\ CompletionInv'
         /\ Alive' = Alive /\ Readable' = Readable /\ Unfinished' = Unfinished
         /\ Mutations' = Mutations
         /\ \A m, marked : Confined(m, marked)' = Confined(m, marked)
<1>1. UNCHANGED <<setup, journaled, started, finished, isolated, profiled, tail, wpc, healthy, earlier,
                  evaluating, undecided, deferred, results, leftover, completion, summary, wexit>>
  BY DEF rows, worker, memory
<1>2. WorkInv'
  BY <1>1 DEF IInv, WorkInv, Under, MutantSets
<1>3. RowsInv' /\ CompletionInv'
  BY <1>1 DEF IInv, RowsInv, CompletionInv, Running, Under, Known, Mutations, MutantSets
<1>4. Alive' = Alive /\ Readable' = Readable /\ Unfinished' = Unfinished /\ Mutations' = Mutations
  BY <1>1 DEF Alive, Readable, Unfinished, Mutations, MutantSets
<1>5. \A m, marked : Confined(m, marked)' = Confined(m, marked)
  BY <1>1 DEF Confined, MutantSets
<1> QED BY <1>2, <1>3, <1>4, <1>5

\* Before a worker is started, and while it is attended to.
LEMMA AttendKeeps ==
  ASSUME IInv, UNCHANGED setup, CheckStop \/ WatchWorker \/ Observe \/ WaitOn \/ Stop
  PROVE  IInv'
<1>1. UNCHANGED <<journaled, rows, worker, previous, log, code, lostRow, ended>>
  BY DEF CheckStop, WatchWorker, Observe, WaitOn, Stop, supervisor
<1>2. \/ sup = "start" /\ sup' \in {"checked", "decide"}
      \/ Attending /\ Attending'
      \/ sup' = sup
  BY DEF CheckStop, WatchWorker, Observe, WaitOn, Stop, supervisor, Attending
<1>3. /\ WorkInv' /\ RowsInv' /\ CompletionInv'
      /\ Alive' = Alive /\ Readable' = Readable /\ Unfinished' = Unfinished
      /\ Mutations' = Mutations
      /\ \A m, marked : Confined(m, marked)' = Confined(m, marked)
  BY <1>1, WorkerKept
<1>4. TypeOK'
  <2>1. {stop', signalled', witnessed', cancelled', stopFirst'} \subseteq BOOLEAN
    BY DEF CheckStop, WatchWorker, Observe, WaitOn, Stop, signals, IInv, TypeOK, Watching
  <2>2. order' \in {"none", "stop", "completion"}
    BY DEF CheckStop, WatchWorker, Observe, WaitOn, Stop, signals, IInv, TypeOK
  <2>3. sup' \in {"start", "checked", "spawned", "wait", "observed", "decide", "exit", "exited"}
    BY <1>2 DEF IInv, TypeOK, Attending
  <2>4. status' \in {"none", "signal", "completed", "panic", "other"}
    BY DEF CheckStop, WatchWorker, Observe, WaitOn, Stop, supervisor, IInv, TypeOK
  <2> QED BY <2>1, <2>2, <2>3, <2>4, <1>1, <1>3 DEF IInv, TypeOK, rows, worker, memory
<1>5. JournalInv'
  BY <1>1, <1>2, <1>3 DEF IInv, JournalInv, Attending, worker, Alive
<1>6. EndedInv'
  BY <1>1, <1>2, <1>3 DEF IInv, EndedInv, Attending, rows
<1>7. StatusInv'
  <2>1. UNCHANGED <<completion, wexit, log, code>>
    BY <1>1 DEF worker
  <2>2. witnessed' => completion /\ order' = "completion"
    BY DEF CheckStop, WatchWorker, Observe, WaitOn, Stop, signals, IInv, StatusInv
  <2>3. cancelled' => order' = "stop"
    BY DEF CheckStop, WatchWorker, Observe, WaitOn, Stop, signals, IInv, StatusInv
  <2>4. stop => stop'
    BY DEF CheckStop, WatchWorker, Observe, WaitOn, Stop, signals
  <2>5. sup' \in {"start", "checked", "decide"} =>
            /\ witnessed' = witnessed
            /\ \/ sup' = sup /\ status' = status
               \/ sup = "start" /\ (sup' = "decide" => status' = "signal")
    BY DEF CheckStop, WatchWorker, Observe, WaitOn, Stop, signals, supervisor
  <2>6. /\ witnessed' /\ wexit \in {"done", "stopped"} => sup' \notin {"start", "checked"}
        /\ witnessed' /\ wexit \in {"done", "stopped"} /\ sup' = "decide" => status' = "completed"
    BY <2>5 DEF IInv, StatusInv
  <2>7. status' = "completed" => completion /\ sup' \in {"decide", "exit", "exited"}
    <3>1. status' = "completed" => status = "completed" /\ sup' = sup
      BY DEF CheckStop, WatchWorker, Observe, WaitOn, Stop, supervisor, IInv, StatusInv
    <3> QED BY <3>1 DEF IInv, StatusInv
  <2>8. sup' # "exited" => log = 0 /\ code = "none"
    BY <1>2 DEF IInv, StatusInv, Attending
  <2> QED BY <2>1, <2>2, <2>3, <2>4, <2>6, <2>7, <2>8 DEF IInv, StatusInv
<1>8. CompletedIsComplete'
  BY <1>1, <1>3 DEF IInv, CompletedIsComplete, rows, worker, memory
<1> QED BY <1>3, <1>4, <1>5, <1>6, <1>7, <1>8 DEF IInv

\* A worker begins with nothing in memory and an empty completion record.
LEMMA SpawnKeeps ==
  ASSUME IInv, UNCHANGED setup, Spawn
  PROVE  IInv'
<1>1. /\ sup = "checked" /\ sup' = "spawned" /\ wpc' = "open" /\ wexit' = "none" /\ healthy' = TRUE
      /\ earlier' = [finished |-> {}, isolated |-> {}]
      /\ evaluating' = {} /\ undecided' = {} /\ deferred' = {} /\ results' = {} /\ leftover' = {}
      /\ completion' = FALSE /\ summary' = 0
      /\ signalled' = FALSE /\ witnessed' = FALSE /\ cancelled' = FALSE /\ stopFirst' = stop
  BY DEF Spawn
<1>2. UNCHANGED <<setup, journaled, started, finished, isolated, profiled, tail, status, previous,
                  log, code, stop, order, lostRow, ended>>
  BY DEF Spawn, rows
<1>3. Mutations' = Mutations
  BY <1>2 DEF Mutations, MutantSets
<1>4. TypeOK'
  <2>1. {journaled, profiled, healthy, completion, lostRow, stop, signalled, witnessed, cancelled,
         stopFirst}' \subseteq BOOLEAN
    BY <1>1, <1>2 DEF IInv, TypeOK
  <2>2. {started, isolated, undecided, deferred, results, leftover, ended}' \subseteq SUBSET Mutations
    BY <1>1, <1>2 DEF IInv, TypeOK
  <2>3. earlier' \in [finished : SUBSET Mutations, isolated : SUBSET Mutations]
    BY <1>1
  <2>4. {summary, previous, log}' \subseteq Nat
    BY <1>1, <1>2 DEF IInv, TypeOK
  <2> QED BY <2>1, <2>2, <2>3, <2>4, <1>1, <1>2, <1>3 DEF IInv, TypeOK
<1>5. JournalInv'
  BY <1>1, <1>2 DEF IInv, JournalInv, Attending, Readable
<1>6. WorkInv' /\ RowsInv' /\ CompletionInv'
  BY <1>1, <1>2 DEF WorkInv, RowsInv, CompletionInv, Running, Under
<1>7. EndedInv'
  BY <1>1, <1>2 DEF IInv, EndedInv, Confined, Unfinished, MutantSets
<1>8. StatusInv' /\ CompletedIsComplete'
  BY <1>1, <1>2 DEF IInv, StatusInv, CompletedIsComplete
<1> QED BY <1>4, <1>5, <1>6, <1>7, <1>8 DEF IInv

\* A completion that was witnessed or that the exit of the worker proves stands, if no stop signal
\* came before it, and nothing else does.
LEMMA OutcomeHolds ==
  /\ Outcome \in {"completed", "panic", "other"}
  /\ Outcome = "completed" => witnessed \/ completion
  /\ ~(cancelled \/ order = "stop") /\ (witnessed /\ stop /\ wexit = "stopped") => Outcome = "completed"
  /\ ~(cancelled \/ order = "stop") /\ wexit = "done" /\ completion => Outcome = "completed"
<1> DEFINE stoppedFirst == cancelled \/ order = "stop"
           late == witnessed /\ stop /\ wexit = "stopped"
<1>1. Outcome = CASE stoppedFirst -> "panic"
                  [] ~stoppedFirst /\ (late \/ (wexit = "done" /\ completion)) -> "completed"
                  [] ~stoppedFirst /\ wexit = "other" -> "other"
                  [] OTHER -> "panic"
  BY DEF Outcome
<1> QED BY <1>1, Zenon

\* The status of a worker that was reaped is what its Attempt saw.
LEMMA ReapKeeps ==
  ASSUME IInv, UNCHANGED setup, Reap
  PROVE  IInv'
<1>1. /\ sup = "observed" /\ wpc = "dead"
      /\ \/ sup' = "decide" /\ status' = Outcome
         \/ sup' = "exit" /\ status' = "panic"
  BY DEF Reap
<1>2. UNCHANGED <<journaled, rows, worker, signals, previous, log, code, lostRow, ended>>
  BY DEF Reap
<1>3. /\ WorkInv' /\ RowsInv' /\ CompletionInv'
      /\ Alive' = Alive /\ Readable' = Readable /\ Unfinished' = Unfinished
      /\ Mutations' = Mutations
      /\ \A m, marked : Confined(m, marked)' = Confined(m, marked)
  BY <1>2, WorkerKept
<1>4. ~Alive /\ status' \in {"completed", "panic", "other"}
  BY <1>1, OutcomeHolds DEF Alive
<1>5. TypeOK'
  BY <1>1, <1>2, <1>3, <1>4 DEF IInv, TypeOK, rows, worker, memory, signals
<1>6. JournalInv' /\ EndedInv'
  BY <1>1, <1>2, <1>3, <1>4 DEF IInv, JournalInv, EndedInv, Attending, rows, worker
<1>7. StatusInv'
  <2>1. status' = "completed" => completion
    BY <1>1, OutcomeHolds DEF IInv, StatusInv
  <2>2. witnessed /\ wexit \in {"done", "stopped"} => Outcome = "completed"
    <3>1. SUFFICES ASSUME witnessed, wexit \in {"done", "stopped"} PROVE Outcome = "completed"
      OBVIOUS
    <3>2. completion /\ ~(cancelled \/ order = "stop") /\ (wexit = "stopped" => stop)
      BY <3>1 DEF IInv, StatusInv
    <3> QED BY <3>1, <3>2, OutcomeHolds
  <2>3. status' = "completed" => sup' = "decide"
    BY <1>1
  <2> QED BY <2>1, <2>2, <2>3, <1>1, <1>2 DEF IInv, StatusInv, worker, signals
<1>8. CompletedIsComplete'
  BY <1>1, <1>2 DEF IInv, StatusInv, CompletedIsComplete
<1> QED BY <1>3, <1>5, <1>6, <1>7, <1>8 DEF IInv

\* Another worker is started only once what was left unfinished is marked, in a journal that can be
\* read; after a completion or a stop there is none.
LEMMA DecideKeeps ==
  ASSUME IInv, UNCHANGED setup, Decide
  PROVE  IInv'
<1>1. sup = "decide" /\ sup' \in {"start", "exit"}
  BY DEF Decide, Isolate, CannotIsolate
<1>2. sup' = "start" =>
         /\ journaled /\ status # "completed" /\ ~(witnessed /\ wexit \in {"done", "stopped"})
         /\ tail' = "whole" /\ IsInjective(finished) /\ isolated' = isolated \cup Unfinished
  BY <1>1 DEF Decide, Isolate, CannotIsolate, NewlyIsolated, IInv, StatusInv
<1>3. UNCHANGED <<setup, journaled, started, finished, profiled, worker, signals, status, log, code,
                  lostRow, ended>>
  BY DEF Decide
<1>4. tail' \in {"whole", "torn", "joined"} /\ previous' \in Nat
  BY DEF Decide, Isolate, CannotIsolate, CutTornRow, IInv, TypeOK
<1>5. isolated' \in SUBSET Mutations
  BY DEF Decide, Isolate, CannotIsolate, NewlyIsolated, Unfinished, IInv, TypeOK
<1>6. ~Alive /\ ~Alive'
  BY <1>1, <1>3 DEF IInv, JournalInv, Attending, Alive, worker
<1>7. isolated \subseteq isolated'
  BY DEF Decide, Isolate, CannotIsolate
<1>8. UNCHANGED <<wpc, healthy, earlier, evaluating, undecided, deferred, results, leftover,
                  completion, summary, wexit, stop, order, signalled, witnessed, cancelled, stopFirst>>
  BY <1>3 DEF worker, memory, signals
<1>9. TypeOK'
  <2>1. Mutations' = Mutations
    BY <1>3 DEF Mutations, MutantSets
  <2> QED BY <2>1, <1>1, <1>3, <1>4, <1>5, <1>8 DEF IInv, TypeOK
<1>10. JournalInv'
  BY <1>1, <1>2, <1>3, <1>6, <1>8 DEF IInv, JournalInv, Attending, Readable, Alive
<1>11. WorkInv' /\ CompletionInv'
  BY <1>3, <1>8 DEF IInv, WorkInv, CompletionInv, Under, Known, Mutations, MutantSets
<1>12. RowsInv'
  BY <1>3, <1>6, <1>8 DEF IInv, RowsInv, Running, Alive, Under
<1>13. EndedInv'
  <2> SUFFICES ASSUME journaled, ~lostRow, NEW m \in ended
               PROVE  /\ Confined(m, isolated \cup Unfinished)'
                      /\ sup' = "start" => Confined(m, isolated)'
    BY <1>1, <1>3, <1>6 DEF EndedInv
  <2>1. Confined(m, isolated \cup Unfinished)
    BY DEF IInv, EndedInv
  <2>2. Unfinished' = Unfinished
    BY <1>3 DEF Unfinished
  <2>3. \A marked : Confined(m, marked)' = Confined(m, marked)
    BY <1>3 DEF Confined, MutantSets
  <2>4. Confined(m, isolated' \cup Unfinished)
    BY <2>1, <1>7 DEF Confined
  <2>5. sup' = "start" => Confined(m, isolated')
    BY <2>1, <1>2
  <2> QED BY <2>2, <2>4, <2>5, <1>3 DEF Confined, MutantSets
<1>14. StatusInv'
  BY <1>1, <1>2, <1>3, <1>8 DEF IInv, StatusInv
<1>15. CompletedIsComplete'
  BY <1>1, <1>3 DEF IInv, StatusInv, CompletedIsComplete
<1> QED BY <1>9, <1>10, <1>11, <1>12, <1>13, <1>14, <1>15 DEF IInv

\* The end of the run: a completion that the journal does not contradict.
LEMMA ExitKeeps ==
  ASSUME IInv, UNCHANGED setup, Exit
  PROVE  IInv'
<1>1. /\ sup = "exit" /\ sup' = "exited" /\ log' = log + summary
      /\ code' = IF journaled /\ (~Readable \/ Unfinished # {}) THEN "panic" ELSE status
  BY DEF Exit
<1>2. UNCHANGED <<journaled, rows, worker, signals, status, previous, lostRow, ended>>
  BY DEF Exit
<1>3. /\ WorkInv' /\ RowsInv' /\ CompletionInv'
      /\ Alive' = Alive /\ Readable' = Readable /\ Unfinished' = Unfinished
      /\ Mutations' = Mutations
      /\ \A m, marked : Confined(m, marked)' = Confined(m, marked)
  BY <1>2, WorkerKept
<1>4. TypeOK'
  <2>1. log' \in Nat
    BY <1>1 DEF IInv, TypeOK
  <2>2. code' \in {"none", "signal", "completed", "panic", "other"}
    BY <1>1 DEF IInv, TypeOK
  <2> QED BY <2>1, <2>2, <1>1, <1>2, <1>3 DEF IInv, TypeOK, rows, worker, memory, signals
<1>5. JournalInv' /\ EndedInv'
  BY <1>1, <1>2, <1>3 DEF IInv, JournalInv, EndedInv, Attending, rows, worker
<1>6. StatusInv'
  BY <1>1, <1>2 DEF IInv, StatusInv, worker, signals
<1>7. CompletedIsComplete'
  <2> SUFFICES ASSUME code' = "completed"
               PROVE  /\ results = Mutations
                      /\ journaled => ToSet(finished) = Mutations /\ Len(finished) = Cardinality(Mutations)
                      /\ log' = 1
    BY <1>2, <1>3 DEF CompletedIsComplete, rows, worker, memory
  <2>1. status = "completed" /\ (journaled => IsInjective(finished))
    BY <1>1 DEF Readable
  <2>2. completion /\ log = 0
    BY <2>1, <1>1 DEF IInv, StatusInv
  <2>3. results = Mutations /\ summary = 1 /\ (journaled => healthy)
    <3>1. Mutations \subseteq Known /\ evaluating = {} /\ undecided = {} /\ deferred = {}
      BY <2>2 DEF IInv, CompletionInv
    <3>2. results \subseteq Mutations
      BY DEF IInv, TypeOK
    <3> QED BY <3>1, <3>2, <2>2 DEF IInv, CompletionInv, Known, Under
  <2>4. journaled => ToSet(finished) = Mutations
    BY <2>2, <2>3 DEF IInv, RowsInv
  <2>5. journaled => Len(finished) = Cardinality(Mutations)
    <3>1. finished \in Seq(Mutations)
      BY DEF IInv, TypeOK
    <3> QED BY <3>1, <2>1, <2>4, LengthIsCount
  <2>6. log' = 1
    BY <2>2, <2>3, <1>1
  <2> QED BY <2>3, <2>4, <2>5, <2>6
<1> QED BY <1>3, <1>4, <1>5, <1>6, <1>7 DEF IInv

-----------------------------------------------------------------------------
(* The worker. *)

\* What a step of the worker cannot disturb: the supervisor attends to it.
LEMMA WorkerFrame ==
  ASSUME IInv, Alive, UNCHANGED <<setup, journaled, supervisor, signals>>, wpc' # "open",
         completion => completion', wexit' = "stopped" => stop,
         journaled /\ ~lostRow' => healthy'
  PROVE  JournalInv' /\ StatusInv' /\ CompletedIsComplete'
<1>1. Attending /\ sup \in {"spawned", "wait", "observed"}
  BY DEF IInv, JournalInv, Attending
<1>2. UNCHANGED <<sup, status, previous, log, code, stop, order, signalled, witnessed, cancelled,
                  stopFirst>>
  BY DEF supervisor, signals
<1>3. JournalInv'
  BY <1>1, <1>2 DEF JournalInv, Attending
<1>4. StatusInv'
  BY <1>1, <1>2 DEF IInv, StatusInv
<1>5. CompletedIsComplete'
  BY <1>1, <1>2 DEF IInv, StatusInv, CompletedIsComplete
<1> QED BY <1>3, <1>4, <1>5

\* What confines a mutation confines it as results are added.
LEMMA EndedFrame ==
  ASSUME IInv, Alive, UNCHANGED <<setup, journaled, isolated, ended>>, lostRow => lostRow',
         ToSet(finished) \subseteq ToSet(finished')
  PROVE  EndedInv'
<1> SUFFICES ASSUME journaled, ~lostRow, NEW m \in ended
             PROVE  Confined(m, isolated \cup Unfinished)' /\ Confined(m, isolated)'
  BY DEF EndedInv
<1>1. Confined(m, isolated)
  BY DEF IInv, EndedInv
<1> QED BY <1>1 DEF Confined, MutantSets

\* The worker takes what is finished and isolated from the journal.
LEMMA OpenKeeps ==
  ASSUME IInv, UNCHANGED setup, OpenJournal
  PROVE  IInv'
<1>1. /\ wpc = "open" /\ Alive
      /\ \/ wpc' = "dead" /\ wexit' = "other" /\ UNCHANGED <<earlier, results>>
         \/ /\ earlier' = [finished |-> ToSet(finished), isolated |-> isolated]
            /\ results' = ToSet(finished) /\ wpc' = "reference" /\ UNCHANGED wexit
  BY DEF OpenJournal, Alive
<1>2. UNCHANGED <<setup, journaled, started, finished, isolated, profiled, tail, healthy, evaluating,
                  undecided, deferred, leftover, completion, summary, supervisor, signals,
                  lostRow, ended>>
  BY DEF OpenJournal, rows
<1>3. evaluating = {} /\ undecided = {} /\ deferred = {} /\ ~completion
  BY <1>1 DEF IInv, WorkInv, JournalInv
<1>4. ToSet(finished) \in SUBSET Mutations /\ Mutations' = Mutations
  BY <1>2 DEF IInv, TypeOK, ToSet, Mutations, MutantSets
<1>5. TypeOK'
  <2>1. /\ results' \in SUBSET Mutations
        /\ earlier' \in [finished : SUBSET Mutations, isolated : SUBSET Mutations]
    BY <1>1, <1>4 DEF IInv, TypeOK
  <2>2. /\ wpc' \in {"none", "open", "reference", "evaluate", "confirm", "record", "recorded", "dead"}
        /\ wexit' \in {"none", "done", "lookalike", "other", "killed", "stopped"}
    BY <1>1 DEF IInv, TypeOK
  <2> QED BY <2>1, <2>2, <1>2, <1>4 DEF IInv, TypeOK, supervisor, signals
<1>6. JournalInv' /\ StatusInv' /\ CompletedIsComplete'
  <2>1. wexit' = "stopped" => stop
    BY <1>1 DEF IInv, StatusInv
  <2> QED BY <2>1, <1>1, <1>2, WorkerFrame DEF IInv, JournalInv
<1>7. WorkInv' /\ RowsInv' /\ CompletionInv'
  BY <1>1, <1>2, <1>3 DEF IInv, WorkInv, RowsInv, CompletionInv, Running, Under
<1>8. EndedInv'
  BY <1>1, <1>2, EndedFrame
<1> QED BY <1>5, <1>6, <1>7, <1>8 DEF IInv

\* A write to the journal adds the row, or it is lost and no more are written.
LEMMA AppendsHolds ==
  ASSUME IInv, NEW ACTION write, NEW ACTION unwritten, Appends(write, unwritten)
  PROVE  /\ write \/ unwritten
         /\ journaled /\ healthy' => write
         /\ healthy' => healthy
         /\ lostRow => lostRow'
         /\ journaled /\ ~lostRow' => healthy'
         /\ {healthy', lostRow'} \subseteq BOOLEAN
         /\ tail' \in {"whole", "torn", "joined"}
<1>1. healthy \in BOOLEAN /\ lostRow \in BOOLEAN /\ tail \in {"whole", "torn", "joined"}
  BY DEF IInv, TypeOK
<1>2. journaled /\ ~lostRow => healthy
  BY DEF IInv, JournalInv
<1>3. CASE journaled /\ healthy /\ write /\ tail' = Extended /\ UNCHANGED <<healthy, lostRow>>
  BY <1>1, <1>2, <1>3 DEF Extended
<1>4. CASE /\ journaled /\ healthy /\ healthy' = FALSE /\ lostRow' = TRUE
           /\ tail' \in {tail, "torn"} /\ unwritten
  BY <1>1, <1>4
<1>5. CASE ~(journaled /\ healthy) /\ unwritten /\ UNCHANGED <<tail, healthy, lostRow>>
  BY <1>1, <1>2, <1>5
<1> QED BY <1>3, <1>4, <1>5 DEF Appends

\* The reference run is recorded, or the write fails.
LEMMA ReferenceRunKeeps ==
  ASSUME IInv, UNCHANGED setup, ReferenceRun
  PROVE  IInv'
<1>1. /\ wpc = "reference" /\ Alive
      /\ \/ wpc' = "evaluate" /\ UNCHANGED wexit
         \/ wpc' = "dead" /\ wexit' = "other"
  BY DEF ReferenceRun, Alive
<1>2. UNCHANGED <<setup, journaled, started, finished, isolated, earlier, evaluating, undecided,
                  deferred, results, leftover, completion, summary, supervisor, signals, ended>>
  BY DEF ReferenceRun, memory
<1>3. \/ UNCHANGED <<profiled, tail, healthy, lostRow>>
      \/ Appends(profiled' = TRUE, UNCHANGED profiled)
  BY DEF ReferenceRun
<1>4. /\ healthy' => healthy
      /\ lostRow => lostRow'
      /\ journaled /\ ~lostRow' => healthy'
      /\ {healthy', lostRow'} \subseteq BOOLEAN
      /\ tail' \in {"whole", "torn", "joined"}
  <2>1. CASE UNCHANGED <<profiled, tail, healthy, lostRow>>
    BY <2>1 DEF IInv, TypeOK, JournalInv
  <2>2. CASE Appends(profiled' = TRUE, UNCHANGED profiled)
    BY <2>2, AppendsHolds
  <2> QED BY <2>1, <2>2, <1>3
<1>5. profiled' \in BOOLEAN
  <2>1. Appends(profiled' = TRUE, UNCHANGED profiled) => profiled' = TRUE \/ profiled' = profiled
    BY AppendsHolds
  <2> QED BY <2>1, <1>3 DEF IInv, TypeOK
<1>6. evaluating = {} /\ undecided = {} /\ deferred = {} /\ ~completion /\ summary = 0
  BY <1>1 DEF IInv, WorkInv, CompletionInv
<1>7. TypeOK'
  <2>1. Mutations' = Mutations
    BY <1>2 DEF Mutations, MutantSets
  <2> QED BY <2>1, <1>1, <1>2, <1>4, <1>5 DEF IInv, TypeOK, supervisor, signals
<1>8. JournalInv' /\ StatusInv' /\ CompletedIsComplete'
  <2>1. wexit' = "stopped" => stop
    BY <1>1 DEF IInv, StatusInv
  <2> QED BY <2>1, <1>1, <1>2, <1>4, WorkerFrame
<1>9. WorkInv'
  BY <1>1, <1>2, <1>6 DEF WorkInv, Under, MutantSets
<1>10. RowsInv' /\ CompletionInv'
  BY <1>1, <1>2, <1>4, <1>6 DEF IInv, RowsInv, CompletionInv, Running, Under
<1>11. EndedInv'
  BY <1>1, <1>2, <1>4, EndedFrame
<1> QED BY <1>7, <1>8, <1>9, <1>10, <1>11 DEF IInv

\* A mutant is evaluated that is not under way, none of whose mutations waits for its result.
LEMMA StartKeeps ==
  ASSUME IInv, UNCHANGED setup, NEW B \in MutantSets, StartMutant(B)
  PROVE  IInv'
<1>1. /\ wpc = "evaluate" /\ Alive /\ undecided = {} /\ ~(B \subseteq Known)
      /\ evaluating' = evaluating \cup {Evaluation(B)}
      /\ Appends(started' = started \cup B, UNCHANGED started)
  BY DEF StartMutant, Alive
<1>2. UNCHANGED <<setup, journaled, finished, isolated, profiled, wpc, earlier, undecided, deferred,
                  results, leftover, completion, summary, wexit, supervisor, signals, ended>>
  BY DEF StartMutant
<1>3. /\ started' = started \cup B \/ started' = started
      /\ journaled /\ healthy' => started' = started \cup B
      /\ healthy' => healthy
      /\ lostRow => lostRow'
      /\ journaled /\ ~lostRow' => healthy'
      /\ {healthy', lostRow'} \subseteq BOOLEAN
      /\ tail' \in {"whole", "torn", "joined"}
  BY <1>1, AppendsHolds
<1> DEFINE new == Evaluation(B)
<1>4. /\ new \in [mutations : SUBSET Mutations, in_process : BOOLEAN] /\ new.mutations = B
      /\ new.in_process => B \cap earlier.isolated = {}
      /\ B \subseteq Mutations
  BY DEF Evaluation, InProcess, Mutations
<1> HIDE DEF new
<1>5. \A C, D \in MutantSets : C = D \/ C \cap D = {}
  BY SupervisionAssumption DEF IInv, TypeOK, MutantSets
<1>6. ~completion /\ summary = 0 /\ \A e \in evaluating : e.mutations \in MutantSets
  BY <1>1 DEF IInv, WorkInv, CompletionInv
<1>7. ~(B \subseteq results) /\ B \cap deferred = {} /\ B \cap Under = {}
  <2>1. B \cap deferred = {}
    BY <1>1 DEF IInv, WorkInv, Known
  <2>2. \A e \in evaluating : B # e.mutations
    BY <1>1 DEF Known, Under
  <2>3. B \cap Under = {}
    BY <2>2, <1>5, <1>6 DEF Under
  <2> QED BY <2>1, <2>3, <1>1 DEF Known
<1>8. Under' = Under \cup B
  <2>1. evaluating' = evaluating \cup {new}
    BY <1>1 DEF new
  <2> QED BY <2>1, <1>4 DEF Under
<1>9. TypeOK'
  <2>1. Mutations' = Mutations
    BY <1>2 DEF Mutations, MutantSets
  <2>2. evaluating' \subseteq [mutations : SUBSET Mutations, in_process : BOOLEAN]
    BY <1>1, <1>4 DEF IInv, TypeOK, new
  <2>3. started' \in SUBSET Mutations
    BY <1>3, <1>4 DEF IInv, TypeOK
  <2> QED BY <2>1, <2>2, <2>3, <1>2, <1>3 DEF IInv, TypeOK, supervisor, signals
<1>10. JournalInv' /\ StatusInv' /\ CompletedIsComplete'
  <2>1. wexit' = "stopped" => stop
    BY <1>2 DEF IInv, StatusInv
  <2> QED BY <2>1, <1>1, <1>2, <1>3, WorkerFrame
<1>11. WorkInv'
  <2>1. \A e \in evaluating : e.mutations \cap B = {}
    BY <1>7 DEF Under
  <2>2. \A e, f \in evaluating' : e = f \/ e.mutations \cap f.mutations = {}
    BY <2>1, <1>1, <1>4 DEF IInv, WorkInv, new
  <2>3. \A e \in evaluating' :
          /\ \E C \in MutantSets : e.mutations \subseteq C
          /\ ~(e.mutations \subseteq results)
          /\ e.mutations \in MutantSets
          /\ e.in_process => e.mutations \cap earlier.isolated = {}
    BY <1>1, <1>4, <1>6, <1>7 DEF IInv, WorkInv, new
  <2>4. undecided \cap (results \cup deferred \cup Under') = {} /\ deferred \cap (results \cup Under') = {}
    BY <1>1, <1>7, <1>8 DEF IInv, WorkInv
  <2>5. \A C \in MutantSets : C \cap (undecided \cup deferred) # {} =>
                                C \subseteq results \cup undecided \cup deferred
    BY <1>1 DEF IInv, WorkInv
  <2> QED BY <2>2, <2>3, <2>4, <2>5, <1>1, <1>2 DEF WorkInv, MutantSets
<1>12. RowsInv' /\ CompletionInv'
  BY <1>1, <1>2, <1>3, <1>6, <1>8 DEF IInv, RowsInv, CompletionInv, Running
<1>13. EndedInv'
  BY <1>1, <1>2, <1>3, EndedFrame
<1> QED BY <1>9, <1>10, <1>11, <1>12, <1>13 DEF IInv

\* An evaluation is over, and those of its mutations without a result are undecided.
LEMMA RunEndsKeeps ==
  ASSUME IInv, UNCHANGED setup, NEW e \in evaluating, RunEnds(e)
  PROVE  IInv'
<1>1. /\ Alive /\ evaluating' = evaluating \ {e}
      /\ undecided' = undecided \cup (e.mutations \ results)
      /\ leftover' \in {leftover} \cup (IF e.in_process THEN {leftover \cup e.mutations} ELSE {})
  BY DEF RunEnds
<1>2. UNCHANGED <<setup, journaled, started, finished, isolated, profiled, tail, wpc, healthy, earlier,
                  deferred, results, completion, summary, wexit, supervisor, signals, lostRow, ended>>
  BY DEF RunEnds, rows
<1>3. e \in [mutations : SUBSET Mutations, in_process : BOOLEAN] /\ Mutations' = Mutations
  BY <1>2 DEF IInv, TypeOK, Mutations, MutantSets
<1>4. \A f \in evaluating' : f.mutations \cap e.mutations = {}
  BY <1>1 DEF IInv, WorkInv
<1>5. Under = Under' \cup e.mutations /\ Under' \cap e.mutations = {}
  BY <1>1, <1>4 DEF Under
<1>6. wpc \notin {"open", "reference", "record", "recorded"} /\ ~completion
  BY DEF IInv, WorkInv, CompletionInv
<1>7. TypeOK'
  <2>1. undecided' \in SUBSET Mutations /\ leftover' \in SUBSET Mutations
    BY <1>1, <1>3 DEF IInv, TypeOK
  <2>2. evaluating' \subseteq [mutations : SUBSET Mutations, in_process : BOOLEAN]
    BY <1>1 DEF IInv, TypeOK
  <2> QED BY <2>1, <2>2, <1>2, <1>3 DEF IInv, TypeOK, supervisor, signals
<1>8. JournalInv' /\ StatusInv' /\ CompletedIsComplete'
  <2>1. wpc' # "open" /\ (wexit' = "stopped" => stop) /\ (journaled /\ ~lostRow' => healthy')
    BY <1>2, <1>6 DEF IInv, StatusInv, JournalInv
  <2> QED BY <2>1, <1>1, <1>2, WorkerFrame
<1>9. WorkInv'
  <2>1. \A f, g \in evaluating' : f = g \/ f.mutations \cap g.mutations = {}
    BY <1>1 DEF IInv, WorkInv
  <2>2. \A f \in evaluating' :
          /\ \E B \in MutantSets : f.mutations \subseteq B
          /\ ~(f.mutations \subseteq results)
          /\ f.mutations \in MutantSets \/ f.mutations \cap results = {}
          /\ f.in_process => f.mutations \cap earlier.isolated = {}
    BY <1>1 DEF IInv, WorkInv
  <2>3. /\ undecided' \cap (results \cup deferred \cup Under') = {}
        /\ deferred \cap (results \cup Under') = {}
    BY <1>1, <1>5 DEF IInv, WorkInv
  <2>4. ASSUME wpc = "evaluate"
        PROVE  /\ \A f \in evaluating' : f.mutations \in MutantSets
               /\ \A B \in MutantSets : B \cap (undecided' \cup deferred) # {} =>
                                         B \subseteq results \cup undecided' \cup deferred
    <3>1. /\ \A f \in evaluating : f.mutations \in MutantSets
          /\ \A B \in MutantSets : B \cap (undecided \cup deferred) # {} =>
                                    B \subseteq results \cup undecided \cup deferred
      BY <2>4 DEF IInv, WorkInv
    <3>2. \A B, C \in MutantSets : B = C \/ B \cap C = {}
      BY SupervisionAssumption DEF IInv, TypeOK, MutantSets
    <3>3. e.mutations \in MutantSets
      BY <3>1
    <3>4. SUFFICES ASSUME NEW B \in MutantSets, B \cap (undecided' \cup deferred) # {}
                   PROVE  B \subseteq results \cup undecided' \cup deferred
      BY <3>1, <1>1
    <3>5. CASE B = e.mutations
      BY <3>5, <1>1
    <3>6. CASE B # e.mutations
      <4>1. B \cap (undecided \cup deferred) # {}
        BY <3>2, <3>3, <3>4, <3>6, <1>1
      <4> QED BY <4>1, <3>1, <1>1
    <3> QED BY <3>5, <3>6
  <2> QED BY <2>1, <2>2, <2>3, <2>4, <1>2, <1>6 DEF WorkInv, MutantSets
<1>10. RowsInv'
  <2>1. undecided' \cup deferred \cup Under' \subseteq undecided \cup deferred \cup Under
    BY <1>1, <1>5
  <2> QED BY <2>1, <1>2 DEF IInv, RowsInv, Running
<1>11. CompletionInv'
  <2>1. Known \subseteq results \cup undecided' \cup deferred \cup Under'
    BY <1>1, <1>5 DEF Known
  <2> QED BY <2>1, <1>2, <1>3, <1>6 DEF IInv, CompletionInv, Known
<1>12. EndedInv'
  BY <1>1, <1>2, EndedFrame
<1> QED BY <1>7, <1>8, <1>9, <1>10, <1>11, <1>12 DEF IInv

\* A result is recorded once, and not for a mutation that is under evaluation.
LEMMA RecordKeeps ==
  ASSUME IInv, UNCHANGED setup, NEW m \in Mutations, RecordResult(m)
  PROVE  IInv'
<1>1. /\ Alive /\ m \in undecided /\ undecided' = undecided \ {m} /\ results' = results \cup {m}
      /\ Appends(finished' = Append(finished, m), UNCHANGED finished)
  BY DEF RecordResult
<1>2. UNCHANGED <<setup, journaled, started, isolated, profiled, wpc, earlier, evaluating, deferred,
                  leftover, completion, summary, wexit, supervisor, signals, ended>>
  BY DEF RecordResult
<1>3. /\ finished' = Append(finished, m) \/ finished' = finished
      /\ journaled /\ healthy' => finished' = Append(finished, m)
      /\ healthy' => healthy
      /\ lostRow => lostRow'
      /\ journaled /\ ~lostRow' => healthy'
      /\ {healthy', lostRow'} \subseteq BOOLEAN
      /\ tail' \in {"whole", "torn", "joined"}
  BY <1>1, AppendsHolds
<1>4. finished \in Seq(Mutations) /\ Mutations' = Mutations
  BY <1>2 DEF IInv, TypeOK, Mutations, MutantSets
<1>5. Append(finished, m) \in Seq(Mutations) /\ ToSet(Append(finished, m)) = ToSet(finished) \cup {m}
  <2> DEFINE longer == Append(finished, m)
  <2>1. /\ longer \in Seq(Mutations) /\ Len(longer) = Len(finished) + 1 /\ Len(finished) \in Nat
        /\ \A i \in 1 .. Len(finished) : longer[i] = finished[i]
        /\ longer[Len(finished) + 1] = m
    BY <1>4
  <2>2. DOMAIN longer = 1 .. Len(finished) + 1 /\ DOMAIN finished = 1 .. Len(finished)
    BY <2>1, <1>4
  <2> HIDE DEF longer
  <2>3. ToSet(longer) \subseteq ToSet(finished) \cup {m}
    BY <2>1, <2>2 DEF ToSet
  <2>4. ToSet(finished) \cup {m} \subseteq ToSet(longer)
    BY <2>1, <2>2 DEF ToSet
  <2> QED BY <2>1, <2>3, <2>4 DEF longer
<1>6. wpc \notin {"open", "reference", "record", "recorded"} /\ ~completion
      /\ m \notin Under /\ m \notin deferred
  BY <1>1 DEF IInv, WorkInv, CompletionInv
<1>7. TypeOK'
  <2>1. {undecided', results'} \subseteq SUBSET Mutations /\ finished' \in Seq(Mutations)
    BY <1>1, <1>3, <1>4, <1>5 DEF IInv, TypeOK
  <2> QED BY <2>1, <1>2, <1>3, <1>4 DEF IInv, TypeOK, supervisor, signals
<1>8. JournalInv' /\ StatusInv' /\ CompletedIsComplete'
  <2>1. wpc' # "open" /\ (wexit' = "stopped" => stop)
    BY <1>2, <1>6 DEF IInv, StatusInv
  <2> QED BY <2>1, <1>1, <1>2, <1>3, WorkerFrame
<1>9. WorkInv'
  <2>1. \A e \in evaluating : m \notin e.mutations
    BY <1>6 DEF Under
  <2>2. \A e \in evaluating :
          /\ ~(e.mutations \subseteq results')
          /\ e.mutations \in MutantSets \/ e.mutations \cap results' = {}
    BY <2>1, <1>1 DEF IInv, WorkInv
  <2>3. undecided' \cap (results' \cup deferred \cup Under) = {} /\ deferred \cap (results' \cup Under) = {}
    BY <1>1, <1>6 DEF IInv, WorkInv
  <2>4. ASSUME wpc = "evaluate", NEW B \in MutantSets, B \cap (undecided' \cup deferred) # {}
        PROVE  B \subseteq results' \cup undecided' \cup deferred
    <3>1. B \subseteq results \cup undecided \cup deferred
      BY <2>4, <1>1 DEF IInv, WorkInv
    <3> QED BY <3>1, <1>1
  <2>5. Under' = Under
    BY <1>2 DEF Under
  <2> QED BY <2>2, <2>3, <2>4, <2>5, <1>2, <1>6 DEF IInv, WorkInv, MutantSets
<1>10. RowsInv'
  <2>1. journaled /\ healthy' /\ Running => results' = ToSet(finished')
    BY <1>1, <1>3, <1>5 DEF IInv, RowsInv
  <2> QED BY <2>1, <1>1, <1>2, <1>3, <1>6 DEF IInv, RowsInv, Running, Under
<1>11. CompletionInv'
  <2>1. Known' = Known
    BY <1>1, <1>2 DEF Known, Under
  <2> QED BY <2>1, <1>2, <1>4, <1>6 DEF IInv, CompletionInv
<1>12. EndedInv'
  BY <1>1, <1>2, <1>3, <1>5, EndedFrame
<1> QED BY <1>7, <1>8, <1>9, <1>10, <1>11, <1>12 DEF IInv

\* A mutation that timed out within short limits waits for its confirmation.
LEMMA DeferKeeps ==
  ASSUME IInv, UNCHANGED setup, NEW m \in Mutations, DeferTimeout(m)
  PROVE  IInv'
<1>1. /\ wpc = "evaluate" /\ Alive /\ m \in undecided
      /\ undecided' = undecided \ {m} /\ deferred' = deferred \cup {m}
  BY DEF DeferTimeout, Alive
<1>2. UNCHANGED <<setup, journaled, started, finished, isolated, profiled, tail, wpc, healthy, earlier,
                  evaluating, results, leftover, completion, summary, wexit, supervisor, signals,
                  lostRow, ended>>
  BY DEF DeferTimeout, rows
<1>3. Mutations' = Mutations /\ Under' = Under /\ Known' = Known
  BY <1>1, <1>2 DEF Mutations, MutantSets, Under, Known
<1>4. undecided' \cup deferred' = undecided \cup deferred
  BY <1>1
<1>5. TypeOK'
  <2>1. {undecided', deferred'} \subseteq SUBSET Mutations
    BY <1>1 DEF IInv, TypeOK
  <2> QED BY <2>1, <1>2, <1>3 DEF IInv, TypeOK, supervisor, signals
<1>6. JournalInv' /\ StatusInv' /\ CompletedIsComplete'
  <2>1. wpc' # "open" /\ (wexit' = "stopped" => stop) /\ (journaled /\ ~lostRow' => healthy')
    BY <1>1, <1>2 DEF IInv, StatusInv, JournalInv
  <2> QED BY <2>1, <1>1, <1>2, WorkerFrame
<1>7. WorkInv'
  <2>1. undecided' \cap (results \cup deferred' \cup Under) = {} /\ deferred' \cap (results \cup Under) = {}
    BY <1>1 DEF IInv, WorkInv
  <2>2. ASSUME NEW B \in MutantSets, B \cap (undecided' \cup deferred') # {}
        PROVE  B \subseteq results \cup undecided' \cup deferred'
    <3>1. B \subseteq results \cup undecided \cup deferred
      BY <2>2, <1>1 DEF IInv, WorkInv
    <3> QED BY <3>1, <1>1
  <2> QED BY <2>1, <2>2, <1>1, <1>2, <1>3 DEF IInv, WorkInv, MutantSets
<1>8. RowsInv' /\ CompletionInv'
  <2>1. RowsInv'
    BY <1>2, <1>3, <1>4 DEF IInv, RowsInv, Running
  <2>2. CompletionInv'
    BY <1>1, <1>2, <1>3 DEF IInv, CompletionInv
  <2> QED BY <2>1, <2>2
<1>9. EndedInv'
  BY <1>1, <1>2, EndedFrame
<1> QED BY <1>5, <1>6, <1>7, <1>8, <1>9 DEF IInv

\* Nothing is left to evaluate but the mutations that timed out.
LEMMA AllEvaluatedKeeps ==
  ASSUME IInv, UNCHANGED setup, AllEvaluated
  PROVE  IInv'
<1>1. /\ wpc = "evaluate" /\ Alive /\ wpc' = "confirm" /\ \A B \in MutantSets : B \subseteq Known
      /\ evaluating = {} /\ undecided = {}
  BY DEF AllEvaluated, Alive, Idle
<1>2. UNCHANGED <<setup, journaled, started, finished, isolated, profiled, tail, healthy, earlier,
                  evaluating, undecided, deferred, results, leftover, completion, summary, wexit,
                  supervisor, signals, lostRow, ended>>
  BY DEF AllEvaluated, rows, memory
<1>3. Mutations \subseteq Known /\ Mutations' = Mutations /\ Known' = Known /\ Under' = Under
  BY <1>1, <1>2 DEF Mutations, MutantSets, Known, Under
<1>4. TypeOK'
  BY <1>1, <1>2, <1>3 DEF IInv, TypeOK, supervisor, signals
<1>5. JournalInv' /\ StatusInv' /\ CompletedIsComplete'
  <2>1. (wexit' = "stopped" => stop) /\ (journaled /\ ~lostRow' => healthy')
    BY <1>2 DEF IInv, StatusInv, JournalInv
  <2> QED BY <2>1, <1>1, <1>2, WorkerFrame
<1>6. WorkInv'
  BY <1>1, <1>2, <1>3 DEF IInv, WorkInv, MutantSets
<1>7. RowsInv' /\ CompletionInv'
  <2>1. RowsInv'
    BY <1>1, <1>2, <1>3 DEF IInv, RowsInv, Running
  <2>2. CompletionInv'
    BY <1>1, <1>2, <1>3 DEF IInv, CompletionInv
  <2> QED BY <2>1, <2>2
<1>8. EndedInv'
  BY <1>1, <1>2, EndedFrame
<1> QED BY <1>4, <1>5, <1>6, <1>7, <1>8 DEF IInv

\* A mutation that timed out runs again by itself.
LEMMA ConfirmKeeps ==
  ASSUME IInv, UNCHANGED setup, NEW m \in Mutations, ConfirmTimeout(m)
  PROVE  IInv'
<1>1. /\ wpc = "confirm" /\ Alive /\ evaluating = {} /\ undecided = {}
      /\ m \in deferred /\ deferred' = deferred \ {m}
      /\ evaluating' = {Evaluation({m})}
  BY DEF ConfirmTimeout, Alive, Idle
<1>2. UNCHANGED <<setup, journaled, started, finished, isolated, profiled, tail, wpc, healthy, earlier,
                  undecided, results, leftover, completion, summary, wexit, supervisor, signals,
                  lostRow, ended>>
  BY DEF ConfirmTimeout, rows
<1> DEFINE new == Evaluation({m})
<1>3. /\ new \in [mutations : SUBSET Mutations, in_process : BOOLEAN] /\ new.mutations = {m}
      /\ new.in_process => {m} \cap earlier.isolated = {}
  BY DEF Evaluation, InProcess
<1>4. evaluating' = {new}
  BY <1>1
<1> HIDE DEF new
<1>5. Mutations' = Mutations /\ Under' = {m} /\ Under = {}
  BY <1>1, <1>2, <1>3, <1>4 DEF Mutations, MutantSets, Under
<1>6. Known' = Known
  BY <1>1, <1>2, <1>5 DEF Known
<1>7. m \notin results
  BY <1>1 DEF IInv, WorkInv
<1>8. TypeOK'
  <2>1. deferred' \in SUBSET Mutations
    BY <1>1 DEF IInv, TypeOK
  <2> QED BY <2>1, <1>2, <1>3, <1>4, <1>5 DEF IInv, TypeOK, supervisor, signals
<1>9. JournalInv' /\ StatusInv' /\ CompletedIsComplete'
  <2>1. wpc' # "open" /\ (wexit' = "stopped" => stop) /\ (journaled /\ ~lostRow' => healthy')
    BY <1>1, <1>2 DEF IInv, StatusInv, JournalInv
  <2> QED BY <2>1, <1>1, <1>2, WorkerFrame
<1>10. WorkInv'
  <2>1. \E B \in MutantSets : {m} \subseteq B
    BY DEF Mutations
  <2>2. \A e \in evaluating' :
          /\ \E B \in MutantSets : e.mutations \subseteq B
          /\ ~(e.mutations \subseteq results)
          /\ e.mutations \cap results = {}
          /\ e.in_process => e.mutations \cap earlier.isolated = {}
    BY <2>1, <1>3, <1>4, <1>7
  <2>3. undecided \cap (results \cup deferred' \cup Under') = {} /\ deferred' \cap (results \cup Under') = {}
    BY <1>1, <1>5 DEF IInv, WorkInv
  <2> QED BY <2>2, <2>3, <1>1, <1>2, <1>4 DEF WorkInv, MutantSets
<1>11. RowsInv'
  <2>1. undecided \cup deferred' \cup Under' = undecided \cup deferred \cup Under
    BY <1>1, <1>5
  <2> QED BY <2>1, <1>2 DEF IInv, RowsInv, Running
<1>12. CompletionInv'
  BY <1>1, <1>2, <1>5, <1>6 DEF IInv, CompletionInv
<1>13. EndedInv'
  BY <1>1, <1>2, EndedFrame
<1> QED BY <1>8, <1>9, <1>10, <1>11, <1>12, <1>13 DEF IInv

\* The end of an analysis, from the last result to the exit of the worker.
LEMMA EndKeeps ==
  ASSUME IInv, UNCHANGED setup, Finish \/ WriteCompletion \/ ExitCompleted
  PROVE  IInv'
<1>1. UNCHANGED <<setup, journaled, started, finished, isolated, profiled, tail, healthy, earlier,
                  evaluating, undecided, deferred, results, leftover, supervisor, signals,
                  lostRow, ended>>
  BY DEF Finish, WriteCompletion, ExitCompleted, rows, memory
<1>2. /\ wpc \in {"confirm", "record", "recorded"} /\ Alive /\ wpc' \in {"record", "recorded", "dead"}
      /\ evaluating = {} /\ undecided = {} /\ deferred = {}
      /\ Mutations \subseteq Known
  BY DEF Finish, WriteCompletion, ExitCompleted, Alive, Idle, IInv, CompletionInv
<1>3. /\ completion => completion'
      /\ wexit' \in {wexit, "other", "done"}
      /\ wpc' \in {"record", "recorded"} \/ completion' => (journaled => healthy)
      /\ wpc' \in {"record", "recorded"} \/ completion' => summary' = 1
      /\ summary' \in Nat /\ completion' \in BOOLEAN
  <2>1. CASE Finish
    <3>1. wpc = "confirm" /\ summary' = summary + 1 /\ completion' = completion
      BY <2>1 DEF Finish
    <3>2. ~completion /\ summary = 0 /\ completion \in BOOLEAN
      BY <3>1 DEF IInv, TypeOK, CompletionInv
    <3>3. wpc' = "record" => (journaled => healthy)
      BY <2>1 DEF Finish
    <3>4. wpc' # "recorded" /\ wexit' \in {wexit, "other", "done"}
      BY <2>1 DEF Finish
    <3>5. summary' = 1
      BY <3>1, <3>2
    <3> QED BY <3>1, <3>2, <3>3, <3>4, <3>5
  <2>2. CASE WriteCompletion
    <3>1. wpc = "record" /\ summary' = summary
      BY <2>2 DEF WriteCompletion
    <3>2. summary = 1 /\ (journaled => healthy) /\ completion \in BOOLEAN
      BY <3>1 DEF IInv, TypeOK, CompletionInv
    <3>3. wexit' \in {wexit, "other", "done"} /\ (completion' = TRUE \/ completion' = completion)
      BY <2>2 DEF WriteCompletion
    <3>4. completion' \in BOOLEAN /\ (completion => completion')
      <4>1. completion' = TRUE => completion' \in BOOLEAN /\ (completion => completion')
        OBVIOUS
      <4>2. completion' = completion => completion' \in BOOLEAN /\ (completion => completion')
        BY <3>2
      <4> QED BY <3>3, <4>1, <4>2
    <3>5. summary' \in Nat /\ summary' = 1
      BY <3>1, <3>2
    <3> QED BY <3>2, <3>3, <3>4, <3>5, Zenon
  <2>3. CASE ExitCompleted
    BY <2>3 DEF ExitCompleted, IInv, TypeOK, CompletionInv
  <2> QED BY <2>1, <2>2, <2>3
<1>4. Mutations' = Mutations /\ Known' = Known
  BY <1>1 DEF Mutations, MutantSets, Known, Under
<1>5. TypeOK'
  <2>1. wexit' \in {"none", "done", "lookalike", "other", "killed", "stopped"}
    BY <1>3 DEF IInv, TypeOK
  <2> QED BY <2>1, <1>1, <1>2, <1>3, <1>4 DEF IInv, TypeOK, supervisor, signals
<1>6. JournalInv' /\ StatusInv' /\ CompletedIsComplete'
  <2>1. wpc' # "open" /\ (wexit' = "stopped" => stop) /\ (journaled /\ ~lostRow' => healthy')
    BY <1>1, <1>2, <1>3 DEF IInv, StatusInv, JournalInv
  <2> QED BY <2>1, <1>1, <1>2, <1>3, WorkerFrame
<1>7. WorkInv'
  BY <1>1, <1>2 DEF IInv, WorkInv, Under, MutantSets
<1>8. RowsInv' /\ CompletionInv'
  <2>1. Running
    BY <1>2 DEF Running
  <2>2. RowsInv'
    BY <2>1, <1>1, <1>2 DEF IInv, RowsInv, Running, Under
  <2>3. CompletionInv'
    BY <1>1, <1>2, <1>3, <1>4 DEF IInv, CompletionInv
  <2> QED BY <2>2, <2>3
<1>9. EndedInv'
  BY <1>1, <1>2, EndedFrame
<1> QED BY <1>5, <1>6, <1>7, <1>8, <1>9 DEF IInv

\* A worker that ends at any moment leaves a journal in which its last row may be cut short.
LEMMA DeathFrame ==
  ASSUME IInv, Alive, wpc' = "dead", tail' \in CutShort,
         wexit' \in {"killed", "lookalike", "other"} \/ (wexit' = "done" /\ completion)
            \/ (wexit' = "stopped" /\ stop),
         UNCHANGED <<setup, journaled, started, finished, isolated, profiled, healthy, memory,
                     completion, summary, supervisor, signals, lostRow>>
  PROVE  /\ JournalInv' /\ StatusInv' /\ CompletedIsComplete'
         /\ WorkInv' /\ RowsInv' /\ CompletionInv'
         /\ ended' \in SUBSET Mutations => TypeOK'
<1>1. UNCHANGED <<earlier, evaluating, undecided, deferred, results, leftover>>
  BY DEF memory
<1>2. JournalInv' /\ StatusInv' /\ CompletedIsComplete'
  <2>1. wpc' # "open" /\ (wexit' = "stopped" => stop) /\ (journaled /\ ~lostRow' => healthy')
    BY DEF IInv, JournalInv
  <2> QED BY <2>1, WorkerFrame
<1>3. WorkInv'
  BY <1>1 DEF IInv, WorkInv, Under, MutantSets
<1>4. RowsInv' /\ CompletionInv'
  BY <1>1 DEF IInv, RowsInv, CompletionInv, Running, Under, Known, Mutations, MutantSets
<1>5. ASSUME ended' \in SUBSET Mutations PROVE TypeOK'
  <2>1. tail' \in {"whole", "torn", "joined"}
    BY DEF CutShort, IInv, TypeOK
  <2>2. wexit' \in {"none", "done", "lookalike", "other", "killed", "stopped"}
    OBVIOUS
  <2>3. Mutations' = Mutations
    BY DEF Mutations, MutantSets
  <2> QED BY <2>1, <2>2, <2>3, <1>1, <1>5 DEF IInv, TypeOK, supervisor, signals
<1> QED BY <1>2, <1>3, <1>4, <1>5

\* What was under evaluation is unfinished, or of a mutant of which a mutation is.
LEMMA TestEndsKeeps ==
  ASSUME IInv, UNCHANGED setup, TestEndsWorker
  PROVE  IInv'
<1>1. /\ Alive /\ wpc' = "dead" /\ tail' \in CutShort /\ ended' = ended \cup Ended
      /\ wexit' \in {"killed", "lookalike", "other"} \/ (wexit' = "done" /\ completion)
  BY DEF TestEndsWorker
<1>2. UNCHANGED <<setup, journaled, started, finished, isolated, profiled, healthy, memory,
                  completion, summary, supervisor, signals, lostRow>>
  BY DEF TestEndsWorker
<1>3. Ended \subseteq Under /\ Under \subseteq Mutations
  BY DEF Ended, Under, IInv, TypeOK
<1>4. ended' \in SUBSET Mutations
  BY <1>1, <1>3 DEF IInv, TypeOK
<1>5. TypeOK' /\ JournalInv' /\ StatusInv' /\ CompletedIsComplete' /\ WorkInv' /\ RowsInv' /\ CompletionInv'
  BY <1>1, <1>2, <1>4, DeathFrame
<1>6. EndedInv'
  <2>1. SUFFICES ASSUME journaled, ~lostRow, NEW m \in ended'
                 PROVE  Confined(m, isolated \cup Unfinished)'
    BY <1>1, <1>2, <1>5 DEF EndedInv, Alive, JournalInv, Attending, supervisor, IInv
  <2>2. SUFFICES Confined(m, isolated \cup Unfinished)
    BY <1>2 DEF Confined, Unfinished, MutantSets
  <2>3. CASE m \in ended
    BY <2>1, <2>3 DEF IInv, EndedInv
  <2>4. CASE m \in Ended
    <3>1. PICK e \in evaluating : m \in e.mutations
      BY <2>4 DEF Ended
    <3>2. healthy
      BY <2>1 DEF IInv, JournalInv
    <3>3. Running
      <4>1. wpc # "open"
        BY <3>1 DEF IInv, WorkInv
      <4>2. wpc \in {"none", "open", "reference", "evaluate", "confirm", "record", "recorded", "dead"}
        BY DEF IInv, TypeOK
      <4> QED BY <1>1, <4>1, <4>2 DEF Running, Alive
    <3>4. results = ToSet(finished) /\ e.mutations \subseteq started
      BY <2>1, <3>1, <3>2, <3>3 DEF IInv, RowsInv, Under
    <3>5. PICK n \in e.mutations : n \notin results
      BY <3>1 DEF IInv, WorkInv
    <3>6. n \in Unfinished
      BY <3>4, <3>5 DEF Unfinished
    <3>7. m \in Unfinished \cup ToSet(finished)
      BY <3>1, <3>4 DEF Unfinished
    <3>8. PICK D \in MutantSets : e.mutations \subseteq D
      BY <3>1 DEF IInv, WorkInv
    <3>9. \A B, C \in MutantSets : B = C \/ B \cap C = {}
      BY SupervisionAssumption DEF IInv, TypeOK, MutantSets
    <3>10. \A B \in MutantSets : m \in B => n \in B
      BY <3>1, <3>5, <3>8, <3>9
    <3> QED BY <3>6, <3>7, <3>10 DEF Confined
  <2> QED BY <2>1, <2>3, <2>4, <1>1
<1> QED BY <1>5, <1>6 DEF IInv

\* A worker that dies of a stop signal is not blamed on its tests.
LEMMA StopEndsKeeps ==
  ASSUME IInv, UNCHANGED setup, StopEndsWorker
  PROVE  IInv'
<1>1. /\ Alive /\ stop /\ wpc' = "dead" /\ tail' \in CutShort
      /\ wexit' = "killed" \/ wexit' = "stopped"
      /\ UNCHANGED <<setup, journaled, started, finished, isolated, profiled, healthy, memory,
                     completion, summary, supervisor, signals, lostRow, ended>>
  BY DEF StopEndsWorker
<1>2. TypeOK' /\ JournalInv' /\ StatusInv' /\ CompletedIsComplete' /\ WorkInv' /\ RowsInv' /\ CompletionInv'
  <2>1. ended' \in SUBSET Mutations
    BY <1>1 DEF IInv, TypeOK
  <2> QED BY <2>1, <1>1, DeathFrame
<1>3. EndedInv'
  BY <1>1, EndedFrame
<1> QED BY <1>2, <1>3 DEF IInv

\* A step of the rest of the system.
LEMMA StutterKeeps ==
  ASSUME IInv, UNCHANGED vars
  PROVE  IInv'
<1>1. UNCHANGED <<setup, journaled, rows, worker, signals, supervisor, lostRow, ended>>
  BY DEF vars
<1>2. UNCHANGED <<started, finished, isolated, profiled, tail, wpc, healthy, earlier, evaluating,
                  undecided, deferred, results, leftover, completion, summary, wexit, stop, order,
                  signalled, witnessed, cancelled, stopFirst, sup, status, previous, log, code>>
  BY <1>1 DEF rows, worker, memory, signals, supervisor
<1>3. /\ WorkInv' /\ RowsInv' /\ CompletionInv'
      /\ Alive' = Alive /\ Readable' = Readable /\ Unfinished' = Unfinished
      /\ Mutations' = Mutations
      /\ \A m, marked : Confined(m, marked)' = Confined(m, marked)
  BY <1>1, WorkerKept
<1>4. TypeOK'
  BY <1>1, <1>2, <1>3 DEF IInv, TypeOK
<1>5. JournalInv' /\ StatusInv' /\ EndedInv' /\ CompletedIsComplete'
  BY <1>1, <1>2, <1>3 DEF IInv, JournalInv, StatusInv, EndedInv, CompletedIsComplete, Attending
<1> QED BY <1>3, <1>4, <1>5 DEF IInv

-----------------------------------------------------------------------------
\* Every step keeps the inductive invariant.
LEMMA NextKeeps ==
  ASSUME IInv, [Next]_vars
  PROVE  IInv'
<1>1. CASE UNCHANGED vars
  BY <1>1, StutterKeeps
<1>2. CASE Next
  <2>1. UNCHANGED setup
    BY <1>2 DEF Next
  <2>2. CASE WorkerStep
    <3>1. CASE OpenJournal
      BY <2>1, <3>1, OpenKeeps
    <3>2. CASE ReferenceRun
      BY <2>1, <3>2, ReferenceRunKeeps
    <3>3. CASE AllEvaluated
      BY <2>1, <3>3, AllEvaluatedKeeps
    <3>4. CASE Finish \/ WriteCompletion \/ ExitCompleted
      BY <2>1, <3>4, EndKeeps
    <3>5. ASSUME NEW B \in MutantSets, StartMutant(B) PROVE IInv'
      BY <2>1, <3>5, StartKeeps
    <3>6. ASSUME NEW e \in evaluating, RunEnds(e) PROVE IInv'
      BY <2>1, <3>6, RunEndsKeeps
    <3>7. ASSUME NEW m \in Mutations, RecordResult(m) PROVE IInv'
      BY <2>1, <3>7, RecordKeeps
    <3>8. ASSUME NEW m \in Mutations, ConfirmTimeout(m) PROVE IInv'
      BY <2>1, <3>8, ConfirmKeeps
    <3> QED BY <2>2, <3>1, <3>2, <3>3, <3>4, <3>5, <3>6, <3>7, <3>8 DEF WorkerStep
  <2>3. CASE TestEndsWorker
    BY <2>1, <2>3, TestEndsKeeps
  <2>4. CASE SupervisorStep
    <3>1. CASE CheckStop \/ WatchWorker \/ Observe \/ WaitOn
      BY <2>1, <3>1, AttendKeeps
    <3>2. CASE Spawn
      BY <2>1, <3>2, SpawnKeeps
    <3>3. CASE Reap
      BY <2>1, <3>3, ReapKeeps
    <3>4. CASE Decide
      BY <2>1, <3>4, DecideKeeps
    <3>5. CASE Exit
      BY <2>1, <3>5, ExitKeeps
    <3> QED BY <2>4, <3>1, <3>2, <3>3, <3>4, <3>5 DEF SupervisorStep
  <2>5. CASE Stop
    BY <2>1, <2>5, AttendKeeps
  <2>6. CASE StopEndsWorker
    BY <2>1, <2>6, StopEndsKeeps
  <2>7. ASSUME NEW m \in Mutations, DeferTimeout(m) PROVE IInv'
    BY <2>1, <2>7, DeferKeeps
  <2> QED BY <1>2, <2>2, <2>3, <2>4, <2>5, <2>6, <2>7 DEF Next
<1> QED BY <1>1, <1>2

\* The inductive invariant holds whatever crashes, fails or stops the run.
THEOREM Invariance == Spec => []IInv
<1>1. Init => IInv
  BY InitIInv
<1>2. IInv /\ [Next]_vars => IInv'
  BY NextKeeps
<1> QED BY <1>1, <1>2, PTL DEF Spec

\* Every variable of the two processes and the journal keeps its type.
THEOREM TypeCorrect == Spec => []TypeOK
<1>1. IInv => TypeOK
  BY DEF IInv
<1> QED BY <1>1, Invariance, PTL

\* supervise ends as completed only if every mutation has a result, in the journal once.
THEOREM CompletionHolds == Spec => []CompletedIsComplete
<1>1. IInv => CompletedIsComplete
  BY DEF IInv
<1> QED BY <1>1, Invariance, PTL

\* open_for_worker never finds a journal that it refuses.
THEOREM JournalHolds == Spec => []WorkerReadsJournal
<1>1. IInv => WorkerReadsJournal
  BY DEF IInv, JournalInv, WorkerReadsJournal
<1> QED BY <1>1, Invariance, PTL

\* isolate_unfinished: what ended a worker does not run inside another.
THEOREM IsolationHolds == Spec => []CrashedRunsIsolated
<1>1. ASSUME IInv, journaled, ~lostRow, NEW e \in evaluating, Alive, e.in_process,
             NEW m \in e.mutations, m \in ended
      PROVE  FALSE
  <2>1. Confined(m, isolated)
    BY <1>1 DEF IInv, EndedInv
  <2>2. healthy /\ Running
    BY <1>1 DEF IInv, TypeOK, JournalInv, WorkInv, Alive, Running
  <2>3. earlier.isolated = isolated /\ results = ToSet(finished) /\ e.mutations \cap isolated = {}
    BY <1>1, <2>2 DEF IInv, RowsInv, WorkInv
  <2>4. m \in results
    BY <1>1, <2>1, <2>3 DEF Confined
  <2>5. e.mutations \in MutantSets
    BY <1>1, <2>4 DEF IInv, WorkInv
  <2> QED BY <1>1, <2>1, <2>3, <2>5 DEF Confined
<1>2. IInv => CrashedRunsIsolated
  BY <1>1 DEF CrashedRunsIsolated
<1> QED BY <1>2, Invariance, PTL

\* Attempt::finish: a stop signal that comes after a witnessed completion does not undo it.
THEOREM WitnessHolds == Spec => []WitnessedCompletionStands
<1>1. IInv => WitnessedCompletionStands
  BY DEF IInv, StatusInv, WitnessedCompletionStands
<1> QED BY <1>1, Invariance, PTL
=============================================================================
