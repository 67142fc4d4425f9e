----------------------------- MODULE TestThreads -----------------------------
(***************************************************************************)
(* The threads of in-process tests, and how a run gives one of them up     *)
(* (mutest-runtime/src/test_runner.rs, and the substitution points that    *)
(* mutest-emit/src/codegen/{guard,substitution}.rs write into a program).  *)
(*                                                                         *)
(* One process evaluates mutants one after another, or side by side where  *)
(* they do not conflict.  The tests of a mutant run on threads that cannot *)
(* be stopped: a test past its timeout is only marked, by clearing its     *)
(* signal and raising a count that every thread reads first.  Every access *)
(* to the handle, to a signal and to the count is a step of its own.       *)
(***************************************************************************)
EXTENDS Naturals, FiniteSets

CONSTANTS
    Tests,      \* the in-process test runs, each with a signal of its own
    Mutants,    \* the mutants that a run evaluates
    NoMutant,   \* an empty slot of the substitution map
    Slots,      \* the slots of the substitution map
    GuardSlots, \* the slots that the guard of a function body reads
    MutantOf,   \* the mutant that a test run evaluates
    SlotOf,     \* the slot that a mutant sets
    Reaches     \* the slots of the functions that a test may reach

ASSUME TestThreadsAssumption ==
    /\ IsFiniteSet(Tests)
    /\ NoMutant \notin Mutants
    /\ GuardSlots \subseteq Slots
    /\ MutantOf \in [Tests -> Mutants]
    /\ SlotOf \in [Mutants -> Slots]
    /\ Reaches \in [Tests -> SUBSET Slots]
    /\ \A t \in Tests : SlotOf[MutantOf[t]] \in Reaches[t]

VARIABLES
    active,    \* the mutants under evaluation
    handle,    \* ACTIVE_MUTANT_HANDLE: the mutant in each slot
    signal,    \* the active signal of each test
    abandoned, \* ABANDONED_TEST_THREADS
    watch,     \* where the runner of each test has got to
    pc,        \* where the thread of each test has got to
    at,        \* the substitution point the thread is at
    reg,       \* what the thread took from the slot of the point, then what it runs
    entered,   \* what the thread entered its function body with
    unwinding  \* whether the thread panics

runnerVars == <<active, handle, watch>>
threadVars == <<pc, at, reg, entered, unwinding>>
testVars == <<active, handle, signal, abandoned, watch, threadVars>>

Watch == {"queued", "running", "counting", "uncounting", "lingering", "joined"}

\* A point is a location or guard that reads a slot, a location of an entered body that holds
\* the code of a mutant, or the start of a loop.
Points == [kind : {"loop", "subst", "body"}, slot : Slots, mutant : Mutants]
Nowhere(t) == [kind |-> "loop", slot |-> SlotOf[MutantOf[t]], mutant |-> MutantOf[t]]
Pcs == {"queued", "waiting", "code", "count", "signal", "active", "goes_on",
        "body_count", "body_signal", "apply", "drop", "uncount", "ended", "aborted"}

ThreadsTypeOK ==
    /\ active \subseteq Mutants
    /\ handle \in [Slots -> Mutants \cup {NoMutant}]
    /\ signal \in [Tests -> BOOLEAN]
    /\ abandoned \in Nat
    /\ watch \in [Tests -> Watch]
    /\ pc \in [Tests -> Pcs]
    /\ at \in [Tests -> Points]
    /\ reg \in [Tests -> Mutants \cup {NoMutant}]
    /\ entered \in [Tests -> Mutants \cup {NoMutant}]
    /\ unwinding \in [Tests -> BOOLEAN]

TestsOf(m) == {t \in Tests : MutantOf[t] = m}

\* Mutants conflict where one test reaches both; its verdict could stand for either of them.
Conflict(m, n) == \E t \in Tests : {SlotOf[m], SlotOf[n]} \subseteq Reaches[t]

\* The runner of a mutant is one thread, which gives up one test at a time.
RunnerFree(m) == \A t \in TestsOf(m) : watch[t] \notin {"counting", "uncounting"}

ThreadsInit ==
    /\ active = {}
    /\ handle = [s \in Slots |-> NoMutant]
    /\ signal = [t \in Tests |-> TRUE]
    /\ abandoned = 0
    /\ watch = [t \in Tests |-> "queued"]
    /\ pc = [t \in Tests |-> "queued"]
    /\ at = [t \in Tests |-> Nowhere(t)]
    /\ reg = [t \in Tests |-> NoMutant]
    /\ entered = [t \in Tests |-> NoMutant]
    /\ unwinding = [t \in Tests |-> FALSE]

-----------------------------------------------------------------------------
(* The runner. *)

\* Mutant: mutants run side by side whatever they share.
RunsAlongsideAny(m) == TRUE

RunsAlongside(m) == \A n \in active : ~Conflict(m, n)

\* The handle is replaced: the substitutions of the mutant, beside those under evaluation.
Activate(m) ==
    /\ m \notin active
    /\ RunsAlongside(m)
    /\ active' = active \cup {m}
    /\ handle' = [handle EXCEPT ![SlotOf[m]] = m]
    /\ UNCHANGED <<signal, abandoned, watch, threadVars>>

\* The run of the mutant returned: each test it started was joined, or is abandoned and lingers.
RunEnded(m) == \A t \in TestsOf(m) : watch[t] \in {"queued", "lingering", "joined"}

Retire(m) ==
    /\ m \in active
    /\ RunEnded(m)
    /\ active' = active \ {m}
    /\ handle' = [handle EXCEPT ![SlotOf[m]] = NoMutant]
    /\ UNCHANGED <<signal, abandoned, watch, threadVars>>

\* The test gets a fresh signal and a thread, which waits until its start is reported.
Start(t) ==
    /\ watch[t] = "queued"
    /\ MutantOf[t] \in active
    /\ RunnerFree(MutantOf[t])
    /\ watch' = [watch EXCEPT ![t] = "running"]
    /\ signal' = [signal EXCEPT ![t] = TRUE]
    /\ pc' = [pc EXCEPT ![t] = "waiting"]
    /\ UNCHANGED <<active, handle, abandoned, at, reg, entered, unwinding>>

\* The completion of the test arrived, and its thread is joined.
Join(t) ==
    /\ watch[t] = "running"
    /\ pc[t] = "ended"
    /\ RunnerFree(MutantOf[t])
    /\ watch' = [watch EXCEPT ![t] = "joined"]
    /\ UNCHANGED <<active, handle, signal, abandoned, threadVars>>

\* The runner gives up a test past its timeout, or one still running as the run stops early.
AbandonCount(t) ==
    /\ watch[t] = "running"
    /\ RunnerFree(MutantOf[t])
    /\ abandoned' = abandoned + 1
    /\ watch' = [watch EXCEPT ![t] = "counting"]
    /\ UNCHANGED <<active, handle, signal, threadVars>>

\* Mutant: the count does not go back for a test that had ended.
AbandonStore(t) ==
    /\ watch[t] = "counting"
    /\ signal' = [signal EXCEPT ![t] = FALSE]
    /\ watch' = [watch EXCEPT ![t] = "lingering"]
    /\ UNCHANGED <<active, handle, abandoned, threadVars>>

\* The signal is swapped for false; if the test had cleared it as it ended, the count goes back.
AbandonSwap(t) ==
    /\ watch[t] = "counting"
    /\ signal' = [signal EXCEPT ![t] = FALSE]
    /\ watch' = [watch EXCEPT ![t] = IF signal[t] THEN "lingering" ELSE "uncounting"]
    /\ UNCHANGED <<active, handle, abandoned, threadVars>>

AbandonUncount(t) ==
    /\ watch[t] = "uncounting"
    /\ abandoned' = abandoned - 1
    /\ watch' = [watch EXCEPT ![t] = "lingering"]
    /\ UNCHANGED <<active, handle, signal, threadVars>>

-----------------------------------------------------------------------------
(* The thread of a test. *)

Goto(t, next) == pc' = [pc EXCEPT ![t] = next]

\* The thread is past the point: what it read is out of use.
LeavePoint(t) ==
    /\ at' = [at EXCEPT ![t] = Nowhere(t)]
    /\ reg' = [reg EXCEPT ![t] = NoMutant]

\* Its runner dropped the start channel: the thread publishes its signal and calls the test.
Begin(t) ==
    /\ pc[t] = "waiting"
    /\ Goto(t, "code")
    /\ UNCHANGED <<runnerVars, signal, abandoned, at, reg, entered, unwinding>>

\* subst_at: the slot of a location, or of the guard of a body, is read before anything else.
ReadSlot(t, s) ==
    /\ pc[t] = "code"
    /\ s \in Reaches[t]
    /\ at' = [at EXCEPT ![t] = [kind |-> "subst", slot |-> s, mutant |-> MutantOf[t]]]
    /\ reg' = [reg EXCEPT ![t] = handle[s]]
    /\ Goto(t, IF handle[s] = NoMutant THEN "active" ELSE "count")
    /\ UNCHANGED <<runnerVars, signal, abandoned, entered, unwinding>>

\* active_subst: any_test_thread_abandoned.
SubstCount(t) ==
    /\ pc[t] = "count"
    /\ Goto(t, IF abandoned # 0 THEN "signal" ELSE "active")
    /\ UNCHANGED <<runnerVars, signal, abandoned, at, reg, entered, unwinding>>

\* Mutant: an abandoned thread keeps what it read, as its cancellation is up to the next check.
SubstSignalUnread(t) ==
    /\ pc[t] = "signal"
    /\ Goto(t, "active")
    /\ UNCHANGED <<runnerVars, signal, abandoned, at, reg, entered, unwinding>>

\* active_subst: test_thread_abandoned.
SubstSignal(t) ==
    /\ pc[t] = "signal"
    /\ reg' = [reg EXCEPT ![t] = IF signal[t] THEN @ ELSE NoMutant]
    /\ Goto(t, "active")
    /\ UNCHANGED <<runnerVars, signal, abandoned, at, entered, unwinding>>

\* The statement that each loop of a function body starts with.
LoopPoint(t) ==
    /\ pc[t] = "code"
    /\ Goto(t, "active")
    /\ UNCHANGED <<runnerVars, signal, abandoned, at, reg, entered, unwinding>>

\* is_test_thread_active: any_test_thread_abandoned.
ActiveCount(t) ==
    /\ pc[t] = "active"
    /\ Goto(t, IF abandoned # 0 THEN "goes_on" ELSE "apply")
    /\ UNCHANGED <<runnerVars, signal, abandoned, at, reg, entered, unwinding>>

\* A panic inside a panic aborts the process.
Cancel(t) ==
    /\ unwinding' = [unwinding EXCEPT ![t] = TRUE]
    /\ Goto(t, IF unwinding[t] THEN "aborted" ELSE "code")
    /\ LeavePoint(t)

\* Mutant: a destructor of an abandoned test is cancelled as well.
TestThreadIsActive(t) == signal[t]

TestThreadGoesOn(t) == signal[t] \/ unwinding[t]

\* is_test_thread_active: test_thread_goes_on, else the arm that cancels the test.
GoesOn(t) ==
    /\ pc[t] = "goes_on"
    /\ IF TestThreadGoesOn(t)
       THEN Goto(t, "apply") /\ UNCHANGED <<at, reg, unwinding>>
       ELSE Cancel(t)
    /\ UNCHANGED <<runnerVars, signal, abandoned, entered>>

AtGuard(t) == at[t].kind = "subst" /\ at[t].slot \in GuardSlots

\* The point runs the code of `reg`, or original code; a guard enters the body with it.
Apply(t) ==
    /\ pc[t] = "apply"
    /\ entered' = [entered EXCEPT ![t] = IF AtGuard(t) THEN reg[t] ELSE @]
    /\ Goto(t, "code")
    /\ LeavePoint(t)
    /\ UNCHANGED <<runnerVars, signal, abandoned, unwinding>>

\* What a location of a body runs: the mutant `k` it holds the code of, or original code.
Runs(k, holds) == IF holds THEN k ELSE NoMutant

\* runs_mutation_at: a location in an entered body reads the slot of the guard again.
BodyPoint(t, k) ==
    LET s == SlotOf[k]
        enteredWith == entered[t] = k
        holds == handle[s] = k
        settled == handle[s] = entered[t] \/ holds = enteredWith
    IN  /\ pc[t] = "code"
        /\ entered[t] # NoMutant
        /\ s = SlotOf[entered[t]]
        /\ at' = [at EXCEPT ![t] = [kind |-> "body", slot |-> s, mutant |-> k]]
        /\ reg' = [reg EXCEPT ![t] = Runs(k, holds)]
        /\ Goto(t, IF settled THEN "apply" ELSE "body_count")
        /\ UNCHANGED <<runnerVars, signal, abandoned, entered, unwinding>>

\* runs_mutation_of_new_mutant: any_test_thread_abandoned.
BodyCount(t) ==
    /\ pc[t] = "body_count"
    /\ Goto(t, IF abandoned # 0 THEN "body_signal" ELSE "apply")
    /\ UNCHANGED <<runnerVars, signal, abandoned, at, reg, entered, unwinding>>

\* runs_mutation_of_new_mutant: an abandoned test is cancelled, or keeps what it entered with.
BodySignal(t) ==
    /\ pc[t] = "body_signal"
    /\ \/ signal[t] /\ Goto(t, "apply") /\ UNCHANGED <<at, reg, unwinding>>
       \/ ~signal[t] /\ ~unwinding[t] /\ Cancel(t)
       \/ /\ ~signal[t] /\ unwinding[t]
          /\ reg' = [reg EXCEPT ![t] = Runs(at[t].mutant, entered[t] = at[t].mutant)]
          /\ Goto(t, "apply")
          /\ UNCHANGED <<at, unwinding>>
    /\ UNCHANGED <<runnerVars, signal, abandoned, entered>>

LeaveBody(t) ==
    /\ pc[t] = "code"
    /\ entered[t] # NoMutant
    /\ entered' = [entered EXCEPT ![t] = NoMutant]
    /\ UNCHANGED <<runnerVars, signal, abandoned, pc, at, reg, unwinding>>

\* The test itself fails; destructors run as it unwinds.
Panic(t) ==
    /\ pc[t] = "code"
    /\ ~unwinding[t]
    /\ unwinding' = [unwinding EXCEPT ![t] = TRUE]
    /\ UNCHANGED <<runnerVars, signal, abandoned, pc, at, reg, entered>>

\* The test returned, or its panic was caught; its completion is sent, if anyone still receives it.
Return(t) ==
    /\ pc[t] = "code"
    /\ entered' = [entered EXCEPT ![t] = NoMutant]
    /\ unwinding' = [unwinding EXCEPT ![t] = FALSE]
    /\ Goto(t, "drop")
    /\ UNCHANGED <<runnerVars, signal, abandoned, at, reg>>

\* TestThreadSignal::drop: the signal is swapped for false.
DropSignal(t) ==
    /\ pc[t] = "drop"
    /\ signal' = [signal EXCEPT ![t] = FALSE]
    /\ Goto(t, IF signal[t] THEN "ended" ELSE "uncount")
    /\ UNCHANGED <<runnerVars, abandoned, at, reg, entered, unwinding>>

DropUncount(t) ==
    /\ pc[t] = "uncount"
    /\ abandoned' = abandoned - 1
    /\ Goto(t, "ended")
    /\ UNCHANGED <<runnerVars, signal, at, reg, entered, unwinding>>

-----------------------------------------------------------------------------
RunnerStep(t) ==
    Start(t) \/ Join(t) \/ AbandonCount(t) \/ AbandonSwap(t) \/ AbandonUncount(t)

ThreadStep(t) ==
    \/ Begin(t) \/ SubstCount(t) \/ SubstSignal(t) \/ LoopPoint(t)
    \/ ActiveCount(t) \/ GoesOn(t) \/ Apply(t)
    \/ BodyCount(t) \/ BodySignal(t) \/ LeaveBody(t)
    \/ Panic(t) \/ Return(t) \/ DropSignal(t) \/ DropUncount(t)
    \/ \E s \in Slots : ReadSlot(t, s)
    \/ \E k \in Mutants : BodyPoint(t, k)

ThreadsNext ==
    \/ \E m \in Mutants : Activate(m) \/ Retire(m)
    \/ \E t \in Tests : RunnerStep(t) \/ ThreadStep(t)

ThreadsSpec == ThreadsInit /\ [][ThreadsNext]_testVars

-----------------------------------------------------------------------------
(* Properties. *)

\* A test runs no code of a mutant but its own, even long after the run gave it up and the
\* handle was set for a conflicting mutant ("must not go on into the code of another mutation").
NoForeignCode ==
    \A t \in Tests : pc[t] = "apply" => reg[t] \in {MutantOf[t], NoMutant}

\* While its verdict still counts, a test never misses its mutant: at each location of the
\* mutant it runs the mutant's code, whatever else is activated, retired or abandoned meanwhile.
LiveTestRunsItsMutant ==
    \A t \in Tests :
        /\ pc[t] = "apply"
        /\ watch[t] = "running"
        /\ at[t].slot = SlotOf[MutantOf[t]]
        /\ at[t].kind = "subst" \/ (at[t].kind = "body" /\ at[t].mutant = MutantOf[t])
        => reg[t] = MutantOf[t]

\* The tests that the count stands for: given up with a thread still running, or about to be.
Counted ==
    {t \in Tests : \/ watch[t] \in {"counting", "uncounting"}
                   \/ watch[t] = "lingering" /\ pc[t] # "ended"}

\* The count never misses a thread the run gave up, and no race between a test that ends and
\* its runner leaves it above: at rest it is zero, and the points read no signal again.
CountIsExact == abandoned = Cardinality(Counted)

\* A test that unwinds already is never cancelled again, which would abort the process.
NoSecondPanic == \A t \in Tests : pc[t] # "aborted"
=============================================================================
