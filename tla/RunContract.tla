----------------------------- MODULE RunContract -----------------------------
(***************************************************************************)
(* What the run of a mutant promises the analysis that waits for it        *)
(* (test_runner::run_tests as harness.rs uses it): each test has at most   *)
(* one result, and when the run returns, no thread that it started still   *)
(* runs unless the run gave it up.  TestThreads retires a mutant from the  *)
(* handle on this promise; TestRun is shown to keep it.                    *)
(***************************************************************************)
CONSTANTS Tests

VARIABLES
    watch,   \* what the run made of each test
    alive,   \* the tests whose threads run
    result,  \* whether the run reported a result of the test
    over     \* the run returned

vars == <<watch, alive, result, over>>

Init ==
    /\ watch = [t \in Tests |-> "queued"]
    /\ alive = {}
    /\ result = [t \in Tests |-> FALSE]
    /\ over = FALSE

\* The test runs on a thread of its own, or its result is known and it needs no thread.
Start(t) ==
    /\ ~over
    /\ watch[t] = "queued"
    /\ watch' = [watch EXCEPT ![t] = "running"]
    /\ alive' \in {alive, alive \cup {t}}
    /\ UNCHANGED <<result, over>>

End(t) ==
    /\ t \in alive
    /\ alive' = alive \ {t}
    /\ UNCHANGED <<watch, result, over>>

\* The run reports the result of a test whose thread has ended, or gives the test up.
Finish(t) ==
    /\ watch[t] = "running"
    /\ ~result[t]
    /\ \/ t \notin alive /\ watch' = [watch EXCEPT ![t] = "joined"]
       \/ watch' = [watch EXCEPT ![t] = "lingering"]
    /\ result' = [result EXCEPT ![t] = TRUE]
    /\ UNCHANGED <<alive, over>>

\* What still runs is given up without a result, as a run that stops early does.
GiveUpRunning == watch' = [t \in Tests |-> IF watch[t] = "running" THEN "lingering" ELSE watch[t]]

\* The children among them are killed; what cannot be killed lingers.
GiveUp ==
    /\ ~over
    /\ GiveUpRunning
    /\ alive' \in SUBSET alive
    /\ \A t \in alive' : watch'[t] = "lingering"
    /\ over' \in BOOLEAN \* the run returned, or goes on with its second phase
    /\ UNCHANGED result

Next == GiveUp \/ \E t \in Tests : Start(t) \/ End(t) \/ Finish(t)

Spec == Init /\ [][Next]_vars
=============================================================================
