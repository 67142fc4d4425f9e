-------------------------- MODULE EvaluationReport --------------------------
(* What a harness makes of the results of its mutations: the verdict of each  *)
(* mutation (the callback of harness.rs run_tests), the counts and the exit   *)
(* code, the detection matrix (detections.rs), subsumption (subsumption.rs)   *)
(* and flakiness (flakiness.rs). The result of a mutation is a record of its  *)
(* verdict and of the results of the tests that ran for it.                   *)
EXTENDS ExitCodes

NoResult == [verdict |-> "Undetected", tests |-> <<>>]

\* One test result comes in: a crash yields to a detection, a timeout to a detection only.
WithTestResult(result, tst, outcome) ==
    [verdict |-> CASE outcome = "Undetected" -> result.verdict
                   [] outcome = "Detected" -> "Detected"
                   [] outcome \in {"Crashed", "TimedOut"} -> IF result.verdict = "Detected" THEN "Detected" ELSE outcome,
     tests |-> [x \in DOMAIN result.tests \cup {tst} |-> IF x = tst THEN outcome ELSE result.tests[x]]]

\* record_mutation_results: the mutations counted with a verdict.
CountOf(results, verdict) == Cardinality({m \in DOMAIN results : results[m].verdict = verdict})

\* verdict_exit_code.
VerdictExitCode(results) ==
    worst((IF CountOf(results, "Undetected") > 0 THEN {MISSED} ELSE {})
          \cup (IF CountOf(results, "TimedOut") > 0 THEN {TIMED_OUT} ELSE {}))

-----------------------------------------------------------------------------

\* MutationDetectionMatrix::write_mutation_test_results: a test that did not run counts as not detecting.
Cell(result, tst) == IF tst \in DOMAIN result.tests THEN result.tests[tst] ELSE "Undetected"

Reverse1(subsumption) ==
    CASE subsumption = "Subsumed" -> "Subsumes" [] subsumption = "Subsumes" -> "Subsumed" [] OTHER -> subsumption

\* compute_mutation_subsumption, over the tests of the harness.
Subsumption(result, other, tests) ==
    LET detecting == \E x \in tests : Cell(result, x) # "Undetected"
        otherDetecting == \E x \in tests : Cell(other, x) # "Undetected"
        subsuming == \E x \in tests : Cell(result, x) # "Undetected" /\ Cell(other, x) = "Undetected"
        subsumed == \E x \in tests : Cell(result, x) = "Undetected" /\ Cell(other, x) # "Undetected"
    IN CASE ~detecting \/ ~otherDetecting -> "No"
         [] detecting /\ otherDetecting /\ ~subsuming /\ ~subsumed -> "Indistinguishable"
         [] detecting /\ otherDetecting /\ subsuming /\ subsumed -> "No"
         [] detecting /\ otherDetecting /\ subsuming /\ ~subsumed -> "Subsumes"
         [] detecting /\ otherDetecting /\ ~subsuming /\ subsumed -> "Subsumed"

\* MutationSubsumptionMatrix::build: each pair is computed once, and reversed below the diagonal.
SubsumptionMatrix(results, tests) ==
    [pair \in (DOMAIN results) \X (DOMAIN results) |->
        CASE pair[1] = pair[2] -> "No"
          [] pair[1] < pair[2] -> Subsumption(results[pair[1]], results[pair[2]], tests)
          [] pair[1] > pair[2] -> Reverse1(Subsumption(results[pair[2]], results[pair[1]], tests))]

-----------------------------------------------------------------------------

\* compute_flakiness, of the results over the runs.
Flaky(outcomes) == "Undetected" \in outcomes /\ Cardinality(outcomes) > 1

\* MutationFlakinessMatrix::build: a test is judged by the runs in which it ran.
FlakyTests(runs, m) ==
    {x \in UNION {DOMAIN runs[i][m].tests : i \in DOMAIN runs} :
        Flaky({runs[i][m].tests[x] : i \in {i \in DOMAIN runs : x \in DOMAIN runs[i][m].tests}})}
=============================================================================
