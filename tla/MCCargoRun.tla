----------------------------- MODULE MCCargoRun -----------------------------
EXTENDS CargoRun

CONSTANTS test_a, test_b

MCTargets == {1, 2}

\* Two mutations that share a test; one that two tests reach; one that one test reaches.
Sharing == [m \in {1, 2} |-> IF m = 1 THEN {test_a, test_b} ELSE {test_b}]
Single == [m \in {1} |-> {test_a, test_b}]
Small == [m \in {1} |-> {test_a}]
MCSuites == {Sharing, Single, Small}

Options(isolated, exhaustive, progress, pool, flakes, suites) ==
    [isolated |-> isolated, exhaustive |-> exhaustive, progress |-> progress, pool |-> pool, flakes |-> flakes,
     suites |-> suites]

MCWorkerOptions ==
    {Options(FALSE, FALSE, TRUE, FALSE, 0, <<Sharing, Small>>),
     Options(TRUE, TRUE, TRUE, FALSE, 0, <<Sharing, Small>>),
     Options(FALSE, FALSE, FALSE, TRUE, 0, <<Single, Small>>),
     Options(TRUE, FALSE, FALSE, FALSE, 2, <<Single, Small>>)}

\* Without --flakes, which evaluates each mutation several times.
MCUnrepeated == {o \in MCWorkerOptions : o.flakes = 0}
=============================================================================
