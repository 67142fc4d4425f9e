------------------------------ MODULE MCTestRun ------------------------------
(* A batch of two mutations: tests of m1 hang, two in this process and one in  *)
(* a child, while those of m2 may pass, so that its verdict needs each.        *)
EXTENDS TestRun

CONSTANTS a, b, c, d, e, f, m1, m2

\* The order of maximize_mutation_parallelism: the tests of the mutations by turns.
MCQueue == <<a, f, c, e, b, d>>
MCMutationOf == (a :> m1) @@ (b :> m1) @@ (c :> m1) @@ (d :> m1) @@ (f :> m2) @@ (e :> m2)
=============================================================================
