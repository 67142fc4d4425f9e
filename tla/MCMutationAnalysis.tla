-------------------------- MODULE MCMutationAnalysis --------------------------
(* m1 and m2 conflict and m3 runs alongside either; m4 is unsafe, and m5 is   *)
(* reached past the limits of the call graph, by a test that may reach any.   *)
EXTENDS MutationAnalysis

CONSTANTS m1, m2, m3, m4, m5

MCOrder == <<m1, m2, m3, m4, m5>>
MCBatches == <<{m1, m3}, {m2, m4}, {m5}>>
MCConflicts == {{m1, m2}} \cup {{m, m5} : m \in {m1, m2, m3, m4}}
\* Nothing is finished yet, or a part of a batch.
MCResumes == {{}, {m1}}
=============================================================================
