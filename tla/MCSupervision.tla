---------------------------- MODULE MCSupervision ----------------------------
EXTENDS Supervision

CONSTANTS m1, m2, m3

\* Each mutation alone and both side by side, as the dynamic scheduler evaluates them.
SideBySide == [mutants |-> {{m1}, {m2}}, width |-> 2, crashing |-> {m1, m2}, unsafe |-> {}]
\* Two mutations in one batch of which one crashes.
Batched == [mutants |-> {{m1, m2}}, width |-> 1, crashing |-> {m1}, unsafe |-> {}]
\* A mutation that --isolate isolates from the start.
Isolated == [mutants |-> {{m1}, {m3}}, width |-> 1, crashing |-> {m1}, unsafe |-> {m3}]

MCSetups == {SideBySide, Batched, Isolated}
=============================================================================
