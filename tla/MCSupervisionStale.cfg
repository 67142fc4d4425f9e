SPECIFICATION Spec
CONSTANTS
    m1 = m1  m2 = m2  m3 = m3
    Setups <- MCSetups
INVARIANTS
    StopCancelsCompletion
CHECK_DEADLOCK FALSE
