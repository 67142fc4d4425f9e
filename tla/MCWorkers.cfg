SPECIFICATION WorkersSpec
CONSTANTS
    m1 = m1  m2 = m2  m3 = m3
    Setups <- MCSetups
    t1 = t1  t2 = t2  t3 = t3
    s1 = s1  s2 = s2
    NoMutant = NoMutant
    Tests = {t1, t2, t3}
    Mutants = {m1, m2, m3}
    Slots = {s1, s2}
    GuardSlots = {s1}
    MutantOf <- MCMutantOf
    SlotOf <- MCSlotOf
    Reaches <- MCReaches
INVARIANTS
    NoForeignCode
    LiveTestRunsItsMutant
    CountIsExact
    NoSecondPanic
    CompletedIsComplete
    WorkerReadsJournal
    CrashedRunsIsolated
    WitnessedCompletionStands
PROPERTIES
    SupervisorEnds
CHECK_DEADLOCK FALSE
