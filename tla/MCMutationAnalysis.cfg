SPECIFICATION FairSpec
CONSTANTS
    m1 = m1  m2 = m2  m3 = m3  m4 = m4  m5 = m5
    Mutations = {m1, m2, m3, m4, m5}
    Order <- MCOrder
    Batches <- MCBatches
    Conflicts <- MCConflicts
    Resumes <- MCResumes
    Unsafe = {m4}
    Truncated = {m5}
    Hanging = {m3}
    PoolSize = 3
    RerunWidth = 1
INVARIANTS
    NoConflictingTests
    LiveTestsAreActive
    ConfirmedAlone
PROPERTIES
    AnalysisEnds
CHECK_DEADLOCK FALSE
