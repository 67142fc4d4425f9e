SPECIFICATION FairSpec
CONSTANTS
    a = a  b = b  c = c  d = d  e = e  f = f
    m1 = m1  m2 = m2
    NoTest = NoTest
    NoResult = NoResult
    Tests = {a, b, c, d, e, f}
    Mutations = {m1, m2}
    MutationOf <- MCMutationOf
    Queue <- MCQueue
    ChildTests = {d, f}
    Hanging = {a, d}
    LatePanics = {b}
    Concurrency = 1
    PoolSizes = {0}
INVARIANTS
    QueuedTestsRun
CHECK_DEADLOCK FALSE
