SPECIFICATION RunsSpec
CONSTANTS
    a = a  b = b  c = c  d = d  e = e  f = f  i = i
    m1 = m1  m2 = m2
    NoTest = NoTest
    NoResult = NoResult
    Tests = {a, b, c, d, e, f}
    Mutations = {m1, m2}
    MutationOf <- MCMutationOf
    Queue <- MCQueue
    ChildTests = {d, f}
    Hanging = {a, c, d}
    LatePanics = {b}
    Concurrency = 2
    PoolSizes = {0, 2, 3}
    Exits = {"Ok", "Failed", "Crashed"}
    NoOutcome = NoOutcome
    BatchTests = {a, b, d, e, i}
    BatchMutations = {m1, m2}
    BatchMutationOf <- MCBatchMutationOf
    BatchQueue <- MCBatchQueue
    Unrepeatable = {e}
    Ignored = {i}
    BatchHanging = {d}
    NoneTaken = NoneTaken
    NoAnswer = NoAnswer
INVARIANTS
    VerdictHasWitness
    NothingLost
    ResultIsItsTests
    RunsAlone
PROPERTIES
    DetectionStopsTests
    RunEnds
    KeepsContract
    CompletionSurvivesCancel
    RunReturns
    OwnerCleansUp
    KeepsOwnedContract
    ChildRunEnds
CHECK_DEADLOCK FALSE
