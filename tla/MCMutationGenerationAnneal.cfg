SPECIFICATION Spec
CONSTANTS
    test1 = test1  test2 = test2  test3 = test3
    NoLimit = NoLimit  NoTest = NoTest
    Tests <- MCTests
    Fns <- MCFns
    Programs <- MCPrograms
    Limits <- MCLimits
    Places <- MCPlaces
    Modes = {"Safe", "Cautious", "Unsafe"}
    Filters <- MCFilters
    BatchOptions <- MCBatchOptions
    MaxIterations = 2
    OutputOf <- MCOutputOf
    DefaultHeads <- MCDefaultHeads
    CopyTypes <- MCCopyTypes
INVARIANTS
    AlwaysABatch
CHECK_DEADLOCK FALSE
