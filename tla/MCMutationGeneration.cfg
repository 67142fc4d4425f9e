SPECIFICATION FairSpec
CONSTANTS
    test1 = test1  test2 = test2  test3 = test3
    NoLimit = NoLimit  NoTest = NoTest
    Tests <- MCTests
    Fns <- MCFns
    Programs <- MCPrograms
    Limits <- MCLimits
    Places <- MCPlaces
    Modes = {"Safe", "Cautious", "Risky", "Unsafe"}
    Filters <- MCFilters
    BatchOptions <- MCBatchOptions
    MaxIterations = 2
    OutputOf <- MCOutputOf
    DefaultHeads <- MCDefaultHeads
    CopyTypes <- MCCopyTypes
INVARIANTS
    TargetsExact
    MeetsOnlyItsMutation
    MutantsCompile
    FollowsTable
PROPERTIES
    GenerationEnds
CHECK_DEADLOCK FALSE
