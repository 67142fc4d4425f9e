SPECIFICATION BuildsSpec
CONSTANTS
    test_a = test_a  test_b = test_b
    Suites <- MCSuites
    Targets <- MCTargets
    WorkerOptions <- MCWorkerOptions
    Concurrency = 2
    Pids = {1, 2}
    MaxWorkers = 2
    Crates <- MCCrates
    OverflowChecks = TRUE
    NoItem = NoItem
    Rounds = 4
    Programs <- MCPrograms
    Setups <- MCSetups
INVARIANTS
    RunCodeIsTrue
    ProgressTrue
    ReportTrue
    EveryNodeMatched
    FoundIsAsked
    PrintedMeansTheSame
    PanicsOnlyAtHiddenNames
    LinksOwnMutant
PROPERTIES
    BuildsStop
    BuildsEnd
CHECK_DEADLOCK FALSE
