SPECIFICATION FairSpec
CONSTANTS
    test_a = test_a  test_b = test_b
    Suites <- MCSuites
    Targets <- MCTargets
    WorkerOptions <- MCUnrepeated
    Concurrency = 2
    Pids = {1, 2}
    MaxWorkers = 2
INVARIANTS
    ZeroMeansCaught
CHECK_DEADLOCK FALSE
