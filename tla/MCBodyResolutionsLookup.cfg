SPECIFICATION ResolvingSpec
CONSTANTS
    Crates <- MCCrates
    OverflowChecks = TRUE
    NoItem = NoItem
INVARIANTS
    ItemsOfPathSuffice
CHECK_DEADLOCK FALSE
