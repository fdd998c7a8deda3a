SPECIFICATION Spec
CONSTANTS
    Schemas <- MCSchemas
    ChainBound = 3
INVARIANTS
    WellScoped
    ReachesAllDependents
    DependentsFirst
    MatchesGenerated
CHECK_DEADLOCK FALSE
