\* Safety and refinement: two callers, three requests, up to two workers.
SPECIFICATION Spec
CONSTANTS
    Callers = {c1, c2}
    Requests = {r1, r2, r3}
    Affinities <- MCAffinities
    Configs <- MCConfigs
    MaxConcurrency = 2
    None = None
SYMMETRY Symmetric
INVARIANTS
    OneCustodian
    NothingLost
    NoPanic
PROPERTIES
    DrainedWhenStopped
    ImplementsFireAndForget
