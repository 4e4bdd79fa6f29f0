\* Liveness: two callers, three requests, one worker, no symmetry.
SPECIFICATION FairSpec
CONSTANTS
    Callers = {c1, c2}
    Requests = {r1, r2, r3}
    Affinities <- MCAnyWorker
    Configs <- MCLiveConfigs
    MaxConcurrency = 1
    None = None
PROPERTIES
    EveryRequestEnds
    EveryCallReturns
