\* Three config_set calls and two reloads, under all the conditions.
SPECIFICATION FairSpec
CONSTANTS
    Restarters = {r1, r2, r3}
    MaxSignals = 2
    Assumed = {"noOverlap", "lateTicks", "quietReload", "loneSignal"}
INVARIANTS
    OneTicker
    NoPanic
    OneGoroutineInLua
PROPERTIES
    EveryRestartEnds
    KeepsTicking
