\* Restarts may overlap: config_set at load against the restart of Init.
SPECIFICATION Spec
CONSTANTS
    Restarters = {r1}
    MaxSignals = 0
    Assumed = {"lateTicks", "quietReload", "loneSignal"}
CHECK_DEADLOCK FALSE
INVARIANTS
    OneTicker
