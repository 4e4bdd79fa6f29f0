\* on_log produces; channels of one place, and messages enough to fill them.
SPECIFICATION FairSpec
CONSTANTS
    Messages = {m1, m2, m3, m4}
    ProduceSize = 1
    EventsSize = 1
    QueueSize = 1
    Producing = {"log"}
    Assumed = {"settled", "quietExit"}
    None = None
INVARIANTS
    ReportedOnce
    NoRuntimePanic
    FlushedAtExit
PROPERTIES
    EveryMessageReported
    EveryHookReturns
    ExitCompletes
