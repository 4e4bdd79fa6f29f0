\* on_log posts and configures; four requests: one whose error waits for
\* luaLock, one being reported, one queued and one that waits for room.
SPECIFICATION FairSandboxSpec
CONSTANTS
    Callers = {"log", "tick", "error", "main"}
    Requests = {r1, r2, r3, r4}
    Affinities <- MCAffinities
    Configs <- MCConfigs
    MaxConcurrency = 1
    None = None
    Posting = {"log"}
    Configuring = {"log"}
    Assumed = {"calmConfig", "validConfig", "lateTicks", "handled", "quietExit"}
INVARIANTS
    FramesNest
    SandboxNoPanic
    FlushedAtExit
PROPERTIES
    KeepsClientContract
    EveryHookReturns
    ExitCompletes
