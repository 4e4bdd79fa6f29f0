SPECIFICATION Spec
CONSTANTS
    Modes = {"script", "bench", "full"}
    MaxLogs = 3
    MaxBatch = 2
    Iterations = 2
    MaxSignals = 2
    MaxTicks = 2
    MaxSlots = 5
    None = None
INVARIANTS HandledInOrder ZeroMeansDone  StackLasts
PROPERTY Exits
CHECK_DEADLOCK FALSE
