SPECIFICATION Spec
CONSTANTS
    None = None
    absent = absent
    nil = nil
    overflow = overflow
    nameless = nameless
    Names = {b, c, d}
    Existing = {c}
    Rotated = {c, d}
    Moves = {"rename", "unlink", "truncate"}
    MaxInodes = 3
    MaxMoves = 1
    MaxSize = 2
    BufSize = 2
    MaxQueue = 3
    Assumed = {"settled", "paced"}
INVARIANTS CaughtUp FailsOnlyAfterMove
PROPERTY EventuallyIngested
CHECK_DEADLOCK FALSE
