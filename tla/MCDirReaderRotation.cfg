SPECIFICATION Spec
CONSTANTS
    None = None
    absent = absent
    nil = nil
    overflow = overflow
    nameless = nameless
    Names = {b, c}
    Existing = {b}
    Rotated = {b, c}
    Moves = {"rename"}
    MaxInodes = 2
    MaxMoves = 1
    MaxSize = 1
    BufSize = 1
    MaxQueue = 4
    Assumed = {"settled", "paced"}
INVARIANT IngestsAllNewData
CHECK_DEADLOCK FALSE
