SPECIFICATION Spec
CONSTANT Inputs <- WellFormed
CHECK_DEADLOCK FALSE
INVARIANTS
    ChunksDoNotMatter
    ParsedAsWritten
    StringReadBack
