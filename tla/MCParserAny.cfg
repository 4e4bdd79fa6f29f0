SPECIFICATION Spec
CONSTANT Inputs <- AnyInput
CHECK_DEADLOCK FALSE
INVARIANTS
    SlicesInBounds
    AlignedChunksAreSafe
    PlainChunksDoNotMatter
