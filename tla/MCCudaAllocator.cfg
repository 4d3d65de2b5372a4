CONSTANTS
    Seqs = {s1, s2, s3}
    NumBlocks = 3
    BlockSize = 2
    MaxTokens = 4
    MaxRefs = 3
SPECIFICATION MCAllocSpec
SYMMETRY SeqSymmetry
INVARIANTS AllocTypeOK UsedBlocksCounted FreeListExact TablesInjective
CHECK_DEADLOCK FALSE
