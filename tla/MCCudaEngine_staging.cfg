CONSTANTS
    c1 = c1
    c2 = c2
    None = None
    Seqs = {c1}
    NumBlocks = 4
    BlockSize = 2
    PromptLen <- FullPrompt
    MaxNew <- NoAnswer
    InjectLen = 1
    MaxBlocksPerSeq = 2
    MaxActive = 1
    MaxInject = 0
SPECIFICATION Spec
INVARIANT TableFitsStaging
