CONSTANTS
    c1 = c1
    c2 = c2
    None = None
    Seqs = {c1, c2}
    NumBlocks = 3
    BlockSize = 2
    PromptLen <- TwoPrompts
    MaxNew <- TwoAnswers
    InjectLen = 1
    MaxBlocksPerSeq = 3
    MaxActive = 2
    MaxInject = 0
SPECIFICATION Spec
INVARIANT SamplesOwnOutput
