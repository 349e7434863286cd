CONSTANTS
    Block <- MCBlock
    Codecs <- MCCodecs
    DocumentTexts <- MCTexts
    Frag = {"a"}
    MaxBlocks = 2
    MaxIndex = 1
    MaxWire = 3
SPECIFICATION Spec
INVARIANTS
    OrdinaryContractKept
    CallerSawTheResponse
    FinishedAsTold
PROPERTIES
    BlocksKeepTheirWord
