CONSTANTS
    Block <- MCBlock
    Codecs <- MCResponses
    DocumentTexts <- MCTexts
    Frag = {"a"}
    MaxBlocks = 2
    MaxIndex = 0
    MaxWire = 4
SPECIFICATION Spec
INVARIANTS
    ContractKept
