CONSTANTS
    Base = 2
    NReg = 3
    Mapped <- MCMapped
    Images <- MCImages
    Fn <- MCFn
    Cond <- MCCond
    Decode <- SignedDecode
    Alu <- MCAlu
    Taken <- MCTaken
SPECIFICATION Spec
INVARIANTS LoadsExtendTheirSign
