CONSTANTS
    Base = 2
    NReg = 3
    Mapped <- MCMapped
    Images <- MCImages
    Fn <- MCFn
    Cond <- MCCond
    Decode <- BaseDecode
    Alu <- MCAlu
    Taken <- MCTaken
SPECIFICATION Spec
PROPERTIES LoadsReadOneRange
