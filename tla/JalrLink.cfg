CONSTANTS
    Base = 2
    NReg = 3
    Mapped <- MCMapped
    Images <- MCImages
    Fn <- MCFn
    Cond <- MCCond
    Decode <- LinkDecode
    Alu <- MCAlu
    Taken <- MCTaken
SPECIFICATION Spec
PROPERTIES ImplementsIsa
