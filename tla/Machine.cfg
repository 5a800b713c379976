CONSTANTS
    Base = 2
    NReg = 3
    Mapped <- MCMapped
    Images <- MCImages
    Fn <- MCFn
    Cond <- MCCond
    Decode <- RegularDecode
    Alu <- MCAlu
    Taken <- MCTaken
SPECIFICATION FairSpec
INVARIANTS TypeOK StallHasOwner FetchFaithful UnansweredLoadRepeatsFetch
PROPERTIES OnlyStoresWrite ImplementsIsa AccessesEnd
