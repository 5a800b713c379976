CONSTANTS
    File = {f1, f2}
    NoFile = NoFile
    BaseMem = 8
    UlongMax = 20
    Words = {0, 9, 30}
    MaxOptions = 3
    Sizes = {0, 1, 7, 8, 9}
SPECIFICATION LifeSpec
CHECK_DEADLOCK FALSE
INVARIANTS LifeTypeOK ParsedMeansValid RefusedForAReason OneOwner NothingLeaks FaultsOnlyWithoutMemory LoopHasMachine RunsWholeProgram
