CONSTANTS
    File = {f1, f2}
    NoFile = NoFile
    BaseMem = 8
    UlongMax = 20
    Words = {0, 9, 30}
    MaxOptions = 3
SPECIFICATION Spec
CHECK_DEADLOCK FALSE
INVARIANTS UsageAccepted
