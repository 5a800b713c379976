CONSTANTS
    AddrSpace = 6
    Lens = {1, 3}
    Data = {0, 1}
    MaxDevs = 2
SPECIFICATION Spec
INVARIANTS TypeOK OffsetInRange OverlapOnlyByEnclosure
PROPERTIES RoutingStable ImplementsFlatMemory
