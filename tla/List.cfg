CONSTANTS
    Node = {n1, n2, n3, n4, n5}
    Datum = {d1, d2}
    NULL = NULL
    MaxAt = 4
SYMMETRY Symmetry
SPECIFICATION Spec
INVARIANTS TypeOK ForwardSound
PROPERTIES StalePrevOnlyByPushOrReplace LeaksOnlyByReplace ReplacedIsFoundThere ImplementsNodeSeq
