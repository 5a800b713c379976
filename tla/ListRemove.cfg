CONSTANTS
    Node = {n1, n2, n3}
    Datum = {d1, d2}
    NULL = NULL
    MaxAt = 3
SYMMETRY Symmetry
SPECIFICATION RemoveSpec
PROPERTIES RemoveTakesOneNode
