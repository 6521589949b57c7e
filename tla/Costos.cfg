SPECIFICATION Spec
CONSTANTS
    NULL = NULL
    a = a
    v1 = v1
    k1 = k1
    k2 = k2
    k3 = k3
    Items = {a}
    Visits = {v1}
    Lines <- UsedLines
    Keys = {k1, k2, k3}
    Nets = {5}
    Quantities = {1, 3}
    MaxQty = 3
    MaxOperations = 4
    MaxRevisions = 1
    MaxAtEdit = 1
SYMMETRY KeySymmetry
INVARIANTS ValueConserved ReturnsBounded
CHECK_DEADLOCK FALSE
