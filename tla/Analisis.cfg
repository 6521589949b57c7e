CONSTANTS
    Services = {1, 2}
    Lines = {1, 2}
    Ops = {1}
    Groups = {g1, g2}
    Keys = {k1, k2, k3}
    Requests = {p1, p2}
    Quantity <- Two
    Bodies <- FiveForms
    MaxBegun = 4
    NULL = NULL
SPECIFICATION Spec
CHECK_DEADLOCK FALSE
SYMMETRY Symmetry
INVARIANTS
    ClaimsDisjoint
    CorrectsWhatWasShown
    DocumentsReconcile
    OneReceiptPerVersion
    NoLockCircle
