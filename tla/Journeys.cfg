SPECIFICATION Spec
CONSTANTS
    Unidades = {u1, u2}
    Choferes = {c1}
    Viajes = {v1, v2, v3}
    Llaves = {k1, k2, k3}
    Requisitos = {"CHECK_REQUIRED", "REACTIVATED_ORDER"}
    Peticiones = {p1, p2}
    MaxComandos = 3
    MaxRev = 4
    NULL = NULL
SYMMETRY Symmetry
CONSTRAINT Size
INVARIANTS Consistent Ledger ReturnsItsDeparture AckedTookEffect DriverOnce
PROPERTIES LeavesUnblocked KeepsDiary
CHECK_DEADLOCK FALSE
