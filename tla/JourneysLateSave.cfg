SPECIFICATION Spec
CONSTANTS
    Unidades = {u1}
    Choferes = {c1}
    Viajes = {v1, v2}
    Llaves = {k1, k2}
    Requisitos = {"CHECK_REQUIRED", "REACTIVATED_ORDER"}
    Peticiones = {p1, p2}
    MaxComandos = 2
    MaxRev = 2
    NULL = NULL
SYMMETRY Symmetry
PROPERTIES DepartedEligible
CHECK_DEADLOCK FALSE
