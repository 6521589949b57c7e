CONSTANTS
    Unidades = {u1}
    Visitas = {v1, v2}
    Peticiones = {p1, p2}
    Claves = {k1}
    Items = {item1}
    item1 = item1
    Consumos <- UnConsumo
    Capturadas <- SinPiezas
    Kms = {1, 2}
    StockInicial = 3
    Modos <- Solapadas
    Preparadas = {v1, v2}
    EnSlot = {v1}
    Cambiantes = {u1}
    Anterior = p0
    NULL = NULL
SPECIFICATION Spec
CHECK_DEADLOCK FALSE
SYMMETRY Symmetry
INVARIANTS
    NoExtraEvent
