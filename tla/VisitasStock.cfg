CONSTANTS
    Unidades = {u1}
    Visitas = {v1, v2, v3, v4}
    Peticiones = {p1, p2, p3}
    Claves = {k1}
    Items = {item1}
    item1 = item1
    Consumos <- UnConsumo
    Capturadas <- UnaODos
    Kms = {1, 2}
    StockInicial = 2
    Modos <- Ambos
    Preparadas = {v1, v2}
    EnSlot = {v1}
    Cambiantes = {}
    Anterior = p0
    NULL = NULL
SPECIFICATION Spec
CHECK_DEADLOCK FALSE
SYMMETRY Symmetry
INVARIANTS
    ConsumedOnce
    KmMonotone
    ConsumedAsShown
