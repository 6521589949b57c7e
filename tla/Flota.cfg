SPECIFICATION Spec
CONSTANTS
    Units = {u1, u2}
    Drivers = {d1, d2}
    Km = {1, 2}
    MaxNow = 2
    MaxMovements = 3
    MaxTransitions = 1
SYMMETRY UnitSymmetry
INVARIANTS Alternate BoardFollowsLog DriverOutOnce PhysicalFollowsBoard
CHECK_DEADLOCK FALSE
