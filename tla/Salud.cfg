SPECIFICATION SaludSpec
CONSTANTS
    Readers = {r1}
    Writers = {w1}
    Policies <- SavedPolicies
    Default <- Seeded
    TKm = 20
    TDias = 20
    Kms = {0, 17}
    Days = {0, 25}
    MaxCommands = 2
    MaxStops = 1
PROPERTIES RecoveredIsResolved SnapshotCatchesUp WearNeverHelps
CHECK_DEADLOCK FALSE
