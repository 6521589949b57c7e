SPECIFICATION Spec
CONSTANTS
    ana = ana
    beto = beto
    caro = caro
    Subjects = {ana, beto, caro}
    Configured <- Actors
    Tabs = {t1, t2}
    MaxEntries = 5
SYMMETRY TabSymmetry
INVARIANTS AnAdminRemains AuditReplays AuthorityInTrail ReplacesWhatWasRead
CHECK_DEADLOCK FALSE
