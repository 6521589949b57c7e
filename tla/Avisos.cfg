SPECIFICATION FairSpec
CONSTANTS
    Evaluations = {e1, e2}
    Supervisors = {s1}
    Thresholds = {1, 2}
    MaxDay = 1
    MaxAvisos = 2
    MaxCloses = 2
    MaxFailures = 1
INVARIANT ResolvedByAClose
PROPERTIES OverdueIsShown CurrentIsWithdrawn
CHECK_DEADLOCK FALSE
