SPECIFICATION FinishSpec
CONSTANTS
    Threads = {t1, t2}
    Policies = {p1}
    Limits = {1, 2}
    Day = 2
    Windows <- Mornings
    Length = 0
    MaxRuns = 2
    MaxTime = 1
    Materializers = {t1, t2}
    Images = {i1}
    MaxVersions = 3
INVARIANTS
    OrchestratorInv
    MaterializeInv
    WithinTheLimit
PROPERTIES
    StartedFinishes
    CheckpointCompletes
