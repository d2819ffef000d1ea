SPECIFICATION VerificationSpec
CONSTANTS
    Snapshots = {s1, s2}
    Plans = {}
    Threads = {t1, t2}
    MaxGens = 2
    MaxEntries = 5
    MaxTime = 1
SYMMETRY VerificationSymmetry
INVARIANTS
    VerificationInv
    RollbackGoesBack
PROPERTY ReplayIsOnce
