SPECIFICATION RestoreSpec
CONSTANTS
    Resources = {s1, s2}
    Snapshots = {s1, s2}
    Owners = {o1, o2}
    SharedOwners = {o1}
    TTLs = {1}
    NoOwner = NoOwner
    MaxTime = 1
    Plans = {1, 2}
    Threads = {t1, t2}
    MaxEpochs = 3
    MaxEntries = 2
SYMMETRY RestoreSymmetry
INVARIANTS
    RestoreInv
    CompleteHoldsNoReference
    UnfinishedIsNotExpired
