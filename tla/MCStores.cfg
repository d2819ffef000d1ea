SPECIFICATION StoresSpec
CONSTANTS
    Snapshots = {s1, s2}
    Times = {0, 1}
    Digests = {a, b, c}
    Counts = {0, 1, 2}
    MaxCount = 3
    Plans = {p1, p2}
    Indexes = {0, 1, 2, 3}
    MaxBatch = 3
SYMMETRY StoresSymmetry
INVARIANTS
    CollectionInv
    RefCountsInv
    GapPreserving
    WalkIsContiguousEnd
