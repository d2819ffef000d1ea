SPECIFICATION ReplicationSpec
CONSTANTS
    small = small
    large = large
    Threads = {t1, t2}
    Snapshots = {small, large}
    Size <- SizeOf
    Limit = 2
    Destinations = {1, 2}
    Capacities = {1, 2}
    Length = 0
    MaxEntries = 2
    MaxTime = 1
SYMMETRY ReplicationSymmetry
INVARIANTS
    ReplicationInv
    OutcomesAgree
    CompletedHoldsNothing
