SPECIFICATION FairCaptureSpec
CONSTANTS
    Resources = {s1, s2}
    Owners = {o1}
    TTLs = {1}
    NoOwner = NoOwner
    MaxTime = 1
    Threads = {t1, t2}
    Digests = {d1}
    Indexes = {0, 1}
    NoDigest = NoDigest
    MaxChunks = 2
    SharedHandles = FALSE
    MaxOps = 2
INVARIANT OverLeavesNothing
PROPERTY CommitResolves
