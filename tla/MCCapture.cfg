SPECIFICATION CaptureSpec
CONSTANTS
    Resources = {s1}
    Owners = {o1}
    TTLs = {1}
    NoOwner = NoOwner
    MaxTime = 1
    Threads = {t1, t2}
    Digests = {d1, d2}
    Indexes = {0, 1}
    NoDigest = NoDigest
    MaxChunks = 1
    SharedHandles = TRUE
    MaxOps = 2
SYMMETRY CaptureSymmetry
INVARIANTS
    CaptureInv
    PublishedIsJournaled
    AckedIsDurable
    SingleValidHandle
PROPERTY ImplementsPublication
