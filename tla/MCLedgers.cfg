SPECIFICATION LedgersSpec
CONSTANTS
    Threads = {t1, t2}
    Sites = {east, west}
    Snapshots = {s1}
    Generations = {0, 1, 2}
    OneWorkerPerSite = TRUE
    Reporters = {r1, r2}
    Subscribers = {a, b}
    Offsets = {0, 1, 2}
    ReportGenerations = {0, 1, 2}
    NoReporter = NoReporter
    SerialCallers = TRUE
    Migrators = {t1, t2}
    Manifests = {s1}
    Versions = {0, 1, 2}
    MaxMigrations = 2
    Keepers = {t1, t2}
    Suspects = {d1, d2}
    MaxAdmissions = 3
    Texts <- MCTexts
    MaxEvents = 3
    Names = {commit, prune}
    Limit = 2
    WindowLength = 1
    ObserveTimes = {0, 2}
    MaxObserved = 3
    Workers = {w1, w2}
    TaskSnapshots = {s1}
    Delays = {0, 1}
    MaxGen = 2
    MaxTasks = 2
    MaxFailures = 2
    MaxTime = 1
    SnapIds = {1, 2, 3}
    SnapTimes = {0, 1}
    Replicas = {r1, r2}
    KeepCounts = {0, 1}
    CopyMinimums = {0, 2}
    MaxCaptures = 3
    Contents = {x, y}
    AckNames = {n1, n2, n3}
    NoName = NoName
    ReplicaCounts = {2, 3}
    MaxFrames = 4
    MaxAcks = 3
    MaxPromotions = 2
INVARIANTS
    MirrorInv
    WatermarkInv
    MigrationInv
    QuarantineInv
    TamperEvident
    TelemetryInv
    AnswersAddUp
    RetryInv
    UnsharedIsExact
    AcceptedIsKept
    ReplicaInv
    ManifestIsExact
    QuorumsIntersect
PROPERTIES
    RecordNeverRegresses
    WatermarkNeverRegresses
