SPECIFICATION MirrorSpec
CONSTANTS
    Threads = {t1, t2}
    Sites = {east}
    Snapshots = {s1}
    Generations = {1, 2}
    OneWorkerPerSite = FALSE
PROPERTY RecordNeverRegresses
