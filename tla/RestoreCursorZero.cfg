SPECIFICATION CursorSpec
CONSTANTS
    Plans = {p1}
    Indexes = {0, 1, 2}
    MaxBatch = 2
INVARIANT NoChunkPassed
