SPECIFICATION Spec
CONSTANTS
    Cpus = 2
    MaxCount = 3
    Earlier <- MCEarlier
    MaxRuns = 2
INVARIANTS TypeOK SnapshotCovers ExportCovers NothingLost
PROPERTIES ReportsGrow SnapshotBetween
CHECK_DEADLOCK FALSE
