\* Two pools, two starts, two requests that report.
CONSTANTS
    u1 = u1
    u2 = u2
    u3 = u3
    Update = {u1, u2}
    MaxPools = 2
    MaxBoots = 2
SPECIFICATION FairSpec
INVARIANTS
    TypeOK
    SavedStaysSaved
    StopSaves
CHECK_DEADLOCK FALSE
PROPERTY ReportsReachDisk
