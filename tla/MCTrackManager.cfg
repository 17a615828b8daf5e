SPECIFICATION MCSpec
CONSTANTS
    TrackIds = {t1, t2, t3}
    CacheSize = 2
    MaxUsize = 3
    MaxRequests = 1
    MaxReports = 1
    MaxClaims = 2
    MaxTasks = 3
INVARIANTS
    MTypeOK
    MissingHasDownload
PROPERTIES
    SlotsStayInUse
SYMMETRY Symmetry
CHECK_DEADLOCK FALSE
