SPECIFICATION MCSpec
CONSTANTS
    t1 = t1
    t2 = t2
    t3 = t3
    QueueIds = {1, 2, 3, 4}
    MinVolume = 1
    MaxVolume = 1
    TrackIds = {t1, t2, t3}
    TrackLists <- MoreLists
    CacheSize = 2
    MaxUsize = 3
    AutoPlay = TRUE
    BotEnabled = FALSE
    DownloadsFail = TRUE
    ClientOps = {"transport"}
    MaxBacklog = 3
    MaxSources = 6
    Repeats = TRUE
INVARIANTS
    SentWillFinish
    PlayInQueueOrder
    CacheBound
CHECK_DEADLOCK FALSE
