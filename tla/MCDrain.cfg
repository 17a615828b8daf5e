SPECIFICATION FairSpec
CONSTANTS
    t1 = t1
    t2 = t2
    t3 = t3
    QueueIds = {1, 2, 3, 4, 5}
    MinVolume = 1
    MaxVolume = 1
    TrackIds = {t1, t2, t3}
    TrackLists <- MoreLists
    CacheSize = 2
    MaxUsize = 3
    AutoPlay = TRUE
    BotEnabled = TRUE
    DownloadsFail = FALSE
    ClientOps = {"transport"}
    MaxBacklog = 3
    MaxSources = 6
    Repeats = FALSE
PROPERTIES
    QueueDrains
CHECK_DEADLOCK FALSE
