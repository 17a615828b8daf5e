SPECIFICATION FairSpec
CONSTANTS
    t1 = t1
    t2 = t2
    t3 = t3
    QueueIds = {1, 2}
    MinVolume = 1
    MaxVolume = 1
    TrackIds = {t1, t2}
    TrackLists <- SomeLists
    CacheSize = 2
    MaxUsize = 3
    AutoPlay = TRUE
    BotEnabled = TRUE
    DownloadsFail = TRUE
    ClientOps = {}
    MaxBacklog = 2
    MaxSources = 3
    Repeats = FALSE
PROPERTIES
    QueueDrains
CHECK_DEADLOCK FALSE
