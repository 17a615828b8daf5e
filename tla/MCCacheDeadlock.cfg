SPECIFICATION FairSpec
CONSTANTS
    t1 = t1
    t2 = t2
    t3 = t3
    QueueIds = {1, 2, 3}
    MinVolume = 1
    MaxVolume = 1
    TrackIds = {t1, t2}
    TrackLists <- SomeLists
    CacheSize = 1
    MaxUsize = 3
    AutoPlay = TRUE
    BotEnabled = TRUE
    DownloadsFail = FALSE
    ClientOps = {}
    MaxBacklog = 3
    MaxSources = 6
    Repeats = TRUE
PROPERTIES
    QueueDrains
CHECK_DEADLOCK FALSE
