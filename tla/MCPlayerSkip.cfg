SPECIFICATION MCSpec
CONSTANTS
    QueueIds = {1}
    MinVolume = 1
    MaxVolume = 2
    MaxEvents = 2
    MaxSources = 3
PROPERTIES
    SkipDropsTrack
