SPECIFICATION MCSpec
CONSTANTS
    QueueIds = {1, 2}
    MinVolume = 1
    MaxVolume = 3
    MaxEvents = 2
    MaxSources = 6
INVARIANTS
    PTypeOK
    GainFollowsMute
    SinkShape
    StatusLengthExact
