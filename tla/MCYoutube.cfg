SPECIFICATION FairSpec
CONSTANTS
    d1 = d1
    d2 = d2
    r1 = r1
    r2 = r2
    w1 = w1
    w2 = w2
    Nothing = Nothing
    Stop = Stop
    Downloads = {d1, d2}
    Resolves = {r1, r2}
    ForeignUrls = {r2}
    Workers = {w1, w2}
    MaxDeaths = 1
    PipesFail = TRUE
INVARIANTS
    YTypeOK
    OneWorkerBusy
    OnlyDownloadsTimeOut
    NoneForEveryWorker
PROPERTIES
    ServesInOrder
    EveryRequestAnswered
CHECK_DEADLOCK FALSE
