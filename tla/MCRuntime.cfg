SPECIFICATION FairSpec
CONSTANTS
    c1 = c1
    c2 = c2
    b = b
    Conns = {c1}
    Bot = b
    Receivers = {c1, b}
    RingSize = 1
    WriterCapacity = 1
    MaxEvents = 2
    Commands = {"exit", "player", "info", "list", "queue"}
    BotEnabled = TRUE
    Failing = {"bot", "controller"}
INVARIANTS
    RTypeOK
    PromptKnown
    CleanExit
PROPERTIES
    ShowsFeed
    ShutdownCompletes
    LockComesFree
    ShowsAll
CHECK_DEADLOCK FALSE
