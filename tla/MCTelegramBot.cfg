SPECIFICATION FairSpec
CONSTANTS
    ca = ca
    cb = cb
    q1 = q1
    p1 = p1
    s1 = s1
    s2 = s2
    t1 = t1
    t2 = t2
    t3 = t3
    b = b
    Nobody = Nobody
    Bot = b
    Receivers = {b}
    RingSize = 1
    MaxEvents = 3
    Chats = {ca, cb}
    Shards = {s1, s2}
    ShardOf <- MCShardOf
    Requests = {q1, p1}
    Queues = {q1}
    ChatOf <- MCChatOf
    Tracks = {t1, t2, t3}
    Duration <- MCDuration
    Music = {t1, t3}
    OnlyMusic = TRUE
    MaxDuration = 3
    TracksInMessage = 2
    Lists <- MCLists
    StoreCapacity = 1
    Threads = 3
    SendsFail = TRUE
INVARIANTS
    BotTypeOK
    AcceptsLongestPrefix
    AnnouncesAllTracks
    DialogueMatches
    OneReply
PROPERTIES
    NothingAfterStop
    NoChatLeftOut
    CommandsFinish
    RequestsTaken
CHECK_DEADLOCK FALSE
