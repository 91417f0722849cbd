\* WIRELESS_COMM: two files of the card and an image of the live feed.
CONSTANTS
    Threads = {t1, t2, t3}
    NoThread = NoThread
    FileThreads = {t1, t2}
    LiveThreads = {t3}
    Transport = "WIRELESS_COMM"
    FullSize = 3
    SmallSize = 1
    MaxChunk = 2
SPECIFICATION Spec
INVARIANTS
    SizesRestored
    GrantedSizesHold
