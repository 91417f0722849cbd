CONSTANTS
    Threads = {t1}
    NoThread = NoThread
    FileThreads = {t1}
    LiveThreads = {}
    Transport = "WIRELESS_COMM"
    FullSize = 3
    SmallSize = 1
    MaxChunk = 2
SPECIFICATION Spec
INVARIANTS
    StoppedIsNotSuccess
