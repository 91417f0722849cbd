CONSTANTS
    Threads = {t1, t2}
    NoThread = NoThread
    FileThreads = {t1, t2}
    LiveThreads = {}
    Transport = "XAPP_WIRELESS_COMM"
    FullSize = 3
    SmallSize = 1
    MaxChunk = 2
SPECIFICATION Spec
INVARIANTS
    TypeOK
    OneFileAtATime
    SuccessIsComplete
    CancelIsPrompt
PROPERTIES
    ImplementsTransfer
    DownloadsEnd
