\* Wi-Fi: a goodbye packet precedes the close.  Three threads.
CONSTANTS
    Threads = {t1, t2, t3}
    NoThread = NoThread
    Connection = "PTP_IP_USB"
SPECIFICATION Spec
INVARIANTS
    TypeOK
    TeardownOnce
    NoTransactionAfterGoodbye
    SessionClosedFirst
    LockDiscipline
PROPERTIES
    ImplementsLink
    ShutdownCompletes
