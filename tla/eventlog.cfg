\* Three threads and two logs, any thread asking for any log.
SPECIFICATION FairSpec
CONSTANTS
    Thread = {t1, t2, t3}
    LogId = {h1, h2}
    NoId = none
    Listener = listener
    Nobody = nobody
    MaxInbox = 2
INVARIANTS
    TypeOK
    WaiterFlagExact
    TakeFindsLog
PROPERTIES
    StrandedOnlyInWindow
    ImplementsMailbox
    MutexReleased
\* A process that crashed does nothing more.
CHECK_DEADLOCK FALSE
