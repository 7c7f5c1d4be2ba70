\* Two calls and a transaction of another process from the same account.
SPECIFICATION FairCallSpec
CONSTANTS
    Thread = {t1, t2}
    LogId = {t1, t2, f}
    NoId = none
    Listener = listener
    Nobody = nobody
    MaxInbox = 3
    Slot = {s, r}
    OnceSlot = {s}
    MaxRetries = 1
INVARIANTS
    CallTypeOK
    TrueMeansExecuted
    EntriesAccounted
    QuietExplained
PROPERTIES
    HangExplained
\* A process that crashed does nothing more, and neither does one whose calls
\* have returned or hang.
CHECK_DEADLOCK FALSE
