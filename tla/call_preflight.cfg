\* Two calls that need the same slot, both past their eth_call.
SPECIFICATION CallSpec
CONSTANTS
    Thread = {t1, t2}
    LogId = {t1, t2}
    NoId = none
    Listener = listener
    Nobody = nobody
    MaxInbox = 3
    Slot = {s, r}
    OnceSlot = {s}
    MaxRetries = 0
SYMMETRY CallSymmetry
INVARIANTS
    PreflightSuffices
\* All calls may have returned, or hang.
CHECK_DEADLOCK FALSE
