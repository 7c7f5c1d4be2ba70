\* Two events, or two receiver ids; two logs, two faults.
SPECIFICATION ListenersSpec
CONSTANTS
    Topic = {1, 2}
    Events = 2
    MaxLogs = 2
    MaxFaults = 2
    MaxMoves = 1
INVARIANTS
    ListenersTypeOK
    LogsAccounted
    DeathExplained
    UpdatesAccounted
    EmptyOnlyAfterClear
PROPERTIES
    ImplementsFeed
    LogHandled
    UpdateReported
\* A process whose listener died does nothing more, and a quiet node sends nothing.
CHECK_DEADLOCK FALSE
