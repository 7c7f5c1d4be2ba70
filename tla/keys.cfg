\* A sensor and a device without one, three key pairs, two troubles: two are
\* needed for a crash after a failed call.
SPECIFICATION KeysSpec
CONSTANTS
    Device = {a, b}
    Sensor = {a}
    NoDevice = zero
    MaxKeys = 3
    MaxTroubles = 2
INVARIANTS
    KeysTypeOK
    StaleExplained
    AgreedAfterUpdate
PROPERTIES
    FreshDataReadable
\* Processes whose bounds are used up do nothing more.
CHECK_DEADLOCK FALSE
