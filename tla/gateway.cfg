\* A node that runs lora_client, one that runs the sketch, two packets, one
\* change of the registry.
SPECIFICATION GatewaySpec
CONSTANTS
    Node = {c, s}
    Sketch = {s}
    NoNode = none
    Length = {12, 155, 300}
    MaxPackets = 2
    MaxEpoch = 1
    MaxMessages = 1
INVARIANTS
    GatewayTypeOK
    PacketsConserved
    AttributionExplained
PROPERTIES
    ImplementsUplink
    ReceivedSettled
    CloseExplained
\* A gateway whose process has crashed or is closed does nothing more.
CHECK_DEADLOCK FALSE
