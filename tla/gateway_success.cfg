\* A node that runs lora_client, one that runs the sketch, one packet, one
\* change of the registry.
SPECIFICATION GatewaySpec
CONSTANTS
    Node = {c, s}
    Sketch = {s}
    NoNode = none
    Length = {12, 155, 300}
    MaxPackets = 1
    MaxEpoch = 1
    MaxMessages = 1
INVARIANT SuccessMeansPushed
\* A gateway whose process has crashed or is closed does nothing more.
CHECK_DEADLOCK FALSE
