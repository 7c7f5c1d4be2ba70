\* The contents of device records while ids are recycled.
SPECIFICATION Spec
CONSTANTS
    Addr = {a0, adm, c1}
    ZeroAddr = a0
    Deployer = adm
    ClientAddr = {c1}
    MaxDeviceId = 2
    MaxAdminList = 1
    Payload = {p}
    EncKey = {k}
    SignKey = {v}
    HostAddr = {h}
    AddrTypeArg = {1, 4}
    EmptyText = empty
CONSTRAINT OneReceiver
INVARIANTS
    TypeOK
    RecycledIdsStartEmpty
