\* Administrators who call the removal that fits the id and add managed
\* devices under unused addresses: the indexes agree with the records.
\* Administrators come and go; once the last one is gone every call reverts and
\* the registry really stops.
SPECIFICATION OperatedSpec
CONSTANTS
    Addr = {a0, adm, c1, c2, c3}
    ZeroAddr = a0
    Deployer = adm
    ClientAddr = {c1, c2, c3}
    MaxDeviceId = 3
    MaxAdminList = 3
    Payload = {}
    EncKey = {}
    SignKey = {}
    HostAddr = {}
    AddrTypeArg = {}
    EmptyText = empty
SYMMETRY ClientSymmetry
CONSTRAINT NoReceiver
INVARIANTS
    ListsExact
    PoolExact
    OwnersMapped
    AdminIndexSound
PROPERTIES
    ImplementsRegistry
CHECK_DEADLOCK FALSE
