\* deauthorize_admin and the last administrator.
SPECIFICATION Spec
CONSTANTS
    Addr = {a0, adm, c1, c2}
    ZeroAddr = a0
    Deployer = adm
    ClientAddr = {}
    MaxDeviceId = 0
    MaxAdminList = 2
    Payload = {}
    EncKey = {}
    SignKey = {}
    HostAddr = {}
    AddrTypeArg = {}
    EmptyText = empty
INVARIANTS
    AtLeastOneAdmin
\* Without an administrator every call reverts: the registry really stops.
CHECK_DEADLOCK FALSE
