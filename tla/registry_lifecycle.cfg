\* Registration and removal in any order, by administrators who follow no rules.
SPECIFICATION Spec
CONSTANTS
    Addr = {a0, adm, c1, c2}
    ZeroAddr = a0
    Deployer = adm
    ClientAddr = {c1, c2}
    MaxDeviceId = 3
    MaxAdminList = 1
    Payload = {}
    EncKey = {}
    SignKey = {}
    HostAddr = {}
    AddrTypeArg = {}
    EmptyText = empty
SYMMETRY ClientSymmetry
CONSTRAINT NoReceiver
INVARIANTS
    IdConservation
    CountsBalance
PROPERTIES
    IdentityStable
    ReferencesLive
