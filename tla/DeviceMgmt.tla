----------------------------- MODULE DeviceMgmt -----------------------------
(***************************************************************************)
(* The device registry contract, src/dev_mgmt_contract.sol.                *)
(*                                                                         *)
(* The contract hands out integer device ids, recycles the ids of removed  *)
(* devices through a stack, and keeps five indexes over the device         *)
(* records: addr_to_id, authorized_devices, authorized_gateways,           *)
(* gateway_pool and the default data receiver.  It also keeps the set of   *)
(* administrators twice, as a mapping and as a list.                       *)
(*                                                                         *)
(* One action is one transaction that succeeds.  A transaction whose       *)
(* require(), array access or enum conversion fails reverts as a whole:    *)
(* it changes nothing, so it is no step.  Array positions are stored as    *)
(* the contract stores them, counted from 0; TLA+ sequences count from 1.  *)
(*                                                                         *)
(* Left out: names and timestamps, which nothing reads back into a         *)
(* decision, the event log, and the width of uint32 (ids stop at           *)
(* MaxDeviceId).  data, dataLen and nonce are always written together and  *)
(* are one field here.                                                     *)
(***************************************************************************)
EXTENDS Integers, SequencesExt

CONSTANTS
    Addr,         \* Ethereum addresses
    ZeroAddr,     \* address(0), the default value of an address slot
    Deployer,     \* the account that runs the constructor
    ClientAddr,   \* the addresses administrators register as clients
    MaxDeviceId,  \* bound: the greatest id next_device_id may hand out
    MaxAdminList, \* bound: the greatest length of active_admin_users
    Payload,      \* what devices push: data, dataLen and nonce
    EncKey,       \* encryption public keys
    SignKey,      \* signing public keys
    HostAddr,     \* network addresses a device reports (IP, LoRa)
    AddrTypeArg,  \* the uint32 given to update_addr as an address type
    EmptyText     \* the empty string, the default value of a string slot

\* address(0) is an address no key is known for: it deploys no contract and
\* no client uses it.
ASSUME AddrAssumption ==
    /\ ZeroAddr \in Addr
    /\ Deployer \in Addr \ {ZeroAddr}
    /\ ClientAddr \subseteq Addr \ {ZeroAddr}

ASSUME BoundAssumption ==
    /\ MaxDeviceId \in Nat
    /\ MaxAdminList \in Nat \ {0}
    /\ AddrTypeArg \subseteq Nat

VARIABLES
    defaultDataReceiver,
    next_device_id,
    free_device_id_stack,
    addr_to_id,
    id_to_device,
    gateway_pool,        \* the addresses mapped to true
    admin_mapping,
    active_admin_users,
    authorized_devices,
    authorized_gateways

idVars    == <<next_device_id, free_device_id_stack>>
listVars  == <<authorized_devices, authorized_gateways>>
adminVars == <<admin_mapping, active_admin_users>>
registryVars == <<defaultDataReceiver, idVars, addr_to_id, gateway_pool, listVars>>
vars == <<registryVars, id_to_device, adminVars>>

-----------------------------------------------------------------------------

DeviceId == 0..MaxDeviceId

\* enum AddrType {UNSET, IPV4, IPV6, LORA}
AddrType == 0..3

Device == [eth_addr : Addr,
           has_eth_addr : BOOLEAN,
           active : BOOLEAN,
           is_gateway : BOOLEAN,
           data : Payload \union {EmptyText},
           addrType : AddrType,
           addr : HostAddr \union {EmptyText},
           publicKey : EncKey \union {EmptyText},
           signPublicKey : SignKey \union {EmptyText},
           dataReceiverID : DeviceId,
           gateway_managed : BOOLEAN,
           authorizedDevicesIndex : Nat]

\* The value of a storage slot that was never written, or was deleted.
NoDevice == [eth_addr |-> ZeroAddr,
             has_eth_addr |-> FALSE,
             active |-> FALSE,
             is_gateway |-> FALSE,
             data |-> EmptyText,
             addrType |-> 0,
             addr |-> EmptyText,
             publicKey |-> EmptyText,
             signPublicKey |-> EmptyText,
             dataReceiverID |-> 0,
             gateway_managed |-> FALSE,
             authorizedDevicesIndex |-> 0]

AdminUser == [isAdmin : BOOLEAN, authorizedAdminUsersIndex : Nat]

\* Every account that can sign a transaction.
Sender == Addr \ {ZeroAddr}

Active == {id \in DeviceId : id_to_device[id].active}

IsAdmin(a) == admin_mapping[a].isAdmin

\* What modifier _authorizedDeviceOnly requires; get_my_device_id requires it too.
IsDeviceAddr(sender) == id_to_device[addr_to_id[sender]].active

\* modifier _authorized
Authorized(sender) == IsDeviceAddr(sender) \/ IsAdmin(sender)

\* modifier _authorizedDeviceOrGateway
AuthorizedDeviceOrGateway(sender) ==
    IsDeviceAddr(sender) \/ sender \in gateway_pool \/ IsAdmin(sender)

\* modifier _mutator
MayMutate(sender, id) ==
    /\ id_to_device[id].active
    /\ \/ id_to_device[id].eth_addr = sender
       \/ IsAdmin(sender)
       \/ sender \in gateway_pool /\ id_to_device[id].gateway_managed

\* Definitions named ...Mutant are faulty variants of the definition that
\* follows them.  The specification never uses them; they show which fault each
\* property notices.

\* Fault: forgets pop().
SwapPopMutant(list, index) == [list EXCEPT ![index + 1] = Last(list)]

\* Overwrite position index (from 0) with the last item, then pop().
SwapPop(list, index) == Front([list EXCEPT ![index + 1] = Last(list)])

Init ==
    /\ defaultDataReceiver = 0
    /\ next_device_id = 1
    /\ free_device_id_stack = <<>>
    /\ addr_to_id = [a \in Addr |-> 0]
    /\ id_to_device = [id \in DeviceId |-> NoDevice]
    /\ gateway_pool = {}
    /\ admin_mapping = [a \in Addr |-> [isAdmin |-> (a = Deployer),
                                        authorizedAdminUsersIndex |-> 0]]
    /\ active_admin_users = <<Deployer>>
    /\ authorized_devices = <<>>
    /\ authorized_gateways = <<>>

-----------------------------------------------------------------------------
(* Registration                                                            *)

\* Fault: forgets to look the address up.
AddressFreeMutant(clientAddr) == clientAddr \in ClientAddr

\* The address test of add_device.  A gateway managed device skips it.
AddressFree(clientAddr) ==
    \/ addr_to_id[clientAddr] = 0
    \/ ~ id_to_device[addr_to_id[clientAddr]].active

\* Fault: reads the bottom of the stack and pops its top.
NewDeviceIdMutant ==
    IF free_device_id_stack # <<>> THEN Head(free_device_id_stack) ELSE next_device_id

\* The id add_device takes: a recycled one if there is any.
NewDeviceId ==
    IF free_device_id_stack # <<>> THEN Last(free_device_id_stack) ELSE next_device_id

\* Fault: forgets pop().
TakeDeviceIdMutant ==
    IF free_device_id_stack # <<>>
    THEN UNCHANGED idVars
    ELSE /\ next_device_id <= MaxDeviceId
         /\ next_device_id' = next_device_id + 1
         /\ UNCHANGED free_device_id_stack

TakeDeviceId ==
    IF free_device_id_stack # <<>>
    THEN /\ free_device_id_stack' = Front(free_device_id_stack)
         /\ UNCHANGED next_device_id
    ELSE /\ next_device_id <= MaxDeviceId
         /\ next_device_id' = next_device_id + 1
         /\ UNCHANGED free_device_id_stack

\* Fault: has_eth_addr set for managed devices too.
RegisteredMutant(old, clientAddr, managed, asGateway, index) ==
    [old EXCEPT !.active = TRUE,
                !.is_gateway = asGateway,
                !.dataReceiverID = defaultDataReceiver,
                !.gateway_managed = managed,
                !.authorizedDevicesIndex = index,
                !.eth_addr = IF managed THEN @ ELSE clientAddr,
                !.has_eth_addr = TRUE]

\* The record of a new device.  Fields not named here keep what the slot holds.
Registered(old, clientAddr, managed, asGateway, index) ==
    [old EXCEPT !.active = TRUE,
                !.is_gateway = asGateway,
                !.dataReceiverID = defaultDataReceiver,
                !.gateway_managed = managed,
                !.authorizedDevicesIndex = index,
                !.eth_addr = IF managed THEN @ ELSE clientAddr,
                !.has_eth_addr = ~managed]

AddDevice(sender, clientAddr, managed, gateway) ==
    LET id        == NewDeviceId
        asGateway == gateway /\ ~managed
        index     == Len(IF asGateway THEN authorized_gateways ELSE authorized_devices)
    IN  /\ IsAdmin(sender)
        /\ managed \/ AddressFree(clientAddr)
        /\ TakeDeviceId
        /\ id_to_device' = [id_to_device EXCEPT
                              ![id] = Registered(@, clientAddr, managed, asGateway, index)]
        /\ addr_to_id' = [addr_to_id EXCEPT ![clientAddr] = id]
        /\ IF asGateway
           THEN /\ authorized_gateways' = Append(authorized_gateways, id)
                /\ gateway_pool' = gateway_pool \union {clientAddr}
                /\ UNCHANGED authorized_devices
           ELSE /\ authorized_devices' = Append(authorized_devices, id)
                /\ UNCHANGED <<authorized_gateways, gateway_pool>>
        /\ UNCHANGED <<defaultDataReceiver, adminVars>>

\* What both removals do to the default receiver and to the id.
Release(id) ==
    /\ defaultDataReceiver' = IF defaultDataReceiver = id THEN 0 ELSE defaultDataReceiver
    /\ free_device_id_stack' = Append(free_device_id_stack, id)
    /\ UNCHANGED next_device_id

\* Fault: the record that moved keeps its old index.
UnlistedMutant(list, id) == [id_to_device EXCEPT ![id] = NoDevice]

\* Fault: the record is marked inactive instead of deleted.
UnlistedKeepsRecordMutant(list, id) ==
    [id_to_device EXCEPT
       ![Last(list)].authorizedDevicesIndex = id_to_device[id].authorizedDevicesIndex,
       ![id].active = FALSE]

\* The record of the last listed id takes over the freed index, then the
\* record of the removed id is deleted.
Unlisted(list, id) ==
    [id_to_device EXCEPT
       ![Last(list)].authorizedDevicesIndex = id_to_device[id].authorizedDevicesIndex,
       ![id] = NoDevice]

\* remove_device asks only that the id is active, not that it is no gateway.
RemoveDevice(sender, id) ==
    LET rec == id_to_device[id]
    IN  /\ IsAdmin(sender)
        /\ rec.active
        /\ rec.authorizedDevicesIndex < Len(authorized_devices)
        /\ authorized_devices' = SwapPop(authorized_devices, rec.authorizedDevicesIndex)
        /\ id_to_device' = Unlisted(authorized_devices, id)
        /\ Release(id)
        /\ addr_to_id' = IF rec.has_eth_addr
                         THEN [addr_to_id EXCEPT ![rec.eth_addr] = 0]
                         ELSE addr_to_id
        /\ UNCHANGED <<gateway_pool, authorized_gateways, adminVars>>

\* Fault: the address stays mapped.
RemoveGatewayMutant(sender, id) ==
    LET rec == id_to_device[id]
    IN  /\ IsAdmin(sender)
        /\ rec.eth_addr \in gateway_pool
        /\ rec.authorizedDevicesIndex < Len(authorized_gateways)
        /\ authorized_gateways' = SwapPop(authorized_gateways, rec.authorizedDevicesIndex)
        /\ id_to_device' = Unlisted(authorized_gateways, id)
        /\ Release(id)
        /\ gateway_pool' = gateway_pool \ {rec.eth_addr}
        /\ UNCHANGED <<addr_to_id, authorized_devices, adminVars>>

\* remove_gateway asks only that the record's address is in the pool.
RemoveGateway(sender, id) ==
    LET rec == id_to_device[id]
    IN  /\ IsAdmin(sender)
        /\ rec.eth_addr \in gateway_pool
        /\ rec.authorizedDevicesIndex < Len(authorized_gateways)
        /\ authorized_gateways' = SwapPop(authorized_gateways, rec.authorizedDevicesIndex)
        /\ id_to_device' = Unlisted(authorized_gateways, id)
        /\ Release(id)
        /\ gateway_pool' = gateway_pool \ {rec.eth_addr}
        /\ addr_to_id' = [addr_to_id EXCEPT ![rec.eth_addr] = 0]
        /\ UNCHANGED <<authorized_devices, adminVars>>

-----------------------------------------------------------------------------
(* Updates of one record                                                   *)

\* The device that is updated need not exist, only its new receiver.
UpdateDataReceiver(sender, id, receiver) ==
    /\ IsAdmin(sender)
    /\ id_to_device[receiver].active
    /\ id_to_device' = [id_to_device EXCEPT ![id].dataReceiverID = receiver]
    /\ UNCHANGED <<registryVars, adminVars>>

\* Fault: the argument is stored without the conversion to AddrType.
UpdateAddrMutant(sender, id, type, host) ==
    /\ AuthorizedDeviceOrGateway(sender)
    /\ MayMutate(sender, id)
    /\ id_to_device' = [id_to_device EXCEPT ![id].addrType = type, ![id].addr = host]
    /\ UNCHANGED <<registryVars, adminVars>>

UpdateAddr(sender, id, type, host) ==
    /\ AuthorizedDeviceOrGateway(sender)
    /\ MayMutate(sender, id)
    /\ type \in AddrType     \* AddrType(addrType) reverts otherwise
    /\ id_to_device' = [id_to_device EXCEPT ![id].addrType = type, ![id].addr = host]
    /\ UNCHANGED <<registryVars, adminVars>>

UpdatePublicKey(sender, id, key) ==
    /\ Authorized(sender)
    /\ MayMutate(sender, id)
    /\ id_to_device' = [id_to_device EXCEPT ![id].publicKey = key]
    /\ UNCHANGED <<registryVars, adminVars>>

UpdateSignKey(sender, id, key) ==
    /\ Authorized(sender)
    /\ MayMutate(sender, id)
    /\ id_to_device' = [id_to_device EXCEPT ![id].signPublicKey = key]
    /\ UNCHANGED <<registryVars, adminVars>>

PushData(sender, id, payload) ==
    /\ AuthorizedDeviceOrGateway(sender)
    /\ MayMutate(sender, id)
    /\ id_to_device' = [id_to_device EXCEPT ![id].data = payload]
    /\ UNCHANGED <<registryVars, adminVars>>

SetDefaultDataReceiver(sender, receiver) ==
    /\ IsAdmin(sender)
    /\ id_to_device[receiver].active
    /\ defaultDataReceiver' = receiver
    /\ UNCHANGED <<idVars, addr_to_id, gateway_pool, listVars, id_to_device, adminVars>>

-----------------------------------------------------------------------------
(* Administrators                                                          *)

AuthorizeAdmin(sender, newAdminAddr) ==
    /\ IsAdmin(sender)
    /\ ~ IsAdmin(newAdminAddr)
    /\ Len(active_admin_users) < MaxAdminList
    /\ active_admin_users' = Append(active_admin_users, newAdminAddr)
    /\ admin_mapping' = [admin_mapping EXCEPT
                           ![newAdminAddr] = [isAdmin |-> TRUE,
                                              authorizedAdminUsersIndex |-> Len(active_admin_users)]]
    /\ UNCHANGED <<registryVars, id_to_device>>

\* Fault: the administrator that moved keeps its old index.
DeauthorizeAdminMutant(sender, adminAddr) ==
    LET len   == Len(active_admin_users)
        index == admin_mapping[adminAddr].authorizedAdminUsersIndex
    IN  /\ IsAdmin(sender)
        /\ IsAdmin(adminAddr)
        /\ len > 1
        /\ active_admin_users' = [active_admin_users EXCEPT
               ![index + 1] = active_admin_users[len], ![len] = ZeroAddr]
        /\ admin_mapping' = [admin_mapping EXCEPT
               ![adminAddr] = [isAdmin |-> FALSE, authorizedAdminUsersIndex |-> 0]]
        /\ UNCHANGED <<registryVars, id_to_device>>

\* "delete list[i]" writes address(0) into the slot; the list keeps its length.
DeauthorizeAdmin(sender, adminAddr) ==
    LET len      == Len(active_admin_users)
        index    == admin_mapping[adminAddr].authorizedAdminUsersIndex
        lastUser == active_admin_users[len]
    IN  /\ IsAdmin(sender)
        /\ IsAdmin(adminAddr)
        /\ len > 1
        /\ IF index = len - 1
           THEN /\ active_admin_users' = [active_admin_users EXCEPT ![index + 1] = ZeroAddr]
                /\ admin_mapping' = [admin_mapping EXCEPT
                     ![adminAddr] = [isAdmin |-> FALSE, authorizedAdminUsersIndex |-> 0]]
           ELSE /\ active_admin_users' = [active_admin_users EXCEPT
                     ![index + 1] = lastUser, ![len] = ZeroAddr]
                /\ admin_mapping' = [admin_mapping EXCEPT
                     ![lastUser].authorizedAdminUsersIndex = index,
                     ![adminAddr] = [isAdmin |-> FALSE, authorizedAdminUsersIndex |-> 0]]
        /\ UNCHANGED <<registryVars, id_to_device>>

-----------------------------------------------------------------------------

AdminCall(sender) ==
    \/ \E a \in ClientAddr, managed, gateway \in BOOLEAN :
           AddDevice(sender, a, managed, gateway)
    \/ \E id \in DeviceId : RemoveDevice(sender, id) \/ RemoveGateway(sender, id)
    \/ \E id, receiver \in DeviceId : UpdateDataReceiver(sender, id, receiver)
    \/ \E receiver \in DeviceId : SetDefaultDataReceiver(sender, receiver)
    \/ \E a \in Addr : AuthorizeAdmin(sender, a) \/ DeauthorizeAdmin(sender, a)

RecordCall(sender, id) ==
    \/ \E type \in AddrTypeArg, host \in HostAddr : UpdateAddr(sender, id, type, host)
    \/ \E key \in EncKey : UpdatePublicKey(sender, id, key)
    \/ \E key \in SignKey : UpdateSignKey(sender, id, key)
    \/ \E payload \in Payload : PushData(sender, id, payload)

Next ==
    \E sender \in Sender :
        \/ AdminCall(sender)
        \/ \E id \in DeviceId : RecordCall(sender, id)

Spec == Init /\ [][Next]_vars

-----------------------------------------------------------------------------
(* Properties                                                              *)

\* Every storage slot holds a value of its declared type.
TypeOK ==
    /\ defaultDataReceiver \in DeviceId
    /\ next_device_id \in 1..(MaxDeviceId + 1)
    /\ free_device_id_stack \in Seq(DeviceId)
    /\ addr_to_id \in [Addr -> DeviceId]
    /\ id_to_device \in [DeviceId -> Device]
    /\ gateway_pool \subseteq Addr
    /\ admin_mapping \in [Addr -> AdminUser]
    /\ active_admin_users \in Seq(Addr)
    /\ authorized_devices \in Seq(DeviceId)
    /\ authorized_gateways \in Seq(DeviceId)

\* Ids are neither lost nor handed out twice, in whatever order devices and
\* gateways are added and removed: every id below next_device_id is either
\* in use or on the free stack, never both, and on the stack only once.
IdConservation ==
    /\ IsInjective(free_device_id_stack)
    /\ Active \intersect Range(free_device_id_stack) = {}
    /\ Active \union Range(free_device_id_stack) = 1..(next_device_id - 1)

\* The default data receiver given to new devices is unset or a device that
\* exists.
DefaultReceiverLive ==
    defaultDataReceiver = 0 \/ defaultDataReceiver \in Active

\* addr_to_id leads to an id that is not, or no longer, a's own.
Strays(a) == addr_to_id[a] # 0 /\ id_to_device[addr_to_id[a]].eth_addr # a

\* What refers to an id does not outlive the device, with one exception.  The
\* default receiver is reset with it.  An account comes to lead to an id that is
\* not its own by being registered as gateway managed, and keeps that id when
\* the device is removed and the id is given to another; nothing else makes it
\* stray: no removal, of either kind, and no recycling.
ReferencesLive ==
    [][/\ DefaultReceiverLive'
       /\ \A a \in Sender : Strays(a)' =>
             \/ Strays(a) /\ addr_to_id'[a] = addr_to_id[a]
             \/ \E sender \in Sender, gateway \in BOOLEAN : AddDevice(sender, a, TRUE, gateway)]_vars

\* Mapping and list of administrators agree through every swap of
\* deauthorize_admin: an administrator's index leads to its own list slot,
\* and a slot that is not address(0) names an administrator with that index.
AdminIndexSound ==
    /\ \A a \in Addr : IsAdmin(a) =>
          /\ admin_mapping[a].authorizedAdminUsersIndex < Len(active_admin_users)
          /\ active_admin_users[admin_mapping[a].authorizedAdminUsersIndex + 1] = a
    /\ \A i \in 1..Len(active_admin_users) :
          active_admin_users[i] # ZeroAddr =>
             /\ IsAdmin(active_admin_users[i])
             /\ admin_mapping[active_admin_users[i]].authorizedAdminUsersIndex = i - 1

\* get_num_devices() + get_num_gateways() is the number of registered ids,
\* even when remove_device is given a gateway and shortens the wrong list.
CountsBalance ==
    Len(authorized_devices) + Len(authorized_gateways) = Cardinality(Active)

\* A recycled id starts empty: no key, payload, address or owner of the
\* device that held the id before survives its removal.
RecycledIdsStartEmpty ==
    \A id \in DeviceId : id \notin Active =>
        LET rec == id_to_device[id]
        IN  rec = [NoDevice EXCEPT !.dataReceiverID = rec.dataReceiverID,
                                   !.authorizedDevicesIndex = rec.authorizedDevicesIndex]

\* An id that stays registered keeps its owner and its kind: no call makes a
\* gateway out of a device or gives a device another owner without removing
\* it first.
IdentityStable ==
    [][\A id \in DeviceId :
          id_to_device[id].active /\ id_to_device'[id].active =>
             /\ id_to_device'[id].eth_addr = id_to_device[id].eth_addr
             /\ id_to_device'[id].is_gateway = id_to_device[id].is_gateway
             /\ id_to_device'[id].gateway_managed = id_to_device[id].gateway_managed]_vars

-----------------------------------------------------------------------------
(* What the source's comments and requirements say                         *)

\* deauthorize_admin requires active_admin_users.length > 1, so that an
\* administrator is always left.
AtLeastOneAdmin == \E a \in Addr : IsAdmin(a)

=============================================================================
