-------------------------- MODULE DeviceMgmtProofs --------------------------
(***************************************************************************)
(* Proofs about DeviceMgmt that hold for any set of addresses, any bound   *)
(* on ids and administrators and any data.                                 *)
(***************************************************************************)
EXTENDS DeviceMgmt, SequenceTheorems, FiniteSetTheorems, TLAPS

USE AddrAssumption, BoundAssumption

-----------------------------------------------------------------------------
(* Sequences                                                               *)

\* Removing the last item keeps the others in place.
LEMMA FrontProperties ==
    ASSUME NEW S, NEW s \in Seq(S), s # <<>>
    PROVE  /\ Len(s) \in Nat \ {0}
           /\ Last(s) \in S
           /\ Front(s) \in Seq(S)
           /\ Len(Front(s)) = Len(s) - 1
           /\ \A i \in 1..(Len(s) - 1) : Front(s)[i] = s[i]
<1>1. Len(s) \in Nat \ {0}
  BY EmptySeq
<1>2. \A i \in 1..Len(s) : s[i] \in S
  BY ElementOfSeq
<1>3. /\ SubSeq(s, 1, Len(s) - 1) \in Seq(S)
      /\ Len(SubSeq(s, 1, Len(s) - 1)) = Len(s) - 1
      /\ \A i \in 1..(Len(s) - 1) : SubSeq(s, 1, Len(s) - 1)[i] = s[i]
  <2>1. \A i \in 1..(Len(s) - 1) : s[i] \in S
    BY <1>1, <1>2
  <2>2. 1 \in Int /\ Len(s) - 1 \in Int
    BY <1>1
  <2> DEFINE n == Len(s) - 1
  <2>3. /\ SubSeq(s, 1, n) \in Seq(S)
        /\ Len(SubSeq(s, 1, n)) = IF 1 <= n THEN n - 1 + 1 ELSE 0
        /\ \A i \in 1..(n - 1 + 1) : SubSeq(s, 1, n)[i] = s[1 + i - 1]
    <3>1. \A i \in 1..n : s[i] \in S
      BY <2>1
    <3>2. n \in Int
      BY <2>2
    <3> HIDE DEF n
    <3> QED
      BY <3>1, <3>2, SubSeqProperties
  <2>4. n \in Nat /\ n - 1 + 1 = n
    BY <1>1
  <2> HIDE DEF n
  <2>5. \A i \in 1..n : 1 + i - 1 = i
    BY <2>4
  <2>6. /\ SubSeq(s, 1, n) \in Seq(S)
        /\ Len(SubSeq(s, 1, n)) = n
        /\ \A i \in 1..n : SubSeq(s, 1, n)[i] = s[i]
    BY <2>3, <2>4, <2>5
  <2> QED
    BY <2>6 DEF n
<1> QED
  BY <1>1, <1>2, <1>3 DEF Front, Last

\* SwapPop shortens the list by one and brings in no new item.
LEMMA SwapPopProperties ==
    ASSUME NEW S, NEW list \in Seq(S), NEW index \in Nat, index < Len(list)
    PROVE  /\ list # <<>>
           /\ SwapPop(list, index) \in Seq(S)
           /\ Len(SwapPop(list, index)) = Len(list) - 1
<1>1. list # <<>>
  BY EmptySeq
<1>2. Last(list) \in S /\ Len(list) \in Nat \ {0}
  BY <1>1, FrontProperties
<1>3. index + 1 \in 1..Len(list)
  BY <1>2
<1> DEFINE moved == [list EXCEPT ![index + 1] = Last(list)]
<1>4. moved \in Seq(S) /\ Len(moved) = Len(list)
  BY <1>2, <1>3, ExceptSeq
<1>5. moved # <<>>
  BY <1>2, <1>4, EmptySeq
<1> HIDE DEF moved
<1>6. Front(moved) \in Seq(S) /\ Len(Front(moved)) = Len(moved) - 1
  BY <1>4, <1>5, FrontProperties
<1> QED
  BY <1>1, <1>4, <1>6 DEF moved, SwapPop

-----------------------------------------------------------------------------
(* Types                                                                   *)

\* A deleted record is a record.
LEMMA NoDeviceType == NoDevice \in Device
BY DEF NoDevice, Device, AddrType, DeviceId

\* The record add_device writes is a record.
LEMMA RegisteredType ==
    ASSUME NEW old \in Device, NEW clientAddr \in ClientAddr, NEW managed \in BOOLEAN,
           NEW asGateway \in BOOLEAN, NEW index \in Nat, defaultDataReceiver \in DeviceId
    PROVE  Registered(old, clientAddr, managed, asGateway, index) \in Device
<1> DEFINE rights == [old EXCEPT !.active = TRUE, !.is_gateway = asGateway,
                                 !.dataReceiverID = defaultDataReceiver,
                                 !.gateway_managed = managed]
           owner  == IF managed THEN old.eth_addr ELSE clientAddr
<1>1. rights \in Device /\ rights.eth_addr = old.eth_addr
  BY DEF Device
<1>2. owner \in Addr
  BY AddrAssumption DEF Device
<1>3. [rights EXCEPT !.authorizedDevicesIndex = index, !.eth_addr = owner,
                     !.has_eth_addr = ~managed] \in Device
  <2> SUFFICES ASSUME NEW d \in Device, NEW a \in Addr, NEW has \in BOOLEAN
               PROVE  [d EXCEPT !.authorizedDevicesIndex = index, !.eth_addr = a,
                                !.has_eth_addr = has] \in Device
    BY <1>1, <1>2
  <2> QED
    BY DEF Device
<1>4. Registered(old, clientAddr, managed, asGateway, index)
        = [rights EXCEPT !.authorizedDevicesIndex = index, !.eth_addr = owner,
                         !.has_eth_addr = ~managed]
  BY DEF Registered, Device
<1> QED
  BY <1>3, <1>4

\* Taking an id off the stack or the counter keeps both typed.
LEMMA TakeDeviceIdType ==
    ASSUME TypeOK, TakeDeviceId
    PROVE  /\ NewDeviceId \in DeviceId
           /\ next_device_id' \in 1..(MaxDeviceId + 1)
           /\ free_device_id_stack' \in Seq(DeviceId)
<1>1. CASE free_device_id_stack # <<>>
  BY <1>1, FrontProperties DEF TypeOK, TakeDeviceId, NewDeviceId
<1>2. CASE free_device_id_stack = <<>>
  BY <1>2 DEF TypeOK, TakeDeviceId, NewDeviceId, DeviceId
<1> QED
  BY <1>1, <1>2

\* Unlisting a device leaves every slot a record.
LEMMA UnlistedType ==
    ASSUME TypeOK, NEW list \in Seq(DeviceId), list # <<>>, NEW id \in DeviceId
    PROVE  Unlisted(list, id) \in [DeviceId -> Device]
<1>1. Last(list) \in DeviceId
  BY FrontProperties
<1>2. id_to_device[id].authorizedDevicesIndex \in Nat
  BY DEF TypeOK, Device
<1>3. id_to_device \in [DeviceId -> Device]
  BY DEF TypeOK
<1>4. [id_to_device[Last(list)] EXCEPT !.authorizedDevicesIndex
          = id_to_device[id].authorizedDevicesIndex] \in Device
  <2>1. id_to_device[Last(list)] \in Device
    BY <1>1, <1>3
  <2> QED
    BY <1>2, <2>1 DEF Device
<1>5. [id_to_device EXCEPT ![Last(list)].authorizedDevicesIndex
          = id_to_device[id].authorizedDevicesIndex] \in [DeviceId -> Device]
  BY <1>1, <1>3, <1>4
<1> QED
  BY <1>5, NoDeviceType DEF Unlisted

\* Putting an id back keeps the stack and the default receiver typed.
LEMMA ReleaseType ==
    ASSUME TypeOK, NEW id \in DeviceId, Release(id)
    PROVE  /\ defaultDataReceiver' \in DeviceId
           /\ next_device_id' \in 1..(MaxDeviceId + 1)
           /\ free_device_id_stack' \in Seq(DeviceId)
BY AppendProperties DEF Release, TypeOK, DeviceId

\* The initial state is typed.
LEMMA InitType == Init => TypeOK
<1> SUFFICES ASSUME Init PROVE TypeOK
  OBVIOUS
<1>1. 0 \in DeviceId
  BY DEF DeviceId
<1>2. <<>> \in Seq(DeviceId) /\ <<Deployer>> \in Seq(Addr)
  OBVIOUS
<1> QED
  BY <1>1, <1>2, NoDeviceType DEF Init, TypeOK, AdminUser

\* add_device keeps every slot typed, for devices, managed devices and gateways.
LEMMA AddDeviceType ==
    ASSUME TypeOK, NEW sender \in Sender, NEW a \in ClientAddr, NEW managed \in BOOLEAN,
           NEW gateway \in BOOLEAN, AddDevice(sender, a, managed, gateway)
    PROVE  TypeOK'
<1> DEFINE asGateway == gateway /\ ~managed
           index == Len(IF asGateway THEN authorized_gateways ELSE authorized_devices)
<1>1. TakeDeviceId /\ NewDeviceId \in DeviceId
  BY TakeDeviceIdType DEF AddDevice
<1>2. id_to_device' = [id_to_device EXCEPT
          ![NewDeviceId] = Registered(@, a, managed, asGateway, index)]
  BY DEF AddDevice
<1>3. index \in Nat /\ asGateway \in BOOLEAN
  BY LenProperties DEF TypeOK
<1>4. Registered(id_to_device[NewDeviceId], a, managed, asGateway, index) \in Device
  BY <1>1, <1>3, RegisteredType DEF TypeOK
<1>5. id_to_device' \in [DeviceId -> Device]
  BY <1>1, <1>2, <1>4 DEF TypeOK
<1>6. authorized_devices' \in Seq(DeviceId) /\ authorized_gateways' \in Seq(DeviceId)
  <2>1. /\ authorized_devices \in Seq(DeviceId)
        /\ authorized_gateways \in Seq(DeviceId)
    BY DEF TypeOK
  <2>2. /\ Append(authorized_devices, NewDeviceId) \in Seq(DeviceId)
        /\ Append(authorized_gateways, NewDeviceId) \in Seq(DeviceId)
    BY <1>1, <2>1, AppendProperties
  <2> QED
    BY <2>1, <2>2 DEF AddDevice
<1>7. addr_to_id' \in [Addr -> DeviceId] /\ gateway_pool' \subseteq Addr
  BY <1>1 DEF AddDevice, TypeOK
<1>8. UNCHANGED <<defaultDataReceiver, admin_mapping, active_admin_users>>
  BY DEF AddDevice, adminVars
<1> QED
  BY <1>1, <1>5, <1>6, <1>7, <1>8, TakeDeviceIdType DEF TypeOK

\* remove_device keeps every slot typed: its array accesses are in range.
LEMMA RemoveDeviceType ==
    ASSUME TypeOK, NEW sender \in Sender, NEW id \in DeviceId, RemoveDevice(sender, id)
    PROVE  TypeOK'
<1>1. id_to_device[id] \in Device
  BY DEF TypeOK
<1>2. /\ id_to_device[id].authorizedDevicesIndex \in Nat
      /\ id_to_device[id].eth_addr \in Addr
  BY <1>1 DEF Device
<1>3. authorized_devices # <<>> /\ authorized_devices' \in Seq(DeviceId)
  BY <1>2, SwapPopProperties DEF RemoveDevice, TypeOK
<1>4. id_to_device' \in [DeviceId -> Device]
  BY <1>3, UnlistedType DEF RemoveDevice, TypeOK
<1>5. addr_to_id' \in [Addr -> DeviceId]
  BY <1>2 DEF RemoveDevice, TypeOK, DeviceId
<1>6. Release(id) /\ UNCHANGED <<gateway_pool, authorized_gateways, admin_mapping, active_admin_users>>
  BY DEF RemoveDevice, adminVars
<1> QED
  BY <1>3, <1>4, <1>5, <1>6, ReleaseType DEF TypeOK

\* remove_gateway keeps every slot typed.
LEMMA RemoveGatewayType ==
    ASSUME TypeOK, NEW sender \in Sender, NEW id \in DeviceId, RemoveGateway(sender, id)
    PROVE  TypeOK'
<1>1. id_to_device[id] \in Device
  BY DEF TypeOK
<1>2. /\ id_to_device[id].authorizedDevicesIndex \in Nat
      /\ id_to_device[id].eth_addr \in Addr
  BY <1>1 DEF Device
<1>3. authorized_gateways # <<>> /\ authorized_gateways' \in Seq(DeviceId)
  BY <1>2, SwapPopProperties DEF RemoveGateway, TypeOK
<1>4. id_to_device' \in [DeviceId -> Device]
  BY <1>3, UnlistedType DEF RemoveGateway, TypeOK
<1>5. addr_to_id' \in [Addr -> DeviceId] /\ gateway_pool' \subseteq Addr
  BY <1>2 DEF RemoveGateway, TypeOK, DeviceId
<1>6. Release(id) /\ UNCHANGED <<authorized_devices, admin_mapping, active_admin_users>>
  BY DEF RemoveGateway, adminVars
<1> QED
  BY <1>3, <1>4, <1>5, <1>6, ReleaseType DEF TypeOK

\* update_addr, update_public_key, update_signkey and push_data write typed
\* fields only; AddrType reverts on any other number.
LEMMA RecordCallType ==
    ASSUME TypeOK, NEW sender \in Sender, NEW id \in DeviceId, RecordCall(sender, id)
    PROVE  TypeOK'
<1>1. id_to_device' \in [DeviceId -> Device]
  <2> DEFINE rec == id_to_device[id]
  <2>0. rec \in Device /\ id_to_device \in [DeviceId -> Device]
    BY DEF TypeOK
  <2>1. CASE \E type \in AddrTypeArg, host \in HostAddr : UpdateAddr(sender, id, type, host)
    <3>1. PICK type \in AddrTypeArg, host \in HostAddr : UpdateAddr(sender, id, type, host)
      BY <2>1
    <3>2. [rec EXCEPT !.addrType = type, !.addr = host] \in Device
      BY <2>0, <3>1 DEF Device, UpdateAddr
    <3>3. id_to_device' = [id_to_device EXCEPT ![id] = [rec EXCEPT !.addrType = type, !.addr = host]]
      BY <2>0, <3>1 DEF UpdateAddr
    <3> QED
      BY <2>0, <3>2, <3>3
  <2>2. CASE \E key \in EncKey : UpdatePublicKey(sender, id, key)
    <3>1. PICK key \in EncKey : UpdatePublicKey(sender, id, key)
      BY <2>2
    <3>2. [rec EXCEPT !.publicKey = key] \in Device
      BY <2>0 DEF Device
    <3> QED
      BY <2>0, <3>1, <3>2 DEF UpdatePublicKey
  <2>3. CASE \E key \in SignKey : UpdateSignKey(sender, id, key)
    <3>1. PICK key \in SignKey : UpdateSignKey(sender, id, key)
      BY <2>3
    <3>2. [rec EXCEPT !.signPublicKey = key] \in Device
      BY <2>0 DEF Device
    <3> QED
      BY <2>0, <3>1, <3>2 DEF UpdateSignKey
  <2>4. CASE \E payload \in Payload : PushData(sender, id, payload)
    <3>1. PICK payload \in Payload : PushData(sender, id, payload)
      BY <2>4
    <3>2. [rec EXCEPT !.data = payload] \in Device
      BY <2>0 DEF Device
    <3> QED
      BY <2>0, <3>1, <3>2 DEF PushData
  <2> QED
    BY <2>1, <2>2, <2>3, <2>4 DEF RecordCall
<1>2. UNCHANGED <<registryVars, adminVars>>
  BY DEF RecordCall, UpdateAddr, UpdatePublicKey, UpdateSignKey, PushData
<1> QED
  BY <1>1, <1>2 DEF TypeOK, registryVars, idVars, listVars, adminVars

\* Both changes of a data receiver store a device id.
LEMMA ReceiverCallType ==
    ASSUME TypeOK, NEW sender \in Sender, NEW id \in DeviceId, NEW receiver \in DeviceId,
           UpdateDataReceiver(sender, id, receiver) \/ SetDefaultDataReceiver(sender, receiver)
    PROVE  TypeOK'
<1>1. CASE UpdateDataReceiver(sender, id, receiver)
  <2>0. id_to_device \in [DeviceId -> Device] /\ id_to_device[id] \in Device
    BY DEF TypeOK
  <2>1. [id_to_device[id] EXCEPT !.dataReceiverID = receiver] \in Device
    BY <2>0 DEF Device
  <2>2. id_to_device' \in [DeviceId -> Device]
    <3>1. id_to_device' = [id_to_device EXCEPT ![id] = [id_to_device[id] EXCEPT !.dataReceiverID = receiver]]
      BY <1>1, <2>0 DEF UpdateDataReceiver
    <3> QED
      BY <2>0, <2>1, <3>1
  <2>3. UNCHANGED <<registryVars, adminVars>>
    BY <1>1 DEF UpdateDataReceiver
  <2> QED
    BY <2>2, <2>3 DEF TypeOK, registryVars, idVars, listVars, adminVars
<1>2. CASE SetDefaultDataReceiver(sender, receiver)
  BY <1>2 DEF SetDefaultDataReceiver, TypeOK, idVars, listVars, adminVars
<1> QED
  BY <1>1, <1>2

\* authorize_admin keeps the mapping and the list of administrators typed.
LEMMA AuthorizeAdminType ==
    ASSUME TypeOK, NEW sender \in Sender, NEW a \in Addr, AuthorizeAdmin(sender, a)
    PROVE  TypeOK'
<1>1. Len(active_admin_users) \in Nat
  BY LenProperties DEF TypeOK
<1>2. active_admin_users' \in Seq(Addr)
  BY AppendProperties DEF AuthorizeAdmin, TypeOK
<1>3. admin_mapping' \in [Addr -> AdminUser]
  BY <1>1 DEF AuthorizeAdmin, TypeOK, AdminUser
<1> QED
  BY <1>2, <1>3 DEF AuthorizeAdmin, TypeOK, registryVars, idVars, listVars

\* deauthorize_admin keeps both typed as long as the index it reads from the
\* mapping lies within the list.
LEMMA DeauthorizeAdminType ==
    ASSUME TypeOK, NEW sender \in Sender, NEW a \in Addr, DeauthorizeAdmin(sender, a),
           admin_mapping[a].authorizedAdminUsersIndex < Len(active_admin_users)
    PROVE  TypeOK'
<1> DEFINE len == Len(active_admin_users)
           index == admin_mapping[a].authorizedAdminUsersIndex
           lastUser == active_admin_users[len]
<1>1. len \in Nat /\ index \in Nat
  BY LenProperties DEF TypeOK, AdminUser
<1>2. index + 1 \in 1..len /\ len \in 1..len
  BY <1>1
<1>3. lastUser \in Addr
  BY <1>2, ElementOfSeq DEF TypeOK
<1>4. active_admin_users' \in Seq(Addr)
  <2>1. [active_admin_users EXCEPT ![index + 1] = ZeroAddr] \in Seq(Addr)
    BY <1>2, ExceptSeq DEF TypeOK
  <2>2. /\ [active_admin_users EXCEPT ![index + 1] = lastUser] \in Seq(Addr)
        /\ Len([active_admin_users EXCEPT ![index + 1] = lastUser]) = len
    BY <1>2, <1>3, ExceptSeq DEF TypeOK
  <2>3. [active_admin_users EXCEPT ![index + 1] = lastUser, ![len] = ZeroAddr] \in Seq(Addr)
    BY <1>2, <2>2, ExceptSeq
  <2> QED
    BY <2>1, <2>3 DEF DeauthorizeAdmin
<1>5. admin_mapping' \in [Addr -> AdminUser]
  <2>1. [isAdmin |-> FALSE, authorizedAdminUsersIndex |-> 0] \in AdminUser
    BY DEF AdminUser
  <2>2. [admin_mapping EXCEPT ![lastUser].authorizedAdminUsersIndex = index]
            \in [Addr -> AdminUser]
    BY <1>1, <1>3 DEF TypeOK, AdminUser
  <2> QED
    BY <2>1, <2>2 DEF DeauthorizeAdmin, TypeOK
<1> QED
  BY <1>4, <1>5 DEF DeauthorizeAdmin, TypeOK, registryVars, idVars, listVars

-----------------------------------------------------------------------------
(* Administrators                                                          *)

\* The administrator appended gets the index of its own slot.
LEMMA AuthorizeAdminSound ==
    ASSUME TypeOK, AdminIndexSound, NEW sender \in Sender, NEW a \in Addr,
           AuthorizeAdmin(sender, a)
    PROVE  AdminIndexSound'
<1> DEFINE len == Len(active_admin_users)
<1>1. /\ active_admin_users \in Seq(Addr)
      /\ admin_mapping \in [Addr -> AdminUser]
      /\ len \in Nat
  BY LenProperties DEF TypeOK
<1>2. /\ Len(active_admin_users') = len + 1
      /\ \A i \in 1..len : active_admin_users'[i] = active_admin_users[i]
      /\ active_admin_users'[len + 1] = a
  BY <1>1, AppendProperties DEF AuthorizeAdmin
<1>3. /\ admin_mapping'[a].isAdmin
      /\ admin_mapping'[a].authorizedAdminUsersIndex = len
      /\ \A x \in Addr \ {a} : admin_mapping'[x] = admin_mapping[x]
  BY <1>1 DEF AuthorizeAdmin
<1>4. ~ admin_mapping[a].isAdmin
  BY DEF AuthorizeAdmin, IsAdmin
<1>5. ASSUME NEW x \in Addr, admin_mapping'[x].isAdmin
      PROVE  /\ admin_mapping'[x].authorizedAdminUsersIndex < Len(active_admin_users')
             /\ active_admin_users'[admin_mapping'[x].authorizedAdminUsersIndex + 1] = x
  <2>1. CASE x = a
    BY <1>1, <1>2, <1>3, <2>1
  <2>2. CASE x # a
    <3> DEFINE index == admin_mapping[x].authorizedAdminUsersIndex
    <3>1. index \in Nat /\ index < len /\ active_admin_users[index + 1] = x
      BY <1>1, <1>3, <1>5, <2>2 DEF AdminIndexSound, IsAdmin, AdminUser
    <3> QED
      BY <1>1, <1>2, <1>3, <2>2, <3>1
  <2> QED
    BY <2>1, <2>2
<1>6. ASSUME NEW i \in 1..Len(active_admin_users'), active_admin_users'[i] # ZeroAddr
      PROVE  /\ admin_mapping'[active_admin_users'[i]].isAdmin
             /\ admin_mapping'[active_admin_users'[i]].authorizedAdminUsersIndex = i - 1
  <2>1. CASE i = len + 1
    BY <1>1, <1>2, <1>3, <2>1
  <2>2. CASE i # len + 1
    <3>1. i \in 1..len /\ active_admin_users'[i] = active_admin_users[i]
      BY <1>1, <1>2, <2>2
    <3>2. active_admin_users[i] \in Addr
      BY <1>1, <3>1, ElementOfSeq
    <3>3. /\ admin_mapping[active_admin_users[i]].isAdmin
          /\ admin_mapping[active_admin_users[i]].authorizedAdminUsersIndex = i - 1
      BY <1>6, <3>1 DEF AdminIndexSound, IsAdmin
    <3> QED
      BY <1>3, <1>4, <3>1, <3>2, <3>3
  <2> QED
    BY <2>1, <2>2
<1> QED
  BY <1>5, <1>6 DEF AdminIndexSound, IsAdmin

\* The slot that is overwritten is the one of the administrator removed, and
\* the administrator moved into it is the one the mapping updates.
LEMMA DeauthorizeAdminSound ==
    ASSUME TypeOK, AdminIndexSound, NEW sender \in Sender, NEW a \in Addr,
           DeauthorizeAdmin(sender, a)
    PROVE  AdminIndexSound'
<1> DEFINE list == active_admin_users
           len == Len(list)
           index == admin_mapping[a].authorizedAdminUsersIndex
           lastUser == list[len]
           removed == [isAdmin |-> FALSE, authorizedAdminUsersIndex |-> 0]
<1>1. /\ list \in Seq(Addr)
      /\ admin_mapping \in [Addr -> AdminUser]
      /\ len \in Nat
      /\ \A i \in 1..len : list[i] \in Addr
  BY LenProperties, ElementOfSeq DEF TypeOK
<1>2. \A x \in Addr : admin_mapping[x].authorizedAdminUsersIndex \in Nat
  BY <1>1 DEF AdminUser
<1>3. index < len /\ list[index + 1] = a /\ admin_mapping[a].isAdmin
  BY DEF DeauthorizeAdmin, AdminIndexSound, IsAdmin
<1>4. index \in Nat /\ index + 1 \in 1..len /\ len \in 1..len
  BY <1>1, <1>2, <1>3
<1>5. lastUser \in Addr
  BY <1>1, <1>4
<1>6. \A x \in Addr : admin_mapping[x].isAdmin =>
         /\ admin_mapping[x].authorizedAdminUsersIndex < len
         /\ list[admin_mapping[x].authorizedAdminUsersIndex + 1] = x
  BY DEF AdminIndexSound, IsAdmin
<1>7. \A i \in 1..len : list[i] # ZeroAddr =>
         /\ admin_mapping[list[i]].isAdmin
         /\ admin_mapping[list[i]].authorizedAdminUsersIndex = i - 1
  BY DEF AdminIndexSound, IsAdmin
<1>8. CASE index = len - 1
  <2>1. /\ Len(list') = len
        /\ \A i \in 1..len : list'[i] = IF i = len THEN ZeroAddr ELSE list[i]
    BY <1>1, <1>4, <1>8, ExceptSeq DEF DeauthorizeAdmin
  <2>2. \A x \in Addr : admin_mapping'[x] = IF x = a THEN removed ELSE admin_mapping[x]
    BY <1>1, <1>8 DEF DeauthorizeAdmin
  <2>3. ASSUME NEW x \in Addr, admin_mapping'[x].isAdmin
        PROVE  /\ admin_mapping'[x].authorizedAdminUsersIndex < Len(list')
               /\ list'[admin_mapping'[x].authorizedAdminUsersIndex + 1] = x
    <3>1. x # a /\ admin_mapping'[x] = admin_mapping[x]
      BY <2>2, <2>3
    <3> DEFINE xi == admin_mapping[x].authorizedAdminUsersIndex
    <3>2. xi \in Nat /\ xi < len /\ list[xi + 1] = x
      BY <1>2, <1>6, <2>3, <3>1
    <3>3. xi + 1 # len
      BY <1>3, <1>8, <3>1, <3>2
    <3> QED
      BY <1>1, <2>1, <3>1, <3>2, <3>3
  <2>4. ASSUME NEW i \in 1..Len(list'), list'[i] # ZeroAddr
        PROVE  /\ admin_mapping'[list'[i]].isAdmin
               /\ admin_mapping'[list'[i]].authorizedAdminUsersIndex = i - 1
    <3>1. i \in 1..len /\ i # len /\ list'[i] = list[i]
      BY <2>1, <2>4
    <3>2. list[i] # a
      BY <1>1, <1>7, <1>8, <2>4, <3>1
    <3> QED
      BY <1>1, <1>7, <2>2, <2>4, <3>1, <3>2
  <2> QED
    BY <2>3, <2>4 DEF AdminIndexSound, IsAdmin
<1>9. CASE index # len - 1
  <2>1. /\ Len(list') = len
        /\ \A i \in 1..len : list'[i] = IF i = len THEN ZeroAddr
                                        ELSE IF i = index + 1 THEN lastUser ELSE list[i]
    <3> DEFINE moved == [list EXCEPT ![index + 1] = lastUser]
    <3>1. /\ moved \in Seq(Addr)
          /\ Len(moved) = len
          /\ \A i \in 1..len : moved[i] = IF i = index + 1 THEN lastUser ELSE list[i]
      BY <1>1, <1>4, <1>5, ExceptSeq
    <3>2. list' = [moved EXCEPT ![len] = ZeroAddr]
      BY <1>9 DEF DeauthorizeAdmin
    <3> HIDE DEF moved
    <3> QED
      BY <1>4, <3>1, <3>2, ExceptSeq
  <2>2. \A x \in Addr : x # a /\ x # lastUser => admin_mapping'[x] = admin_mapping[x]
    BY <1>1, <1>9 DEF DeauthorizeAdmin
  <2>3. admin_mapping'[a] = removed
    BY <1>1, <1>5, <1>9 DEF DeauthorizeAdmin
  <2>4. lastUser # a => /\ admin_mapping'[lastUser].isAdmin = admin_mapping[lastUser].isAdmin
                        /\ admin_mapping'[lastUser].authorizedAdminUsersIndex = index
    <3> SUFFICES ASSUME lastUser # a
                 PROVE  /\ admin_mapping'[lastUser].isAdmin = admin_mapping[lastUser].isAdmin
                        /\ admin_mapping'[lastUser].authorizedAdminUsersIndex = index
      OBVIOUS
    <3> DEFINE m == [admin_mapping[lastUser] EXCEPT !.authorizedAdminUsersIndex = index]
    <3>1. admin_mapping'[lastUser] = m
      BY <1>1, <1>5, <1>9 DEF DeauthorizeAdmin
    <3>2. admin_mapping[lastUser] \in AdminUser
      BY <1>1, <1>5
    <3>3. /\ m.isAdmin = admin_mapping[lastUser].isAdmin
          /\ m.authorizedAdminUsersIndex = index
      BY <3>2 DEF AdminUser
    <3> QED
      BY <3>1, <3>3
  <2>5. ASSUME NEW x \in Addr, admin_mapping'[x].isAdmin
        PROVE  /\ admin_mapping'[x].authorizedAdminUsersIndex < Len(list')
               /\ list'[admin_mapping'[x].authorizedAdminUsersIndex + 1] = x
    <3>1. x # a
      BY <2>3, <2>5
    <3>2. CASE x = lastUser
      <4>1. admin_mapping'[x].authorizedAdminUsersIndex = index
        BY <2>4, <3>1, <3>2
      <4>2. index + 1 # len
        BY <1>1, <1>4, <1>9
      <4> QED
        BY <1>3, <1>4, <2>1, <3>2, <4>1, <4>2
    <3>3. CASE x # lastUser
      <4> DEFINE xi == admin_mapping[x].authorizedAdminUsersIndex
      <4>1. xi \in Nat /\ xi < len /\ list[xi + 1] = x /\ admin_mapping'[x] = admin_mapping[x]
        BY <1>2, <1>6, <2>2, <2>5, <3>1, <3>3
      <4>2. xi + 1 # len /\ xi + 1 # index + 1
        BY <1>3, <3>1, <3>3, <4>1
      <4> QED
        BY <1>1, <2>1, <4>1, <4>2
    <3> QED
      BY <3>2, <3>3
  <2>6. ASSUME NEW i \in 1..Len(list'), list'[i] # ZeroAddr
        PROVE  /\ admin_mapping'[list'[i]].isAdmin
               /\ admin_mapping'[list'[i]].authorizedAdminUsersIndex = i - 1
    <3>1. i \in 1..len /\ i # len
      BY <2>1, <2>6
    <3>2. lastUser # ZeroAddr => /\ admin_mapping[lastUser].isAdmin
                                 /\ admin_mapping[lastUser].authorizedAdminUsersIndex = len - 1
      BY <1>4, <1>7
    <3>3. CASE i = index + 1
      <4>1. list'[i] = lastUser /\ lastUser # ZeroAddr
        BY <2>1, <2>6, <3>1, <3>3
      <4>2. lastUser # a
        BY <1>9, <3>2, <4>1
      <4> QED
        BY <1>4, <2>4, <3>2, <3>3, <4>1, <4>2
    <3>4. CASE i # index + 1
      <4>1. list'[i] = list[i] /\ list[i] \in Addr
        BY <1>1, <2>1, <3>1, <3>4
      <4>2. /\ admin_mapping[list[i]].isAdmin
            /\ admin_mapping[list[i]].authorizedAdminUsersIndex = i - 1
        BY <1>7, <2>6, <3>1, <4>1
      <4>3. list[i] # a
        BY <1>4, <3>1, <3>4, <4>2
      <4>4. list[i] # lastUser
        BY <1>1, <2>6, <3>1, <3>2, <4>1, <4>2
      <4> QED
        BY <2>2, <4>1, <4>2, <4>3, <4>4
    <3> QED
      BY <3>3, <3>4
  <2> QED
    BY <2>5, <2>6 DEF AdminIndexSound, IsAdmin
<1> QED
  BY <1>8, <1>9

-----------------------------------------------------------------------------
(* Type correctness and the administrators' index                          *)

\* deauthorize_admin indexes its list with a number read from the mapping, so
\* type correctness is inductive only together with AdminIndexSound.
AdminInv == TypeOK /\ AdminIndexSound

\* The constructor's administrator has index 0 of a list of one.
LEMMA AdminInvInit == Init => AdminInv
<1> SUFFICES ASSUME Init PROVE AdminIndexSound
  BY InitType DEF AdminInv
<1>1. /\ Len(active_admin_users) = 1
      /\ active_admin_users[1] = Deployer
      /\ \A a \in Addr : /\ admin_mapping[a].isAdmin => a = Deployer
                        /\ admin_mapping[a].authorizedAdminUsersIndex = 0
      /\ admin_mapping[Deployer].isAdmin
  BY DEF Init
<1> QED
  BY <1>1 DEF AdminIndexSound, IsAdmin

\* Only the two administrator calls touch the mapping and the list.
LEMMA AdminVarsStable ==
    ASSUME NEW sender \in Sender, AdminCall(sender),
           ~ \E a \in Addr : AuthorizeAdmin(sender, a) \/ DeauthorizeAdmin(sender, a)
    PROVE  UNCHANGED adminVars
BY DEF AdminCall, AddDevice, RemoveDevice, RemoveGateway, UpdateDataReceiver,
       SetDefaultDataReceiver, adminVars

\* Every transaction keeps AdminInv.
LEMMA AdminInvStep == AdminInv /\ [Next]_vars => AdminInv'
<1> SUFFICES ASSUME AdminInv, [Next]_vars PROVE AdminInv'
  OBVIOUS
<1>0. TypeOK /\ AdminIndexSound
  BY DEF AdminInv
<1>1. ASSUME UNCHANGED adminVars PROVE AdminIndexSound'
  BY <1>0, <1>1 DEF AdminIndexSound, IsAdmin, adminVars
<1>2. ASSUME NEW sender \in Sender, AdminCall(sender) PROVE AdminInv'
  <2>1. ASSUME NEW a \in Addr, AuthorizeAdmin(sender, a) PROVE AdminInv'
    BY <1>0, <2>1, AuthorizeAdminType, AuthorizeAdminSound DEF AdminInv
  <2>2. ASSUME NEW a \in Addr, DeauthorizeAdmin(sender, a) PROVE AdminInv'
    <3>1. admin_mapping[a].authorizedAdminUsersIndex < Len(active_admin_users)
      BY <1>0, <2>2 DEF AdminIndexSound, DeauthorizeAdmin
    <3> QED
      BY <1>0, <2>2, <3>1, DeauthorizeAdminType, DeauthorizeAdminSound DEF AdminInv
  <2>3. ASSUME ~ \E a \in Addr : AuthorizeAdmin(sender, a) \/ DeauthorizeAdmin(sender, a)
        PROVE  AdminInv'
    <3>1. AdminIndexSound'
      BY <1>1, <1>2, <2>3, AdminVarsStable
    <3>2. ASSUME NEW a \in ClientAddr, NEW managed \in BOOLEAN, NEW gateway \in BOOLEAN,
                 AddDevice(sender, a, managed, gateway)
          PROVE  TypeOK'
      BY <1>0, <3>2, AddDeviceType
    <3>3. ASSUME NEW id \in DeviceId, RemoveDevice(sender, id) \/ RemoveGateway(sender, id)
          PROVE  TypeOK'
      BY <1>0, <3>3, RemoveDeviceType, RemoveGatewayType
    <3>4. ASSUME NEW id \in DeviceId, NEW receiver \in DeviceId,
                 UpdateDataReceiver(sender, id, receiver) \/ SetDefaultDataReceiver(sender, receiver)
          PROVE  TypeOK'
      BY <1>0, <3>4, ReceiverCallType
    <3> QED
      BY <1>2, <2>3, <3>1, <3>2, <3>3, <3>4 DEF AdminCall, AdminInv
  <2> QED
    BY <2>1, <2>2, <2>3
<1>3. ASSUME NEW sender \in Sender, NEW id \in DeviceId, RecordCall(sender, id) PROVE AdminInv'
  <2>1. UNCHANGED adminVars
    BY <1>3 DEF RecordCall, UpdateAddr, UpdatePublicKey, UpdateSignKey, PushData, adminVars
  <2> QED
    BY <1>0, <1>1, <1>3, <2>1, RecordCallType DEF AdminInv
<1>4. CASE UNCHANGED vars
  BY <1>0, <1>1, <1>4 DEF AdminInv, TypeOK, vars, registryVars, idVars, listVars, adminVars
<1> QED
  BY <1>2, <1>3, <1>4 DEF Next

\* Every reachable state satisfies both.
LEMMA AdminInvHolds == Spec => []AdminInv
BY AdminInvInit, AdminInvStep, PTL DEF Spec

\* Every storage slot of the contract always holds a value of its declared
\* type, so no array access of a transaction that succeeds is out of range.
THEOREM TypeCorrect == Spec => []TypeOK
<1>1. AdminInv => TypeOK
  BY DEF AdminInv
<1> QED
  BY <1>1, AdminInvHolds, PTL

\* The mapping and the list of administrators agree after any sequence of
\* authorize_admin and deauthorize_admin calls.
THEOREM AdminsAgree == Spec => []AdminIndexSound
<1>1. AdminInv => AdminIndexSound
  BY DEF AdminInv
<1> QED
  BY <1>1, AdminInvHolds, PTL

-----------------------------------------------------------------------------
(* The last administrator                                                  *)

\* An administrator is there who can send a transaction.  Without one there may
\* still be address(0), which authorize_admin accepts.
Operable == \E a \in Sender : IsAdmin(a)

\* The list of administrators is never empty, and while it has one slot, that
\* of the deployer, the requirement of deauthorize_admin does its work.
ListGuards ==
    /\ Len(active_admin_users) >= 1
    /\ Len(active_admin_users) = 1 => Operable

LEMMA ListGuardsInit == Init => ListGuards
<1> SUFFICES ASSUME Init PROVE ListGuards
  OBVIOUS
<1>1. Deployer \in Sender /\ Deployer \in Addr
  BY AddrAssumption DEF Sender
<1>2. IsAdmin(Deployer)
  BY <1>1 DEF Init, IsAdmin
<1>3. Len(active_admin_users) = 1
  BY DEF Init
<1> QED
  BY <1>1, <1>2, <1>3 DEF ListGuards, Operable

LEMMA ListGuardsStep == TypeOK /\ ListGuards /\ [Next]_vars => ListGuards'
<1> SUFFICES ASSUME TypeOK, ListGuards, [Next]_vars PROVE ListGuards'
  OBVIOUS
<1>1. ASSUME UNCHANGED adminVars PROVE ListGuards'
  BY <1>1 DEF ListGuards, Operable, IsAdmin, adminVars
<1>2. ASSUME NEW sender \in Sender, NEW a \in Addr, AuthorizeAdmin(sender, a) PROVE ListGuards'
  BY <1>2 DEF AuthorizeAdmin, ListGuards, TypeOK
<1>3. ASSUME NEW sender \in Sender, NEW a \in Addr, DeauthorizeAdmin(sender, a) PROVE ListGuards'
  <2>1. Len(active_admin_users') = Len(active_admin_users) /\ Len(active_admin_users) > 1
    BY <1>3 DEF DeauthorizeAdmin, TypeOK
  <2>2. Len(active_admin_users) \in Nat
    BY DEF TypeOK
  <2> QED
    BY <2>1, <2>2 DEF ListGuards
<1>4. ASSUME NEW sender \in Sender, NEW id \in DeviceId, RecordCall(sender, id) PROVE ListGuards'
  BY <1>1, <1>4 DEF RecordCall, UpdateAddr, UpdatePublicKey, UpdateSignKey, PushData, adminVars
<1> QED
  BY <1>1, <1>2, <1>3, <1>4, AdminVarsStable DEF Next, vars

\* The registry cannot lose its last administrator before a second one was
\* authorised: only then is the list, which never gets shorter, longer than one.
THEOREM LockoutNeedsSecondAdmin == Spec => [](~ Operable => Len(active_admin_users) > 1)
<1>1. TypeOK /\ ListGuards => (~ Operable => Len(active_admin_users) > 1)
  <2> SUFFICES ASSUME TypeOK, ListGuards, ~ Operable PROVE Len(active_admin_users) > 1
    OBVIOUS
  <2>1. Len(active_admin_users) \in Nat
    BY DEF TypeOK
  <2>2. Len(active_admin_users) >= 1 /\ Len(active_admin_users) # 1
    BY DEF ListGuards
  <2>3. \A n \in Nat : n >= 1 /\ n # 1 => n > 1
    OBVIOUS
  <2> QED
    BY <2>1, <2>2, <2>3
<1> QED
  BY <1>1, ListGuardsInit, ListGuardsStep, TypeCorrect, PTL DEF Spec

\* No administrator can be locked out by another: the registry loses the last
\* one only in the call in which the only administrator deauthorizes itself.
LastAdminLeaves ==
    [][Operable /\ ~ Operable' =>
          \E a \in Sender : DeauthorizeAdmin(a, a) /\ \A b \in Sender : IsAdmin(b) => b = a]_vars

THEOREM LockoutBySelf == Spec => LastAdminLeaves
<1>1. ASSUME TypeOK, Next, Operable, ~ Operable'
      PROVE  \E a \in Sender : DeauthorizeAdmin(a, a) /\ \A b \in Sender : IsAdmin(b) => b = a
  <2>1. admin_mapping' # admin_mapping
    BY <1>1 DEF Operable, IsAdmin
  <2>2. PICK sender \in Sender, a \in Addr : AuthorizeAdmin(sender, a) \/ DeauthorizeAdmin(sender, a)
    BY <1>1, <2>1, AdminVarsStable
    DEF Next, RecordCall, UpdateAddr, UpdatePublicKey, UpdateSignKey, PushData, adminVars
  <2>3. ~ AuthorizeAdmin(sender, a)
    BY <1>1 DEF AuthorizeAdmin, Operable, IsAdmin, TypeOK, AdminUser, Sender
  <2>4. DeauthorizeAdmin(sender, a)
    BY <2>2, <2>3
  <2>5. ASSUME NEW b \in Sender, b # a
        PROVE  admin_mapping'[b].isAdmin = admin_mapping[b].isAdmin
    <3>1. b \in Addr /\ admin_mapping \in [Addr -> AdminUser] /\ admin_mapping[b] \in AdminUser
      BY <1>1 DEF Sender, TypeOK
    <3>2. PICK index, lastUser :
              \/ admin_mapping' = [admin_mapping EXCEPT
                     ![a] = [isAdmin |-> FALSE, authorizedAdminUsersIndex |-> 0]]
              \/ admin_mapping' = [admin_mapping EXCEPT
                     ![lastUser].authorizedAdminUsersIndex = index,
                     ![a] = [isAdmin |-> FALSE, authorizedAdminUsersIndex |-> 0]]
      BY <2>4 DEF DeauthorizeAdmin
    <3> QED
      BY <2>5, <3>1, <3>2 DEF AdminUser
  <2>6. \A b \in Sender : IsAdmin(b) => b = a
    BY <1>1, <2>5 DEF Operable, IsAdmin
  <2>7. IsAdmin(sender)
    BY <2>4 DEF DeauthorizeAdmin
  <2> QED
    BY <2>4, <2>6, <2>7
<1>2. UNCHANGED vars => ~ (Operable /\ ~ Operable')
  BY DEF vars, Operable, IsAdmin, adminVars
<1> QED
  BY <1>1, <1>2, TypeCorrect, PTL DEF LastAdminLeaves, Spec

\* Without an administrator the registry is frozen for ever: no device or
\* administrator comes or goes and no list, mapping or default changes.  All
\* that goes on is what registered devices write into records.
Frozen ==
    [][~ Operable =>
          ~ Operable' /\ UNCHANGED <<registryVars, adminVars, Active>>]_vars

THEOREM LockoutForEver == Spec => Frozen
<1>1. ASSUME TypeOK, Next, ~ Operable
      PROVE  ~ Operable' /\ UNCHANGED <<registryVars, adminVars, Active>>
  <2>1. ASSUME NEW sender \in Sender PROVE ~ AdminCall(sender)
    BY <1>1 DEF AdminCall, AddDevice, RemoveDevice, RemoveGateway, UpdateDataReceiver,
       SetDefaultDataReceiver, AuthorizeAdmin, DeauthorizeAdmin, Operable
  <2>2. PICK sender \in Sender, id \in DeviceId : RecordCall(sender, id)
    BY <1>1, <2>1 DEF Next
  <2>3. UNCHANGED <<registryVars, adminVars>>
    BY <2>2 DEF RecordCall, UpdateAddr, UpdatePublicKey, UpdateSignKey, PushData, registryVars, adminVars
  <2>4. \A i \in DeviceId : id_to_device'[i].active = id_to_device[i].active
    <3>1. id_to_device \in [DeviceId -> Device]
      BY <1>1 DEF TypeOK
    <3>2. CASE \E type \in AddrTypeArg, host \in HostAddr : UpdateAddr(sender, id, type, host)
      BY <3>1, <3>2 DEF UpdateAddr, Device
    <3>3. CASE \E key \in EncKey : UpdatePublicKey(sender, id, key)
      BY <3>1, <3>3 DEF UpdatePublicKey, Device
    <3>4. CASE \E key \in SignKey : UpdateSignKey(sender, id, key)
      BY <3>1, <3>4 DEF UpdateSignKey, Device
    <3>5. CASE \E payload \in Payload : PushData(sender, id, payload)
      BY <3>1, <3>5 DEF PushData, Device
    <3> QED
      BY <2>2, <3>2, <3>3, <3>4, <3>5 DEF RecordCall
  <2>5. Active' = Active
    BY <2>4 DEF Active
  <2> QED
    BY <1>1, <2>3, <2>5 DEF Operable, IsAdmin, adminVars
<1>2. UNCHANGED vars => (~ Operable => ~ Operable' /\ UNCHANGED <<registryVars, adminVars, Active>>)
  BY DEF vars, Operable, IsAdmin, adminVars, Active
<1> QED
  BY <1>1, <1>2, TypeCorrect, PTL DEF Frozen, Spec

=============================================================================
