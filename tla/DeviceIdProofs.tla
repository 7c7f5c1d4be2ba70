--------------------------- MODULE DeviceIdProofs ---------------------------
(***************************************************************************)
(* Proofs about DeviceMgmt's device ids: none is lost or handed out twice, *)
(* a recycled id starts empty, the default data receiver exists, the lists *)
(* together are as long as there are devices, a registered id keeps its    *)
(* owner, and what refers to an id does not outlive the device, but for    *)
(* the address of a gateway managed one.                                   *)
(***************************************************************************)
EXTENDS DeviceMgmtProofs

USE AddrAssumption, BoundAssumption

-----------------------------------------------------------------------------
(* The free stack as a set                                                 *)

\* Pushing an item that is not on the stack keeps its items distinct.
LEMMA PushProperties ==
    ASSUME NEW S, NEW s \in Seq(S), NEW e \in S
    PROVE  /\ Range(Append(s, e)) = Range(s) \union {e}
           /\ IsInjective(s) /\ e \notin Range(s) => IsInjective(Append(s, e))
<1> DEFINE t == Append(s, e)
<1>1. Len(s) \in Nat /\ DOMAIN s = 1..Len(s)
  BY LenProperties
<1>2. /\ DOMAIN t = 1..(Len(s) + 1)
      /\ \A i \in 1..Len(s) : t[i] = s[i]
      /\ t[Len(s) + 1] = e
  BY <1>1, AppendProperties, LenProperties
<1> HIDE DEF t
<1>3. \A i \in 1..(Len(s) + 1) : i \in 1..Len(s) \/ i = Len(s) + 1
  BY <1>1
<1>4. Range(t) = Range(s) \union {e}
  BY <1>1, <1>2, <1>3 DEF Range
<1>5. IsInjective(s) /\ e \notin Range(s) => IsInjective(t)
  BY <1>1, <1>2, <1>3 DEF Range, IsInjective
<1> QED
  BY <1>4, <1>5 DEF t

\* Popping a stack of distinct items takes the top, and nothing else, off it.
LEMMA PopProperties ==
    ASSUME NEW S, NEW s \in Seq(S), s # <<>>, IsInjective(s)
    PROVE  /\ Last(s) \in Range(s)
           /\ Range(Front(s)) = Range(s) \ {Last(s)}
           /\ IsInjective(Front(s))
<1> DEFINE n == Len(s)
           f == Front(s)
<1>1. n \in Nat \ {0} /\ DOMAIN s = 1..n /\ Last(s) = s[n]
  BY FrontProperties, LenProperties DEF Last
<1>2. /\ DOMAIN f = 1..(n - 1)
      /\ \A i \in 1..(n - 1) : f[i] = s[i]
  BY FrontProperties, LenProperties
<1>3. \A i, j \in 1..n : s[i] = s[j] => i = j
  BY <1>1 DEF IsInjective
<1> HIDE DEF n, f
<1>4. /\ \A i \in 1..n : i \in 1..(n - 1) \/ i = n
      /\ \A i \in 1..(n - 1) : i \in 1..n /\ i # n
      /\ n \in 1..n
  BY <1>1
<1>5. Last(s) \in Range(s)
  BY <1>1, <1>4 DEF Range
<1>6. Range(f) = Range(s) \ {Last(s)}
  <2>1. \A i \in 1..(n - 1) : s[i] # s[n]
    BY <1>3, <1>4
  <2>2. Range(s) = {s[i] : i \in 1..n} /\ Range(f) = {f[i] : i \in 1..(n - 1)}
    BY <1>1, <1>2 DEF Range
  <2> QED
    BY <1>1, <1>2, <1>4, <2>1, <2>2
<1>7. IsInjective(f)
  BY <1>2, <1>3, <1>4 DEF IsInjective
<1> QED
  BY <1>5, <1>6, <1>7 DEF f

\* An empty stack holds nothing.
LEMMA EmptyStack == Range(<<>>) = {}
BY DEF Range

-----------------------------------------------------------------------------
(* What the transactions do to the records                                 *)

\* The fields a record must have for its id to start empty.
Empty(rec) ==
    /\ rec.eth_addr = ZeroAddr
    /\ ~ rec.has_eth_addr
    /\ ~ rec.active
    /\ ~ rec.is_gateway
    /\ rec.data = EmptyText
    /\ rec.addrType = 0
    /\ rec.addr = EmptyText
    /\ rec.publicKey = EmptyText
    /\ rec.signPublicKey = EmptyText
    /\ ~ rec.gateway_managed

\* The fields that say whose device an id is.
SameIdentity(rec, old) ==
    /\ rec.eth_addr = old.eth_addr
    /\ rec.has_eth_addr = old.has_eth_addr
    /\ rec.is_gateway = old.is_gateway
    /\ rec.gateway_managed = old.gateway_managed

\* RecycledIdsStartEmpty, field by field.
LEMMA EmptyFields ==
    ASSUME NEW rec \in Device
    PROVE  Empty(rec) <=>
             rec = [NoDevice EXCEPT !.dataReceiverID = rec.dataReceiverID,
                                    !.authorizedDevicesIndex = rec.authorizedDevicesIndex]
<1> DEFINE e == [NoDevice EXCEPT !.dataReceiverID = rec.dataReceiverID,
                                 !.authorizedDevicesIndex = rec.authorizedDevicesIndex]
<1>1. /\ e \in Device
      /\ Empty(e)
      /\ e.dataReceiverID = rec.dataReceiverID
      /\ e.authorizedDevicesIndex = rec.authorizedDevicesIndex
  <2>1. NoDevice \in Device
    BY NoDeviceType
  <2>2. rec.dataReceiverID \in DeviceId /\ rec.authorizedDevicesIndex \in Nat
    BY DEF Device
  <2>3. Empty(NoDevice)
    BY DEF NoDevice, Empty
  <2>4. e \in Device
    BY <2>1, <2>2 DEF Device
  <2>5. Empty(e)
    BY <2>1, <2>3 DEF Empty, Device
  <2>6. /\ e.dataReceiverID = rec.dataReceiverID
        /\ e.authorizedDevicesIndex = rec.authorizedDevicesIndex
    BY <2>1 DEF Device
  <2> QED
    BY <2>4, <2>5, <2>6
<1> HIDE DEF e
<1>2. ASSUME Empty(rec) PROVE rec = e
  <2>1. \A r \in Device : /\ r.has_eth_addr \in BOOLEAN
                          /\ r.active \in BOOLEAN
                          /\ r.is_gateway \in BOOLEAN
                          /\ r.gateway_managed \in BOOLEAN
    BY DEF Device
  <2>2. /\ rec.has_eth_addr = e.has_eth_addr
        /\ rec.active = e.active
        /\ rec.is_gateway = e.is_gateway
        /\ rec.gateway_managed = e.gateway_managed
    BY <1>1, <1>2, <2>1 DEF Empty
  <2>3. /\ rec.eth_addr = e.eth_addr
        /\ rec.data = e.data
        /\ rec.addrType = e.addrType
        /\ rec.addr = e.addr
        /\ rec.publicKey = e.publicKey
        /\ rec.signPublicKey = e.signPublicKey
    BY <1>1, <1>2 DEF Empty
  <2> QED
    BY <1>1, <2>2, <2>3 DEF Device
<1> QED
  BY <1>1, <1>2 DEF e

\* RecycledIdsStartEmpty, over the ids that are not active.
LEMMA EmptyIds ==
    ASSUME TypeOK
    PROVE  RecycledIdsStartEmpty <=>
             \A id \in DeviceId : ~ id_to_device[id].active => Empty(id_to_device[id])
BY EmptyFields DEF TypeOK, RecycledIdsStartEmpty, Active

\* The same after a step.
LEMMA EmptyIdsNext ==
    ASSUME TypeOK'
    PROVE  RecycledIdsStartEmpty' <=>
             \A id \in DeviceId : ~ id_to_device'[id].active => Empty(id_to_device'[id])
<1>1. (TypeOK => (RecycledIdsStartEmpty <=>
           \A id \in DeviceId : ~ id_to_device[id].active => Empty(id_to_device[id])))'
  BY EmptyIds, PTL
<1> QED
  BY <1>1 DEF Empty

\* add_device writes the record of the id it takes and no other.
LEMMA AddDeviceEffect ==
    ASSUME TypeOK, NEW sender \in Sender, NEW a \in ClientAddr, NEW managed \in BOOLEAN,
           NEW gateway \in BOOLEAN, AddDevice(sender, a, managed, gateway)
    PROVE  /\ NewDeviceId \in DeviceId
           /\ id_to_device'[NewDeviceId].active
           /\ \A x \in DeviceId \ {NewDeviceId} : id_to_device'[x] = id_to_device[x]
           /\ Active' = Active \union {NewDeviceId}
<1> DEFINE asGateway == gateway /\ ~managed
           index == Len(IF asGateway THEN authorized_gateways ELSE authorized_devices)
           rec == id_to_device[NewDeviceId]
           new == Registered(rec, a, managed, asGateway, index)
<1>1. NewDeviceId \in DeviceId /\ id_to_device \in [DeviceId -> Device]
  BY TakeDeviceIdType DEF AddDevice, TypeOK
<1>2. id_to_device' = [id_to_device EXCEPT ![NewDeviceId] = new]
  BY <1>1 DEF AddDevice
<1>3. rec \in Device
  BY <1>1
<1>4. new.active
  BY <1>3 DEF Registered, Device
<1> HIDE DEF new
<1>5. /\ id_to_device'[NewDeviceId] = new
      /\ \A x \in DeviceId \ {NewDeviceId} : id_to_device'[x] = id_to_device[x]
  BY <1>1, <1>2
<1> QED
  BY <1>1, <1>4, <1>5 DEF Active

\* Unlisting an id deletes its record and moves one index.
LEMMA UnlistedEffect ==
    ASSUME TypeOK, NEW list \in Seq(DeviceId), list # <<>>, NEW id \in DeviceId,
           id_to_device' = Unlisted(list, id)
    PROVE  /\ id_to_device'[id] = NoDevice
           /\ \A x \in DeviceId \ {id} :
                 /\ id_to_device'[x].active = id_to_device[x].active
                 /\ SameIdentity(id_to_device'[x], id_to_device[x])
                 /\ Empty(id_to_device[x]) => Empty(id_to_device'[x])
           /\ Active' = Active \ {id}
<1> DEFINE index == id_to_device[id].authorizedDevicesIndex
           moved(x) == [id_to_device[x] EXCEPT !.authorizedDevicesIndex = index]
<1>1. Last(list) \in DeviceId /\ id_to_device \in [DeviceId -> Device]
  BY FrontProperties DEF TypeOK
<1>2. /\ id_to_device'[id] = NoDevice
      /\ \A x \in DeviceId \ {id} :
            id_to_device'[x] = IF x = Last(list) THEN moved(x) ELSE id_to_device[x]
  BY <1>1 DEF Unlisted
<1>3. ASSUME NEW x \in DeviceId
      PROVE  /\ moved(x).active = id_to_device[x].active
             /\ SameIdentity(moved(x), id_to_device[x])
             /\ Empty(id_to_device[x]) => Empty(moved(x))
  <2>1. id_to_device[x] \in Device
    BY <1>1
  <2> QED
    BY <2>1 DEF Device, SameIdentity, Empty
<1>4. \A x \in DeviceId \ {id} :
         /\ id_to_device'[x].active = id_to_device[x].active
         /\ SameIdentity(id_to_device'[x], id_to_device[x])
         /\ Empty(id_to_device[x]) => Empty(id_to_device'[x])
  BY <1>2, <1>3 DEF SameIdentity
<1>5. ~ NoDevice.active
  BY DEF NoDevice
<1> QED
  BY <1>2, <1>4, <1>5 DEF Active

\* A call that updates a record of a registered device leaves it registered
\* and leaves every other record alone.
LEMMA RecordCallEffect ==
    ASSUME TypeOK, NEW sender \in Sender, NEW id \in DeviceId, RecordCall(sender, id)
    PROVE  /\ id_to_device[id].active
           /\ \A x \in DeviceId :
                 /\ id_to_device'[x].active = id_to_device[x].active
                 /\ SameIdentity(id_to_device'[x], id_to_device[x])
           /\ \A x \in DeviceId \ {id} : id_to_device'[x] = id_to_device[x]
           /\ Active' = Active
           /\ UNCHANGED registryVars
<1> DEFINE rec == id_to_device[id]
<1>0. rec \in Device /\ id_to_device \in [DeviceId -> Device]
  BY DEF TypeOK
<1> DEFINE good(new) == /\ new.active = rec.active
                        /\ SameIdentity(new, rec)
<1>1. /\ rec.active
      /\ UNCHANGED registryVars
  BY DEF RecordCall, UpdateAddr, UpdatePublicKey, UpdateSignKey, PushData, MayMutate
<1>2. \E new : good(new) /\ id_to_device' = [id_to_device EXCEPT ![id] = new]
  <2>1. ASSUME NEW type, NEW host, UpdateAddr(sender, id, type, host) PROVE <1>2
    <3> DEFINE new == [rec EXCEPT !.addrType = type, !.addr = host]
    <3>1. id_to_device' = [id_to_device EXCEPT ![id] = new]
      BY <1>0, <2>1 DEF UpdateAddr
    <3>2. good(new)
      BY <1>0 DEF Device, SameIdentity
    <3> QED
      BY <3>1, <3>2
  <2>2. ASSUME NEW key, UpdatePublicKey(sender, id, key) PROVE <1>2
    <3> DEFINE new == [rec EXCEPT !.publicKey = key]
    <3>1. id_to_device' = [id_to_device EXCEPT ![id] = new]
      BY <1>0, <2>2 DEF UpdatePublicKey
    <3>2. good(new)
      BY <1>0 DEF Device, SameIdentity
    <3> QED
      BY <3>1, <3>2
  <2>3. ASSUME NEW key, UpdateSignKey(sender, id, key) PROVE <1>2
    <3> DEFINE new == [rec EXCEPT !.signPublicKey = key]
    <3>1. id_to_device' = [id_to_device EXCEPT ![id] = new]
      BY <1>0, <2>3 DEF UpdateSignKey
    <3>2. good(new)
      BY <1>0 DEF Device, SameIdentity
    <3> QED
      BY <3>1, <3>2
  <2>4. ASSUME NEW payload, PushData(sender, id, payload) PROVE <1>2
    <3> DEFINE new == [rec EXCEPT !.data = payload]
    <3>1. id_to_device' = [id_to_device EXCEPT ![id] = new]
      BY <1>0, <2>4 DEF PushData
    <3>2. good(new)
      BY <1>0 DEF Device, SameIdentity
    <3> QED
      BY <3>1, <3>2
  <2> QED
    BY <2>1, <2>2, <2>3, <2>4 DEF RecordCall
<1>3. PICK new : good(new) /\ id_to_device' = [id_to_device EXCEPT ![id] = new]
  BY <1>2
<1>4. /\ id_to_device'[id] = new
      /\ \A x \in DeviceId \ {id} : id_to_device'[x] = id_to_device[x]
  BY <1>0, <1>3
<1>5. \A x \in DeviceId :
         /\ id_to_device'[x].active = id_to_device[x].active
         /\ SameIdentity(id_to_device'[x], id_to_device[x])
  BY <1>3, <1>4 DEF SameIdentity
<1> QED
  BY <1>1, <1>4, <1>5 DEF Active

\* update_data_receiver writes one field of a record, which need not be that
\* of a registered device.
LEMMA UpdateDataReceiverEffect ==
    ASSUME TypeOK, NEW sender \in Sender, NEW id \in DeviceId, NEW receiver \in DeviceId,
           UpdateDataReceiver(sender, id, receiver)
    PROVE  /\ \A x \in DeviceId :
                 /\ id_to_device'[x].active = id_to_device[x].active
                 /\ SameIdentity(id_to_device'[x], id_to_device[x])
                 /\ Empty(id_to_device[x]) => Empty(id_to_device'[x])
           /\ Active' = Active
<1> DEFINE rec == id_to_device[id]
           new == [rec EXCEPT !.dataReceiverID = receiver]
<1>1. rec \in Device /\ id_to_device \in [DeviceId -> Device]
  BY DEF TypeOK
<1>2. id_to_device' = [id_to_device EXCEPT ![id] = new]
  BY <1>1 DEF UpdateDataReceiver
<1>3. /\ new.active = rec.active
      /\ SameIdentity(new, rec)
      /\ Empty(rec) => Empty(new)
  BY <1>1 DEF Device, SameIdentity, Empty
<1> HIDE DEF new
<1>4. \A x \in DeviceId : id_to_device'[x] = IF x = id THEN new ELSE id_to_device[x]
  BY <1>1, <1>2
<1>5. \A x \in DeviceId :
         /\ id_to_device'[x].active = id_to_device[x].active
         /\ SameIdentity(id_to_device'[x], id_to_device[x])
         /\ Empty(id_to_device[x]) => Empty(id_to_device'[x])
  BY <1>3, <1>4 DEF SameIdentity
<1> QED
  BY <1>5 DEF Active

-----------------------------------------------------------------------------
(* The invariant                                                           *)

\* Ids are conserved only because a pooled address is never address(0): the
\* record of a removed device holds address(0), so remove_gateway, which asks
\* nothing else of the id it is given, finds no gateway behind it and does not
\* put the id on the stack again.
IdInv ==
    /\ TypeOK
    /\ IdConservation
    /\ RecycledIdsStartEmpty
    /\ DefaultReceiverLive
    /\ gateway_pool \subseteq ClientAddr

\* The initial state has no id in use and none on the stack.
LEMMA IdInvInit == Init => IdInv
<1> SUFFICES ASSUME Init PROVE IdInv
  OBVIOUS
<1>1. TypeOK
  BY InitType
<1>2. \A id \in DeviceId : id_to_device[id] = NoDevice
  BY DEF Init
<1>3. ~ NoDevice.active /\ Empty(NoDevice)
  BY DEF NoDevice, Empty
<1>4. Active = {}
  BY <1>2, <1>3 DEF Active
<1>5. IdConservation
  <2>1. IsInjective(<<>>)
    BY DEF IsInjective
  <2>2. 1..(next_device_id - 1) = {}
    BY DEF Init
  <2> QED
    BY <1>4, <2>1, <2>2, EmptyStack DEF IdConservation, Init
<1>6. RecycledIdsStartEmpty
  BY <1>1, <1>2, <1>3, EmptyIds
<1> QED
  BY <1>1, <1>5, <1>6 DEF IdInv, DefaultReceiverLive, Init

\* add_device moves the id it takes, and only that id, into use; it was not
\* in use before.
LEMMA AddDeviceIds ==
    ASSUME IdInv, TypeOK', NEW sender \in Sender, NEW a \in ClientAddr, NEW managed \in BOOLEAN,
           NEW gateway \in BOOLEAN, AddDevice(sender, a, managed, gateway)
    PROVE  IdInv' /\ NewDeviceId \notin Active
<1> DEFINE s == free_device_id_stack
           n == next_device_id
<1>1. TypeOK /\ IdConservation /\ s \in Seq(DeviceId) /\ n \in Nat \ {0}
  BY DEF IdInv, TypeOK
<1>2. /\ NewDeviceId \in DeviceId
      /\ id_to_device'[NewDeviceId].active
      /\ \A x \in DeviceId \ {NewDeviceId} : id_to_device'[x] = id_to_device[x]
      /\ Active' = Active \union {NewDeviceId}
  BY <1>1, AddDeviceEffect
<1>3. IdConservation' /\ NewDeviceId \notin Active
  <2>1. CASE s # <<>>
    <3>1. NewDeviceId = Last(s) /\ s' = Front(s) /\ n' = n
      BY <2>1 DEF AddDevice, TakeDeviceId, NewDeviceId
    <3>2. /\ Last(s) \in Range(s)
          /\ Range(s') = Range(s) \ {Last(s)}
          /\ IsInjective(s')
      BY <1>1, <2>1, <3>1, PopProperties DEF IdConservation
    <3> QED
      BY <1>1, <1>2, <3>1, <3>2 DEF IdConservation
  <2>2. CASE s = <<>>
    <3>1. NewDeviceId = n /\ s' = s /\ n' = n + 1
      BY <2>2 DEF AddDevice, TakeDeviceId, NewDeviceId
    <3>2. Range(s) = {}
      BY <2>2, EmptyStack
    <3>3. 1..(n' - 1) = (1..(n - 1)) \union {n} /\ n \notin 1..(n - 1)
      BY <1>1, <3>1
    <3>4. Active = 1..(n - 1)
      BY <1>1, <3>2 DEF IdConservation
    <3> QED
      BY <1>1, <1>2, <3>1, <3>2, <3>3, <3>4 DEF IdConservation
  <2> QED
    BY <2>1, <2>2
<1>4. RecycledIdsStartEmpty'
  <2>1. \A id \in DeviceId : ~ id_to_device[id].active => Empty(id_to_device[id])
    BY <1>1, EmptyIds DEF IdInv
  <2>2. \A id \in DeviceId : ~ id_to_device'[id].active => Empty(id_to_device'[id])
    BY <1>2, <2>1
  <2> QED
    BY <2>2, EmptyIdsNext
<1>5. DefaultReceiverLive' /\ gateway_pool' \subseteq ClientAddr
  BY <1>2 DEF IdInv, DefaultReceiverLive, AddDevice
<1> QED
  BY <1>3, <1>4, <1>5 DEF IdInv

\* Deleting the record of an id in use and pushing that id moves it from use
\* to the stack, resets the default receiver if it was the one, and leaves
\* the deleted record empty.
LEMMA ReleasedIds ==
    ASSUME IdInv, TypeOK', NEW list \in Seq(DeviceId), list # <<>>, NEW id \in Active,
           id_to_device' = Unlisted(list, id), Release(id), gateway_pool' \subseteq gateway_pool
    PROVE  IdInv' /\ Active' = Active \ {id}
<1> DEFINE s == free_device_id_stack
<1>1. TypeOK /\ IdConservation /\ id \in DeviceId /\ s \in Seq(DeviceId)
  BY DEF IdInv, TypeOK, Active
<1>2. /\ id_to_device'[id] = NoDevice
      /\ \A x \in DeviceId \ {id} :
            /\ id_to_device'[x].active = id_to_device[x].active
            /\ Empty(id_to_device[x]) => Empty(id_to_device'[x])
      /\ Active' = Active \ {id}
  BY <1>1, UnlistedEffect
<1>3. IdConservation'
  <2>1. id \notin Range(s)
    BY DEF IdInv, IdConservation
  <2>2. s' = Append(s, id) /\ next_device_id' = next_device_id
    BY DEF Release
  <2>3. Range(s') = Range(s) \union {id} /\ IsInjective(s')
    BY <1>1, <2>1, <2>2, PushProperties DEF IdConservation
  <2> QED
    BY <1>1, <1>2, <2>2, <2>3 DEF IdConservation
<1>4. RecycledIdsStartEmpty'
  <2>1. \A x \in DeviceId : ~ id_to_device[x].active => Empty(id_to_device[x])
    BY <1>1, EmptyIds DEF IdInv
  <2>2. Empty(NoDevice)
    BY DEF Empty, NoDevice
  <2>3. \A x \in DeviceId : ~ id_to_device'[x].active => Empty(id_to_device'[x])
    BY <1>2, <2>1, <2>2
  <2> QED
    BY <2>3, EmptyIdsNext
<1>5. DefaultReceiverLive' /\ gateway_pool' \subseteq ClientAddr
  BY <1>2 DEF IdInv, DefaultReceiverLive, Release
<1> QED
  BY <1>2, <1>3, <1>4, <1>5 DEF IdInv

\* The record moved to the freed place and the array access both need a list
\* that is not empty.
LEMMA RemoveDeviceIds ==
    ASSUME IdInv, TypeOK', NEW sender \in Sender, NEW id \in DeviceId, RemoveDevice(sender, id)
    PROVE  IdInv' /\ id \in Active /\ Active' = Active \ {id}
<1>1. TypeOK /\ authorized_devices \in Seq(DeviceId)
  BY DEF IdInv, TypeOK
<1>2. id_to_device[id].authorizedDevicesIndex \in Nat
  BY <1>1 DEF TypeOK, Device
<1>3. authorized_devices # <<>>
  BY <1>1, <1>2, SwapPopProperties DEF RemoveDevice
<1>4. id \in Active
  BY DEF RemoveDevice, Active
<1>5. /\ id_to_device' = Unlisted(authorized_devices, id)
      /\ Release(id)
      /\ gateway_pool' = gateway_pool
  BY DEF RemoveDevice
<1> QED
  BY <1>1, <1>3, <1>4, <1>5, ReleasedIds

\* A pooled address is a client's, so the id that holds it is in use although
\* remove_gateway does not ask for that.
LEMMA RemoveGatewayIds ==
    ASSUME IdInv, TypeOK', NEW sender \in Sender, NEW id \in DeviceId, RemoveGateway(sender, id)
    PROVE  IdInv' /\ id \in Active /\ Active' = Active \ {id}
<1>1. TypeOK /\ authorized_gateways \in Seq(DeviceId)
  BY DEF IdInv, TypeOK
<1>2. id_to_device[id].authorizedDevicesIndex \in Nat
  BY <1>1 DEF TypeOK, Device
<1>3. authorized_gateways # <<>>
  BY <1>1, <1>2, SwapPopProperties DEF RemoveGateway
<1>4. id \in Active
  <2>1. id_to_device[id].eth_addr \in gateway_pool
    BY DEF RemoveGateway
  <2>2. id_to_device[id].eth_addr # ZeroAddr
    BY <2>1 DEF IdInv
  <2> QED
    BY <1>1, <2>2, EmptyIds DEF IdInv, Empty, Active
<1>5. /\ id_to_device' = Unlisted(authorized_gateways, id)
      /\ Release(id)
      /\ gateway_pool' \subseteq gateway_pool
  BY DEF RemoveGateway
<1> QED
  BY <1>1, <1>3, <1>4, <1>5, ReleasedIds

\* A call that neither adds nor removes a device and changes no record of an
\* id that is not in use, except its receiver or its index.
LEMMA UpdateIds ==
    ASSUME IdInv, TypeOK', UNCHANGED <<idVars, gateway_pool>>,
           \A x \in DeviceId : /\ id_to_device'[x].active = id_to_device[x].active
                               /\ ~ id_to_device[x].active =>
                                     (Empty(id_to_device[x]) => Empty(id_to_device'[x])),
           defaultDataReceiver' = defaultDataReceiver \/ defaultDataReceiver' \in Active
    PROVE  IdInv' /\ Active' = Active
<1>1. Active' = Active
  BY DEF Active
<1>2. IdConservation'
  BY <1>1 DEF IdInv, IdConservation, idVars
<1>3. RecycledIdsStartEmpty'
  <2>1. \A x \in DeviceId : ~ id_to_device[x].active => Empty(id_to_device[x])
    BY EmptyIds DEF IdInv
  <2>2. \A x \in DeviceId : ~ id_to_device'[x].active => Empty(id_to_device'[x])
    BY <2>1
  <2> QED
    BY <2>2, EmptyIdsNext
<1>4. DefaultReceiverLive' /\ gateway_pool' \subseteq ClientAddr
  BY <1>1 DEF IdInv, DefaultReceiverLive
<1> QED
  BY <1>1, <1>2, <1>3, <1>4 DEF IdInv

\* Every transaction keeps IdInv, and a device that stays registered keeps its
\* owner and its kind.
LEMMA IdInvStep ==
    ASSUME IdInv, TypeOK', [Next]_vars
    PROVE  /\ IdInv'
           /\ \A x \in DeviceId : id_to_device[x].active /\ id_to_device'[x].active =>
                 SameIdentity(id_to_device'[x], id_to_device[x])
<1> DEFINE kept == \A x \in DeviceId : id_to_device[x].active /\ id_to_device'[x].active =>
                       SameIdentity(id_to_device'[x], id_to_device[x])
<1>0. TypeOK
  BY DEF IdInv
<1>1. ASSUME UNCHANGED <<registryVars, id_to_device>> PROVE IdInv' /\ kept
  BY <1>1, UpdateIds DEF registryVars, SameIdentity
<1>2. ASSUME NEW sender \in Sender, NEW a \in ClientAddr, NEW managed \in BOOLEAN,
             NEW gateway \in BOOLEAN, AddDevice(sender, a, managed, gateway)
      PROVE  IdInv' /\ kept
  <2>1. IdInv' /\ NewDeviceId \notin Active
    BY <1>2, AddDeviceIds
  <2>2. /\ NewDeviceId \in DeviceId
        /\ \A x \in DeviceId \ {NewDeviceId} : id_to_device'[x] = id_to_device[x]
    BY <1>0, <1>2, AddDeviceEffect
  <2> QED
    BY <2>1, <2>2 DEF Active, SameIdentity
<1>3. ASSUME NEW sender \in Sender, NEW id \in DeviceId,
             RemoveDevice(sender, id) \/ RemoveGateway(sender, id)
      PROVE  IdInv' /\ kept
  <2>1. IdInv' /\ Active' = Active \ {id}
    BY <1>3, RemoveDeviceIds, RemoveGatewayIds
  <2>2. \A x \in DeviceId \ {id} : SameIdentity(id_to_device'[x], id_to_device[x])
    <3>1. id_to_device[id] \in Device
      BY <1>0 DEF TypeOK
    <3>2. id_to_device[id].authorizedDevicesIndex \in Nat
      BY <3>1 DEF Device
    <3>3. PICK list \in {authorized_devices, authorized_gateways} :
             /\ id_to_device' = Unlisted(list, id)
             /\ id_to_device[id].authorizedDevicesIndex < Len(list)
      BY <1>3 DEF RemoveDevice, RemoveGateway
    <3>4. list \in Seq(DeviceId)
      BY <1>0, <3>3 DEF TypeOK
    <3>5. list # <<>>
      BY <3>2, <3>3, <3>4, SwapPopProperties
    <3> QED
      BY <1>0, <3>3, <3>4, <3>5, UnlistedEffect
  <2>3. ~ id_to_device'[id].active
    BY <2>1 DEF Active
  <2> QED
    BY <2>1, <2>2, <2>3
<1>4. ASSUME NEW sender \in Sender, NEW id \in DeviceId, NEW receiver \in DeviceId,
             UpdateDataReceiver(sender, id, receiver)
      PROVE  IdInv' /\ kept
  BY <1>0, <1>4, UpdateDataReceiverEffect, UpdateIds DEF UpdateDataReceiver, registryVars
<1>5. ASSUME NEW sender \in Sender, NEW receiver \in DeviceId,
             SetDefaultDataReceiver(sender, receiver)
      PROVE  IdInv' /\ kept
  BY <1>5, UpdateIds DEF SetDefaultDataReceiver, Active, SameIdentity
<1>6. ASSUME NEW sender \in Sender, NEW a \in Addr,
             AuthorizeAdmin(sender, a) \/ DeauthorizeAdmin(sender, a)
      PROVE  IdInv' /\ kept
  BY <1>1, <1>6 DEF AuthorizeAdmin, DeauthorizeAdmin
<1>7. ASSUME NEW sender \in Sender, NEW id \in DeviceId, RecordCall(sender, id)
      PROVE  IdInv' /\ kept
  BY <1>0, <1>7, RecordCallEffect, UpdateIds DEF registryVars
<1>8. CASE UNCHANGED vars
  BY <1>1, <1>8 DEF vars
<1> QED
  BY <1>2, <1>3, <1>4, <1>5, <1>6, <1>7, <1>8 DEF Next, AdminCall

-----------------------------------------------------------------------------
(* The theorems                                                            *)

\* Every reachable state satisfies the invariants of ids and administrators.
LEMMA IdInvHolds == Spec => [](AdminInv /\ IdInv)
<1>1. AdminInv /\ IdInv /\ [Next]_vars => (AdminInv /\ IdInv)'
  BY AdminInvStep, IdInvStep DEF AdminInv
<1> QED
  BY <1>1, AdminInvInit, IdInvInit, PTL DEF Spec

\* In whatever order devices and gateways are added and removed, every id
\* below next_device_id is in use or on the free stack, never both and never
\* twice, for any number of ids and addresses.
THEOREM IdsConserved == Spec => []IdConservation
<1>1. IdInv => IdConservation
  BY DEF IdInv
<1> QED
  BY <1>1, IdInvHolds, PTL

\* No key, payload, address or owner survives the removal of a device into
\* the next registration of its id.
THEOREM RecycledEmpty == Spec => []RecycledIdsStartEmpty
<1>1. IdInv => RecycledIdsStartEmpty
  BY DEF IdInv
<1> QED
  BY <1>1, IdInvHolds, PTL

\* No removal leaves the default data receiver dangling.
THEOREM DefaultReceiverExists == Spec => []DefaultReceiverLive
<1>1. IdInv => DefaultReceiverLive
  BY DEF IdInv
<1> QED
  BY <1>1, IdInvHolds, PTL

\* No transaction changes the owner or the kind of a device that stays
\* registered.
THEOREM IdentityKept == Spec => IdentityStable
<1>1. AdminInv /\ IdInv /\ [Next]_vars =>
         [\A id \in DeviceId :
             id_to_device[id].active /\ id_to_device'[id].active =>
                /\ id_to_device'[id].eth_addr = id_to_device[id].eth_addr
                /\ id_to_device'[id].is_gateway = id_to_device[id].is_gateway
                /\ id_to_device'[id].gateway_managed = id_to_device[id].gateway_managed]_vars
  BY AdminInvStep, IdInvStep DEF AdminInv, SameIdentity
<1> QED
  BY <1>1, IdInvHolds, PTL DEF Spec, IdentityStable

-----------------------------------------------------------------------------
(* References to an id                                                     *)

\* A record with an address says so, and its removal unmaps the address.
Addressed(rec) == rec.eth_addr # ZeroAddr => rec.has_eth_addr
AllAddressed == \A id \in DeviceId : Addressed(id_to_device[id])

Managed(a) == \E sender \in Sender, gateway \in BOOLEAN : AddDevice(sender, a, TRUE, gateway)
StaysAstray(a) == Strays(a) /\ addr_to_id'[a] = addr_to_id[a]

\* What add_device writes about an address.
LEMMA AddDeviceAddress ==
    ASSUME TypeOK, NEW sender \in Sender, NEW c \in ClientAddr, NEW managed \in BOOLEAN,
           NEW gateway \in BOOLEAN, AddDevice(sender, c, managed, gateway)
    PROVE  LET rec == id_to_device[NewDeviceId]
               new == id_to_device'[NewDeviceId]
           IN  /\ new.eth_addr = IF managed THEN rec.eth_addr ELSE c
               /\ new.has_eth_addr = ~ managed
               /\ addr_to_id' = [addr_to_id EXCEPT ![c] = NewDeviceId]
<1> DEFINE index == Len(IF gateway /\ ~ managed THEN authorized_gateways ELSE authorized_devices)
           rec == id_to_device[NewDeviceId]
           new == Registered(rec, c, managed, gateway /\ ~ managed, index)
<1>1. NewDeviceId \in DeviceId /\ rec \in Device /\ id_to_device \in [DeviceId -> Device]
  BY AddDeviceEffect DEF TypeOK
<1>2. id_to_device'[NewDeviceId] = new /\ addr_to_id' = [addr_to_id EXCEPT ![c] = NewDeviceId]
  BY <1>1 DEF AddDevice
<1>3. new.eth_addr = (IF managed THEN rec.eth_addr ELSE c) /\ new.has_eth_addr = ~ managed
  BY <1>1 DEF Registered, Device
<1> QED
  BY <1>2, <1>3

LEMMA AddReferences ==
    ASSUME IdInv, TypeOK', AllAddressed, NEW sender \in Sender, NEW c \in ClientAddr,
           NEW managed \in BOOLEAN, NEW gateway \in BOOLEAN, AddDevice(sender, c, managed, gateway)
    PROVE  /\ AllAddressed'
           /\ \A a \in Sender : Strays(a)' => StaysAstray(a) \/ Managed(a)
<1> DEFINE id == NewDeviceId
<1>1. /\ TypeOK /\ id \in DeviceId /\ addr_to_id \in [Addr -> DeviceId]
      /\ \A x \in DeviceId \ {id} : id_to_device'[x] = id_to_device[x]
  BY AddDeviceEffect DEF IdInv, TypeOK
<1>2. id_to_device[id].eth_addr = ZeroAddr
  <2>1. id \notin Active
    BY AddDeviceIds
  <2> QED
    BY <1>1, <2>1, EmptyIds DEF IdInv, Active, Empty
<1>3. /\ id_to_device'[id].eth_addr = IF managed THEN ZeroAddr ELSE c
      /\ id_to_device'[id].has_eth_addr = ~ managed
      /\ addr_to_id' = [addr_to_id EXCEPT ![c] = id]
  BY <1>1, <1>2, AddDeviceAddress
<1> HIDE DEF id
<1>4. AllAddressed'
  BY <1>1, <1>3 DEF AllAddressed, Addressed
<1>5. ASSUME NEW a \in Sender, Strays(a)' PROVE StaysAstray(a) \/ Managed(a)
  <2>1. a \in Addr /\ a # ZeroAddr
    BY DEF Sender
  <2>2. CASE a = c /\ managed
    BY <2>2 DEF Managed
  <2>3. CASE a = c /\ ~ managed
    <3>1. addr_to_id'[a] = id /\ id_to_device'[id].eth_addr = a
      BY <1>1, <1>3, <2>1, <2>3
    <3> QED
      BY <1>5, <3>1 DEF Strays
  <2>4. CASE a # c
    <3>1. addr_to_id'[a] = addr_to_id[a] /\ addr_to_id[a] \in DeviceId
      BY <1>1, <1>3, <2>1, <2>4
    <3>2. addr_to_id[a] # 0 /\ id_to_device'[addr_to_id[a]].eth_addr # a
      BY <1>5, <3>1 DEF Strays
    <3>3. id_to_device[addr_to_id[a]].eth_addr # a
      BY <1>1, <1>2, <2>1, <3>1, <3>2
    <3> QED
      BY <3>1, <3>2, <3>3 DEF Strays, StaysAstray
  <2> QED
    BY <2>2, <2>3, <2>4
<1> QED
  BY <1>4, <1>5

\* Either removal unmaps the address of the record it deletes, if it has one.
LEMMA RemovalReferences ==
    ASSUME IdInv, AllAddressed, NEW sender \in Sender, NEW id \in DeviceId,
           RemoveDevice(sender, id) \/ RemoveGateway(sender, id)
    PROVE  /\ AllAddressed'
           /\ \A a \in Sender : Strays(a)' => StaysAstray(a)
<1>1. TypeOK /\ addr_to_id \in [Addr -> DeviceId] /\ id_to_device[id] \in Device
  BY DEF IdInv, TypeOK
<1>2. PICK list \in {authorized_devices, authorized_gateways} :
         /\ id_to_device' = Unlisted(list, id)
         /\ id_to_device[id].authorizedDevicesIndex < Len(list)
  BY DEF RemoveDevice, RemoveGateway
<1>3. list \in Seq(DeviceId) /\ id_to_device[id].authorizedDevicesIndex \in Nat
  BY <1>1, <1>2 DEF TypeOK, Device
<1>4. list # <<>>
  BY <1>2, <1>3, SwapPopProperties
<1>5. /\ id_to_device'[id] = NoDevice
      /\ \A x \in DeviceId \ {id} : SameIdentity(id_to_device'[x], id_to_device[x])
  BY <1>1, <1>2, <1>3, <1>4, UnlistedEffect
<1>6. AllAddressed'
  BY <1>5 DEF AllAddressed, Addressed, SameIdentity, NoDevice
<1>7. \A a \in Sender : /\ addr_to_id'[a] \in {0, addr_to_id[a]}
                        /\ id_to_device[id].eth_addr = a => addr_to_id'[a] = 0
  BY <1>1 DEF Sender, AllAddressed, Addressed, RemoveDevice, RemoveGateway
<1>8. ASSUME NEW a \in Sender, Strays(a)' PROVE StaysAstray(a)
  <2>1. /\ addr_to_id'[a] = addr_to_id[a] /\ addr_to_id[a] \in DeviceId /\ addr_to_id[a] # 0
        /\ id_to_device[id].eth_addr # a /\ id_to_device'[addr_to_id[a]].eth_addr # a
    BY <1>1, <1>7, <1>8 DEF Strays, Sender
  <2>2. id_to_device[addr_to_id[a]].eth_addr # a
    BY <1>5, <2>1 DEF SameIdentity
  <2> QED
    BY <2>1, <2>2 DEF Strays, StaysAstray
<1> QED
  BY <1>6, <1>8

LEMMA ReferencesStep ==
    ASSUME IdInv, TypeOK', AllAddressed, [Next]_vars
    PROVE  /\ AllAddressed'
           /\ \A a \in Sender : Strays(a)' => StaysAstray(a) \/ Managed(a)
<1> DEFINE kept == /\ AllAddressed'
                   /\ \A a \in Sender : Strays(a)' => StaysAstray(a) \/ Managed(a)
<1>0. TypeOK /\ addr_to_id \in [Addr -> DeviceId] /\ Sender \subseteq Addr
  BY DEF IdInv, TypeOK, Sender
<1>1. ASSUME addr_to_id' = addr_to_id,
             \A x \in DeviceId : SameIdentity(id_to_device'[x], id_to_device[x])
      PROVE  kept
  <2>1. AllAddressed'
    BY <1>1 DEF AllAddressed, Addressed, SameIdentity
  <2>2. ASSUME NEW a \in Sender, Strays(a)' PROVE StaysAstray(a)
    <3>1. addr_to_id[a] \in DeviceId
      BY <1>0
    <3> QED
      BY <1>1, <2>2, <3>1 DEF Strays, StaysAstray, SameIdentity
  <2> QED
    BY <2>1, <2>2
<1>2. ASSUME NEW sender \in Sender, NEW c \in ClientAddr, NEW managed \in BOOLEAN,
             NEW gateway \in BOOLEAN, AddDevice(sender, c, managed, gateway)
      PROVE  kept
  BY <1>2, AddReferences
<1>3. ASSUME NEW sender \in Sender, NEW id \in DeviceId,
             RemoveDevice(sender, id) \/ RemoveGateway(sender, id)
      PROVE  kept
  BY <1>3, RemovalReferences
<1>4. ASSUME NEW sender \in Sender, NEW id \in DeviceId, NEW receiver \in DeviceId,
             UpdateDataReceiver(sender, id, receiver)
      PROVE  kept
  BY <1>0, <1>1, <1>4, UpdateDataReceiverEffect DEF UpdateDataReceiver, registryVars
<1>5. ASSUME UNCHANGED <<addr_to_id, id_to_device>> PROVE kept
  BY <1>1, <1>5 DEF SameIdentity
<1>6. ASSUME NEW sender \in Sender, NEW receiver \in DeviceId,
             SetDefaultDataReceiver(sender, receiver)
      PROVE  kept
  BY <1>5, <1>6 DEF SetDefaultDataReceiver
<1>7. ASSUME NEW sender \in Sender, NEW a \in Addr,
             AuthorizeAdmin(sender, a) \/ DeauthorizeAdmin(sender, a)
      PROVE  kept
  BY <1>5, <1>7 DEF AuthorizeAdmin, DeauthorizeAdmin, registryVars
<1>8. ASSUME NEW sender \in Sender, NEW id \in DeviceId, RecordCall(sender, id)
      PROVE  kept
  BY <1>0, <1>1, <1>8, RecordCallEffect DEF registryVars
<1>9. CASE UNCHANGED vars
  BY <1>5, <1>9 DEF vars, registryVars
<1> QED
  BY <1>2, <1>3, <1>4, <1>6, <1>7, <1>8, <1>9 DEF Next, AdminCall

\* No reference to an id outlives its device but that of an account registered
\* as gateway managed: the default receiver is reset, and no removal and no
\* recycling makes another account lead to an id that is not its own.
THEOREM ReferencesKept == Spec => ReferencesLive
<1>1. Init => AllAddressed
  BY DEF Init, AllAddressed, Addressed, NoDevice
<1>2. (AdminInv /\ IdInv)' /\ AdminInv /\ IdInv /\ AllAddressed /\ [Next]_vars =>
         /\ AllAddressed'
         /\ [/\ DefaultReceiverLive'
             /\ \A a \in Sender : Strays(a)' =>
                   \/ Strays(a) /\ addr_to_id'[a] = addr_to_id[a]
                   \/ \E sender \in Sender, gateway \in BOOLEAN : AddDevice(sender, a, TRUE, gateway)]_vars
  BY ReferencesStep DEF AdminInv, IdInv, Managed, StaysAstray
<1> QED
  BY <1>1, <1>2, IdInvHolds, PTL DEF Spec, ReferencesLive

-----------------------------------------------------------------------------
(* Counts                                                                  *)

\* The ids in use are finitely many, and one more or less is one more or less.
LEMMA ActiveFinite ==
    /\ IsFiniteSet(Active)
    /\ Cardinality(Active) \in Nat
<1>1. IsFiniteSet(DeviceId)
  BY FS_Interval DEF DeviceId
<1>2. Active \in SUBSET DeviceId
  BY DEF Active
<1> QED
  BY <1>1, <1>2, FS_Subset, FS_CardinalityType

\* Each registration lengthens one list by one and each removal shortens one
\* by one, whichever list it is given.
LEMMA CountsStep ==
    ASSUME IdInv, TypeOK', CountsBalance, [Next]_vars
    PROVE  CountsBalance'
<1> DEFINE nd == Len(authorized_devices)
           ng == Len(authorized_gateways)
<1>0. /\ TypeOK
      /\ authorized_devices \in Seq(DeviceId)
      /\ authorized_gateways \in Seq(DeviceId)
      /\ nd \in Nat
      /\ ng \in Nat
  BY LenProperties DEF IdInv, TypeOK
<1>1. ASSUME UNCHANGED listVars, Active' = Active PROVE CountsBalance'
  BY <1>1 DEF CountsBalance, listVars
<1>2. ASSUME NEW sender \in Sender, NEW a \in ClientAddr, NEW managed \in BOOLEAN,
             NEW gateway \in BOOLEAN, AddDevice(sender, a, managed, gateway)
      PROVE  CountsBalance'
  <2>1. /\ Active' = Active \union {NewDeviceId}
        /\ NewDeviceId \notin Active
        /\ NewDeviceId \in DeviceId
    BY <1>0, <1>2, AddDeviceEffect, AddDeviceIds
  <2>2. Cardinality(Active') = Cardinality(Active) + 1
    BY <2>1, ActiveFinite, FS_AddElement
  <2>3. \/ nd' = nd + 1 /\ ng' = ng
        \/ nd' = nd /\ ng' = ng + 1
    BY <1>0, <1>2, <2>1, AppendProperties DEF AddDevice
  <2> QED
    BY <1>0, <2>2, <2>3 DEF CountsBalance
<1>3. ASSUME NEW sender \in Sender, NEW id \in DeviceId,
             RemoveDevice(sender, id) \/ RemoveGateway(sender, id)
      PROVE  CountsBalance'
  <2>1. id \in Active /\ Active' = Active \ {id}
    BY <1>3, RemoveDeviceIds, RemoveGatewayIds
  <2>2. Cardinality(Active') = Cardinality(Active) - 1
    BY <2>1, ActiveFinite, FS_RemoveElement
  <2>3. id_to_device[id].authorizedDevicesIndex \in Nat
    <3>1. id_to_device[id] \in Device
      BY <1>0 DEF TypeOK
    <3> QED
      BY <3>1 DEF Device
  <2>4. \/ nd' = nd - 1 /\ ng' = ng
        \/ nd' = nd /\ ng' = ng - 1
    BY <1>0, <1>3, <2>3, SwapPopProperties DEF RemoveDevice, RemoveGateway
  <2> QED
    BY <1>0, <2>2, <2>4 DEF CountsBalance
<1>4. ASSUME NEW sender \in Sender, NEW id \in DeviceId, NEW receiver \in DeviceId,
             UpdateDataReceiver(sender, id, receiver)
      PROVE  CountsBalance'
  BY <1>0, <1>1, <1>4, UpdateDataReceiverEffect DEF UpdateDataReceiver, registryVars
<1>5. ASSUME UNCHANGED <<listVars, id_to_device>> PROVE CountsBalance'
  BY <1>1, <1>5 DEF Active
<1>6. ASSUME NEW sender \in Sender, NEW receiver \in DeviceId,
             SetDefaultDataReceiver(sender, receiver)
      PROVE  CountsBalance'
  BY <1>5, <1>6 DEF SetDefaultDataReceiver
<1>7. ASSUME NEW sender \in Sender, NEW a \in Addr,
             AuthorizeAdmin(sender, a) \/ DeauthorizeAdmin(sender, a)
      PROVE  CountsBalance'
  BY <1>5, <1>7 DEF AuthorizeAdmin, DeauthorizeAdmin, registryVars
<1>8. ASSUME NEW sender \in Sender, NEW id \in DeviceId, RecordCall(sender, id)
      PROVE  CountsBalance'
  BY <1>0, <1>1, <1>8, RecordCallEffect DEF registryVars
<1>9. CASE UNCHANGED vars
  BY <1>5, <1>9 DEF vars, registryVars
<1> QED
  BY <1>2, <1>3, <1>4, <1>6, <1>7, <1>8, <1>9 DEF Next, AdminCall

\* get_num_devices() + get_num_gateways() is always the number of registered
\* ids, also after removals that were given the wrong kind of id.
THEOREM CountsAddUp == Spec => []CountsBalance
<1>1. Init => CountsBalance
  <2> SUFFICES ASSUME Init PROVE CountsBalance
    OBVIOUS
  <2>1. Active = {}
    BY DEF Init, Active, NoDevice
  <2> QED
    BY <2>1, FS_EmptySet DEF Init, CountsBalance
<1>2. (AdminInv /\ IdInv)' /\ AdminInv /\ IdInv /\ CountsBalance /\ [Next]_vars => CountsBalance'
  BY CountsStep DEF AdminInv
<1> QED
  BY <1>1, <1>2, IdInvHolds, PTL DEF Spec

=============================================================================
