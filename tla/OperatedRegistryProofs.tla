------------------------ MODULE OperatedRegistryProofs ------------------------
(***************************************************************************)
(* Proofs about the contract under the two rules of OperatedRegistry: the  *)
(* index lists, the gateway pool and the address mapping agree with the    *)
(* records, and the contract implements Registry, for any number of ids,   *)
(* addresses and administrators.                                           *)
(***************************************************************************)
EXTENDS OperatedRegistry, DeviceIdProofs

USE AddrAssumption, BoundAssumption

-----------------------------------------------------------------------------
(* Swap and pop                                                            *)

\* Overwriting an item of a list of distinct items with the last one and then
\* popping removes that item, and moves no other than the last.
LEMMA SwapPopRemoves ==
    ASSUME NEW S, NEW list \in Seq(S), NEW index \in Nat, index < Len(list), IsInjective(list)
    PROVE  /\ IsInjective(SwapPop(list, index))
           /\ Range(SwapPop(list, index)) = Range(list) \ {list[index + 1]}
           /\ DOMAIN SwapPop(list, index) = 1..(Len(list) - 1)
           /\ \A i \in 1..(Len(list) - 1) :
                 \/ i = index + 1 /\ SwapPop(list, index)[i] = Last(list) /\ Last(list) # list[index + 1]
                 \/ /\ i # index + 1
                    /\ SwapPop(list, index)[i] = list[i]
                    /\ list[i] # Last(list) /\ list[i] # list[index + 1]
<1> DEFINE n == Len(list)
           k == index + 1
           moved == [list EXCEPT ![k] = Last(list)]
           new == SwapPop(list, index)
<1>1. n \in Nat \ {0} /\ k \in 1..n /\ list # <<>> /\ DOMAIN list = 1..n
  BY EmptySeq, LenProperties
<1>2. Last(list) \in S /\ Last(list) = list[n]
  BY <1>1, FrontProperties DEF Last
<1>3. /\ moved \in Seq(S) /\ Len(moved) = n
      /\ \A i \in 1..n : moved[i] = IF i = k THEN Last(list) ELSE list[i]
  BY <1>1, <1>2, ExceptSeq
<1>4. moved # <<>>
  BY <1>1, <1>3, EmptySeq
<1>5. new = Front(moved)
  BY DEF SwapPop
<1> HIDE DEF moved, new, n, k
<1>6. new \in Seq(S) /\ Len(new) = n - 1 /\ \A i \in 1..(n - 1) : new[i] = moved[i]
  <2>0. moved \in Seq(S) /\ moved # <<>>
    BY <1>3, <1>4
  <2>1. /\ Front(moved) \in Seq(S)
        /\ Len(Front(moved)) = Len(moved) - 1
        /\ \A i \in 1..(Len(moved) - 1) : Front(moved)[i] = moved[i]
    BY ONLY <2>0, FrontProperties
  <2> QED
    BY <1>3, <1>5, <2>1
<1>7. DOMAIN new = 1..(n - 1)
  BY <1>6, LenProperties
<1>8. \A i, j \in 1..n : list[i] = list[j] => i = j
  BY <1>1 DEF IsInjective
<1>9. \A i \in 1..(n - 1) : i \in 1..n /\ i # n
  BY <1>1
<1>10. \A i \in 1..n : i \in 1..(n - 1) \/ i = n
  BY <1>1
<1>11. n \in 1..n
  BY <1>1
<1>12. ASSUME NEW i \in 1..(n - 1)
       PROVE  \/ i = k /\ new[i] = list[n] /\ list[n] # list[k]
              \/ i # k /\ new[i] = list[i] /\ list[i] # list[n] /\ list[i] # list[k]
  <2>1. i \in 1..n /\ i # n
    BY <1>9
  <2>2. new[i] = IF i = k THEN list[n] ELSE list[i]
    BY <1>2, <1>3, <1>6, <2>1
  <2> QED
    BY <1>1, <1>8, <1>11, <2>1, <2>2
<1>13. IsInjective(new)
  <2>1. ASSUME NEW i \in 1..(n - 1), NEW j \in 1..(n - 1), new[i] = new[j] PROVE i = j
    BY <1>8, <1>9, <1>12, <2>1
  <2> QED
    BY <1>7, <2>1 DEF IsInjective
<1>14. Range(new) = Range(list) \ {list[k]}
  <2>1. ASSUME NEW i \in 1..(n - 1) PROVE new[i] \in Range(list) \ {list[k]}
    <3>1. list[i] \in Range(list) /\ list[n] \in Range(list)
      BY <1>1, <1>9, <1>11 DEF Range
    <3> QED
      BY <1>12, <3>1
  <2>2. ASSUME NEW i \in 1..n, list[i] # list[k] PROVE \E j \in 1..(n - 1) : new[j] = list[i]
    <3>1. CASE i = n
      <4>1. k \in 1..(n - 1)
        BY <1>1, <1>10, <2>2, <3>1
      <4> QED
        BY <1>12, <3>1, <4>1
    <3>2. CASE i # n
      <4>1. i \in 1..(n - 1) /\ i # k
        BY <1>10, <2>2, <3>2
      <4> QED
        BY <1>12, <4>1
    <3> QED
      BY <3>1, <3>2
  <2>3. Range(list) = {list[i] : i \in 1..n} /\ Range(new) = {new[i] : i \in 1..(n - 1)}
    BY <1>1, <1>7 DEF Range
  <2> QED
    BY <2>1, <2>2, <2>3
<1> QED
  BY <1>2, <1>7, <1>12, <1>13, <1>14 DEF n, k, new

-----------------------------------------------------------------------------
(* The invariant                                                           *)

Devices  == {id \in DeviceId : IsDevice(id)}
Gateways == {id \in DeviceId : IsGateway(id)}

Index(id) == id_to_device[id].authorizedDevicesIndex

\* A managed device has no address, everything else has a client's.
KindOf(rec) ==
    /\ rec.has_eth_addr <=> ~ rec.gateway_managed
    /\ rec.is_gateway => rec.has_eth_addr
    /\ rec.has_eth_addr => rec.eth_addr \in ClientAddr
    /\ ~ rec.has_eth_addr => rec.eth_addr = ZeroAddr

KindsExact == \A id \in Active : KindOf(id_to_device[id])

Indexes == ListsExact /\ PoolExact /\ OwnersMapped /\ KindsExact

OperatedInv == AdminInv /\ IdInv /\ Indexes

\* Two registered clients that have an address do not share it.
LEMMA OwnersDistinct ==
    ASSUME OwnersMapped, NEW x \in Active, NEW y \in Active,
           id_to_device[x].has_eth_addr, id_to_device[y].has_eth_addr,
           id_to_device[x].eth_addr = id_to_device[y].eth_addr
    PROVE  x = y
  BY DEF OwnersMapped

LEMMA ZeroUnused ==
    ASSUME IdInv
    PROVE  0 \notin Active
<1>1. Active \subseteq 1..(next_device_id - 1)
  BY DEF IdInv, IdConservation
<1> QED
  BY <1>1

LEMMA IndexesInit == Init => Indexes
<1> SUFFICES ASSUME Init PROVE Indexes
  OBVIOUS
<1>1. \A id \in DeviceId : ~ id_to_device[id].active
  BY DEF Init, NoDevice
<1>2. Active = {} /\ Devices = {} /\ Gateways = {}
  BY <1>1 DEF Active, Devices, Gateways, IsDevice, IsGateway
<1>3. Lists(<<>>, {})
  BY EmptyStack DEF Lists, IsInjective
<1>4. ListsExact
  BY <1>2, <1>3 DEF ListsExact, Devices, Gateways, Init
<1>5. PoolExact
  BY <1>2 DEF PoolExact, Gateways, Init
<1> QED
  BY <1>2, <1>4, <1>5 DEF Indexes, OwnersMapped, KindsExact

-----------------------------------------------------------------------------
(* Calls that neither add nor remove                                       *)

SameRegistration(rec, old) ==
    /\ rec.active = old.active
    /\ rec.has_eth_addr = old.has_eth_addr
    /\ SameIdentity(rec, old)
    /\ rec.authorizedDevicesIndex = old.authorizedDevicesIndex

LEMMA IndexesKept ==
    ASSUME Indexes, UNCHANGED <<addr_to_id, gateway_pool, listVars>>,
           \A x \in DeviceId : SameRegistration(id_to_device'[x], id_to_device[x]),
           TypeOK
    PROVE  Indexes'
<1>1. \A x \in DeviceId : (IsDevice(x)' <=> IsDevice(x)) /\ (IsGateway(x)' <=> IsGateway(x))
                          /\ Index(x)' = Index(x)
                          /\ id_to_device'[x].eth_addr = id_to_device[x].eth_addr
                          /\ id_to_device'[x].has_eth_addr = id_to_device[x].has_eth_addr
                          /\ (KindOf(id_to_device[x]) => KindOf(id_to_device'[x]))
  BY DEF SameRegistration, SameIdentity, IsDevice, IsGateway, Index, KindOf
<1>2. Active' = Active
  BY DEF Active, SameRegistration
<1>3. Devices' = Devices /\ Gateways' = Gateways
  BY <1>1 DEF Devices, Gateways
<1>4. ASSUME NEW list \in Seq(DeviceId), NEW ids, Lists(list, ids)
      PROVE  \A i \in 1..Len(list) : id_to_device'[list[i]].authorizedDevicesIndex = i - 1
  <2>1. \A i \in 1..Len(list) : list[i] \in DeviceId
    BY ElementOfSeq
  <2> QED
    BY <1>1, <1>4, <2>1 DEF Lists, Index
<1>5. ListsExact'
  <2>1. Lists(authorized_devices, Devices) /\ Lists(authorized_gateways, Gateways)
    BY DEF Indexes, ListsExact, Devices, Gateways
  <2>2. authorized_devices \in Seq(DeviceId) /\ authorized_gateways \in Seq(DeviceId)
    BY DEF TypeOK
  <2>3. UNCHANGED <<authorized_devices, authorized_gateways>>
    BY DEF listVars
  <2>4. Lists(authorized_devices, Devices)'
    BY <1>3, <1>4, <2>1, <2>2, <2>3 DEF Lists
  <2>5. Lists(authorized_gateways, Gateways)'
    BY <1>3, <1>4, <2>1, <2>2, <2>3 DEF Lists
  <2> QED
    BY <2>4, <2>5 DEF ListsExact, Devices, Gateways
<1>6. PoolExact'
  <2>1. gateway_pool = {id_to_device[id].eth_addr : id \in Gateways}
    BY DEF Indexes, PoolExact, Gateways
  <2>2. \A id \in Gateways : id_to_device'[id].eth_addr = id_to_device[id].eth_addr
    BY <1>1 DEF Gateways
  <2>3. gateway_pool' = {id_to_device'[id].eth_addr : id \in Gateways'}
    BY <1>3, <2>1, <2>2
  <2> QED
    BY <2>3 DEF PoolExact, Gateways
<1>7. OwnersMapped' /\ KindsExact'
  BY <1>1, <1>2 DEF Indexes, OwnersMapped, KindsExact, Active
<1> QED
  BY <1>5, <1>6, <1>7 DEF Indexes

LEMMA RecordWritten ==
    ASSUME TypeOK, NEW id \in DeviceId, NEW new, SameRegistration(new, id_to_device[id]),
           id_to_device' = [id_to_device EXCEPT ![id] = new]
    PROVE  \A x \in DeviceId : SameRegistration(id_to_device'[x], id_to_device[x])
<1>1. \A x \in DeviceId : id_to_device'[x] = IF x = id THEN new ELSE id_to_device[x]
  BY DEF TypeOK
<1> QED
  BY <1>1 DEF SameRegistration, SameIdentity

\* A call that updates a record, or the receiver of one.
LEMMA RecordCallIndexes ==
    ASSUME TypeOK, Indexes, NEW sender \in Sender, NEW id \in DeviceId,
           RecordCall(sender, id) \/ \E receiver \in DeviceId : UpdateDataReceiver(sender, id, receiver)
    PROVE  Indexes'
<1> DEFINE rec == id_to_device[id]
<1>0. rec \in Device /\ id_to_device \in [DeviceId -> Device]
  BY DEF TypeOK
<1>1. \E new : SameRegistration(new, rec) /\ id_to_device' = [id_to_device EXCEPT ![id] = new]
  <2>1. ASSUME NEW type, NEW host, UpdateAddr(sender, id, type, host) PROVE <1>1
    <3> DEFINE new == [rec EXCEPT !.addrType = type, !.addr = host]
    <3>1. id_to_device' = [id_to_device EXCEPT ![id] = new]
      BY <1>0, <2>1 DEF UpdateAddr
    <3>2. SameRegistration(new, rec)
      BY <1>0 DEF Device, SameIdentity, SameRegistration
    <3> QED
      BY <3>1, <3>2
  <2>2. ASSUME NEW key, UpdatePublicKey(sender, id, key) PROVE <1>1
    <3> DEFINE new == [rec EXCEPT !.publicKey = key]
    <3>1. id_to_device' = [id_to_device EXCEPT ![id] = new]
      BY <1>0, <2>2 DEF UpdatePublicKey
    <3>2. SameRegistration(new, rec)
      BY <1>0 DEF Device, SameIdentity, SameRegistration
    <3> QED
      BY <3>1, <3>2
  <2>3. ASSUME NEW key, UpdateSignKey(sender, id, key) PROVE <1>1
    <3> DEFINE new == [rec EXCEPT !.signPublicKey = key]
    <3>1. id_to_device' = [id_to_device EXCEPT ![id] = new]
      BY <1>0, <2>3 DEF UpdateSignKey
    <3>2. SameRegistration(new, rec)
      BY <1>0 DEF Device, SameIdentity, SameRegistration
    <3> QED
      BY <3>1, <3>2
  <2>4. ASSUME NEW payload, PushData(sender, id, payload) PROVE <1>1
    <3> DEFINE new == [rec EXCEPT !.data = payload]
    <3>1. id_to_device' = [id_to_device EXCEPT ![id] = new]
      BY <1>0, <2>4 DEF PushData
    <3>2. SameRegistration(new, rec)
      BY <1>0 DEF Device, SameIdentity, SameRegistration
    <3> QED
      BY <3>1, <3>2
  <2>5. ASSUME NEW receiver, UpdateDataReceiver(sender, id, receiver) PROVE <1>1
    <3> DEFINE new == [rec EXCEPT !.dataReceiverID = receiver]
    <3>1. id_to_device' = [id_to_device EXCEPT ![id] = new]
      BY <1>0, <2>5 DEF UpdateDataReceiver
    <3>2. SameRegistration(new, rec)
      BY <1>0 DEF Device, SameIdentity, SameRegistration
    <3> QED
      BY <3>1, <3>2
  <2> QED
    BY <2>1, <2>2, <2>3, <2>4, <2>5 DEF RecordCall
<1>2. \A x \in DeviceId : SameRegistration(id_to_device'[x], id_to_device[x])
  BY <1>1, RecordWritten
<1>3. UNCHANGED registryVars
  BY RecordCallEffect DEF UpdateDataReceiver
<1> QED
  BY <1>2, <1>3, IndexesKept DEF registryVars

LEMMA AsideIndexes ==
    ASSUME TypeOK, Indexes, UNCHANGED <<addr_to_id, gateway_pool, listVars, id_to_device>>
    PROVE  Indexes'
  BY IndexesKept DEF SameRegistration, SameIdentity

-----------------------------------------------------------------------------
(* Adding and removing in an index list                                    *)

\* Lists over any set of records.
Listed(records, list, ids) ==
    /\ IsInjective(list)
    /\ Range(list) = ids
    /\ \A i \in 1..Len(list) : records[list[i]].authorizedDevicesIndex = i - 1

LEMMA ListsListed ==
    /\ ListsExact <=> /\ Listed(id_to_device, authorized_devices, Devices)
                      /\ Listed(id_to_device, authorized_gateways, Gateways)
    /\ ListsExact' <=> /\ Listed(id_to_device', authorized_devices', Devices')
                       /\ Listed(id_to_device', authorized_gateways', Gateways')
BY DEF ListsExact, Lists, Listed, Devices, Gateways

\* A list stays exact when its ids keep their indexes.
LEMMA SameIndexes ==
    ASSUME NEW list \in Seq(DeviceId), NEW ids, NEW records, NEW others,
           Listed(records, list, ids),
           \A x \in ids : others[x].authorizedDevicesIndex = records[x].authorizedDevicesIndex
    PROVE  Listed(others, list, ids)
<1>1. DOMAIN list = 1..Len(list)
  BY LenProperties
<1>2. \A i \in 1..Len(list) : list[i] \in ids
  BY <1>1 DEF Listed, Range
<1> QED
  BY <1>2 DEF Listed

LEMMA AppendListed ==
    ASSUME NEW list \in Seq(DeviceId), NEW ids, NEW records, NEW id \in DeviceId,
           Listed(records, list, ids), id \notin ids,
           records[id].authorizedDevicesIndex = Len(list)
    PROVE  Listed(records, Append(list, id), ids \union {id})
<1> DEFINE new == Append(list, id)
<1>1. Len(list) \in Nat /\ DOMAIN list = 1..Len(list)
  BY LenProperties
<1>2. /\ Len(new) = Len(list) + 1
      /\ \A i \in 1..Len(list) : new[i] = list[i]
      /\ new[Len(list) + 1] = id
  BY <1>1, AppendProperties
<1>3. Range(new) = ids \union {id} /\ IsInjective(new)
  BY PushProperties DEF Listed
<1> HIDE DEF new
<1>4. ASSUME NEW i \in 1..(Len(list) + 1) PROVE records[new[i]].authorizedDevicesIndex = i - 1
  <2>1. CASE i \in 1..Len(list)
    BY <1>2, <2>1 DEF Listed
  <2>2. CASE i = Len(list) + 1
    BY <1>1, <1>2, <2>2
  <2> QED
    BY <1>1, <2>1, <2>2
<1>5. Listed(records, new, ids \union {id})
  BY <1>2, <1>3, <1>4 DEF Listed
<1> QED
  BY <1>5 DEF new

\* What removing an id from a list does to the records: UnlistedEffect, with
\* the fields the indexes are about.
LEMMA UnlistedRecords ==
    ASSUME TypeOK, NEW list \in Seq(DeviceId), list # <<>>, NEW id \in DeviceId,
           id_to_device' = Unlisted(list, id)
    PROVE  /\ id_to_device'[id] = NoDevice
           /\ \A x \in DeviceId \ {id} :
                 /\ id_to_device'[x].active = id_to_device[x].active
                 /\ SameIdentity(id_to_device'[x], id_to_device[x])
                 /\ id_to_device'[x].has_eth_addr = id_to_device[x].has_eth_addr
                 /\ id_to_device'[x].authorizedDevicesIndex = IF x = Last(list) THEN Index(id) ELSE Index(x)
<1> DEFINE moved(x) == [id_to_device[x] EXCEPT !.authorizedDevicesIndex = Index(id)]
<1>1. Last(list) \in DeviceId /\ id_to_device \in [DeviceId -> Device]
  BY FrontProperties DEF TypeOK
<1>2. /\ id_to_device'[id] = NoDevice
      /\ \A x \in DeviceId \ {id} :
            id_to_device'[x] = IF x = Last(list) THEN moved(x) ELSE id_to_device[x]
  BY <1>1 DEF Unlisted, Index
<1>3. ASSUME NEW x \in DeviceId
      PROVE  /\ moved(x).active = id_to_device[x].active
             /\ SameIdentity(moved(x), id_to_device[x])
             /\ moved(x).has_eth_addr = id_to_device[x].has_eth_addr
             /\ moved(x).authorizedDevicesIndex = Index(id)
  <2>1. id_to_device[x] \in Device
    BY <1>1
  <2> QED
    BY <2>1 DEF Device, SameIdentity
<1> HIDE DEF moved
<1> QED
  BY <1>2, <1>3 DEF SameIdentity, Index

LEMMA RemovalListed ==
    ASSUME TypeOK, NEW list \in Seq(DeviceId), NEW ids, NEW id \in DeviceId, id \in ids,
           Listed(id_to_device, list, ids), id_to_device' = Unlisted(list, id)
    PROVE  /\ list # <<>> /\ Last(list) \in ids
           /\ Listed(id_to_device', SwapPop(list, Index(id)), ids \ {id})
<1> DEFINE n == Len(list)
           new == SwapPop(list, Index(id))
<1>1. n \in Nat /\ DOMAIN list = 1..n
  BY LenProperties
<1>2. PICK p \in 1..n : list[p] = id
  BY <1>1 DEF Listed, Range
<1>3. Index(id) = p - 1 /\ Index(id) \in Nat /\ Index(id) < n /\ Index(id) + 1 = p
  BY <1>1, <1>2 DEF Listed, Index
<1>4. list # <<>>
  BY <1>1, <1>3, SwapPopProperties
<1>5. Last(list) = list[n] /\ n \in 1..n
  BY <1>1, <1>2 DEF Last
<1>6. Last(list) \in ids
  BY <1>1, <1>5 DEF Listed, Range
<1>7. /\ IsInjective(new)
      /\ Range(new) = ids \ {id}
      /\ \A i \in 1..(n - 1) :
            \/ i = p /\ new[i] = Last(list) /\ Last(list) # id
            \/ i # p /\ new[i] = list[i] /\ list[i] # Last(list) /\ list[i] # id
  BY <1>2, <1>3, SwapPopRemoves DEF Listed
<1>8. Len(new) = n - 1
  BY <1>3, SwapPopProperties
<1> HIDE DEF new, n
<1>9. \A x \in DeviceId \ {id} :
         id_to_device'[x].authorizedDevicesIndex = IF x = Last(list) THEN Index(id) ELSE Index(x)
  BY <1>4, UnlistedRecords
<1>10. ASSUME NEW i \in 1..(n - 1) PROVE id_to_device'[new[i]].authorizedDevicesIndex = i - 1
  <2>1. i \in 1..n
    BY <1>1
  <2>2. list[i] \in DeviceId /\ Last(list) \in DeviceId
    BY <1>1, <1>4, <2>1, FrontProperties, ElementOfSeq DEF n
  <2>3. Index(list[i]) = i - 1
    BY <2>1 DEF Listed, Index, n
  <2> QED
    BY <1>3, <1>7, <1>9, <2>2, <2>3
<1> QED
  BY <1>4, <1>6, <1>7, <1>8, <1>10 DEF Listed, new

-----------------------------------------------------------------------------
(* Adding                                                                  *)

\* The record add_device writes.
LEMMA RegisteredRecord ==
    ASSUME IdInv, TypeOK', NEW sender \in Sender, NEW a \in ClientAddr, NEW managed \in BOOLEAN,
           NEW gateway \in BOOLEAN, AddDevice(sender, a, managed, gateway)
    PROVE  LET id  == NewDeviceId
               new == id_to_device'[id]
               asGateway == gateway /\ ~ managed
           IN  /\ id \in DeviceId /\ id \notin Active /\ IdInv'
               /\ \A x \in DeviceId \ {id} : id_to_device'[x] = id_to_device[x]
               /\ Active' = Active \union {id}
               /\ new.active
               /\ new.is_gateway <=> asGateway
               /\ new.gateway_managed <=> managed
               /\ new.has_eth_addr <=> ~ managed
               /\ new.eth_addr = IF managed THEN ZeroAddr ELSE a
               /\ new.authorizedDevicesIndex =
                     Len(IF asGateway THEN authorized_gateways ELSE authorized_devices)
<1> DEFINE id == NewDeviceId
           asGateway == gateway /\ ~ managed
           index == Len(IF asGateway THEN authorized_gateways ELSE authorized_devices)
           rec == id_to_device[id]
           new == Registered(rec, a, managed, asGateway, index)
<1>1. /\ id \in DeviceId
      /\ \A x \in DeviceId \ {id} : id_to_device'[x] = id_to_device[x]
      /\ Active' = Active \union {id}
  BY AddDeviceEffect DEF IdInv
<1>2. id \notin Active /\ IdInv'
  BY AddDeviceIds
<1>3. rec \in Device /\ id_to_device \in [DeviceId -> Device]
  BY <1>1 DEF IdInv, TypeOK
<1>4. rec.eth_addr = ZeroAddr
  BY <1>1, <1>2, EmptyIds DEF IdInv, Active, Empty
<1>5. id_to_device' = [id_to_device EXCEPT ![id] = new]
  BY <1>3 DEF AddDevice
<1>6. id_to_device'[id] = new
  BY <1>1, <1>3, <1>5
<1>7. /\ new.active
      /\ new.is_gateway = asGateway
      /\ new.gateway_managed = managed
      /\ new.has_eth_addr = ~ managed
      /\ new.eth_addr = IF managed THEN rec.eth_addr ELSE a
      /\ new.authorizedDevicesIndex = index
  BY <1>3 DEF Registered, Device
<1> QED
  BY <1>1, <1>2, <1>4, <1>6, <1>7

\* An address that add_device finds free owns no registered id.
LEMMA FreeAddressOwnsNothing ==
    ASSUME IdInv, OwnersMapped, NEW a, AddressFree(a), NEW x \in Active,
           id_to_device[x].has_eth_addr
    PROVE  id_to_device[x].eth_addr # a
<1>1. SUFFICES ASSUME id_to_device[x].eth_addr = a PROVE FALSE
  OBVIOUS
<1>2. addr_to_id[a] = x /\ id_to_device[x].active
  BY <1>1 DEF OwnersMapped, Active
<1> QED
  BY <1>2, ZeroUnused DEF AddressFree

LEMMA AddIndexes ==
    ASSUME IdInv, Indexes, TypeOK', NEW sender \in Sender, NEW a \in ClientAddr,
           NEW managed \in BOOLEAN, NEW gateway \in BOOLEAN, AddressFree(a),
           AddDevice(sender, a, managed, gateway)
    PROVE  Indexes'
<1>0. PICK id \in DeviceId : id = NewDeviceId
  BY RegisteredRecord
<1> DEFINE new == id_to_device'[id]
           asGateway == gateway /\ ~ managed
           kind == IF asGateway THEN Gateways ELSE Devices
           list == IF asGateway THEN authorized_gateways ELSE authorized_devices
<1>1. /\ id \in DeviceId /\ id \notin Active /\ IdInv'
      /\ Active' = Active \union {id}
      /\ \A x \in DeviceId \ {id} : id_to_device'[x] = id_to_device[x]
  BY <1>0, RegisteredRecord
<1>2. /\ new.active
      /\ new.is_gateway <=> asGateway
      /\ new.gateway_managed <=> managed
      /\ new.has_eth_addr <=> ~ managed
      /\ new.eth_addr = IF managed THEN ZeroAddr ELSE a
      /\ new.authorizedDevicesIndex = Len(list)
  BY <1>0, RegisteredRecord
<1>3. /\ TypeOK
      /\ authorized_devices \in Seq(DeviceId) /\ authorized_gateways \in Seq(DeviceId)
      /\ addr_to_id \in [Addr -> DeviceId]
  BY DEF IdInv, TypeOK
<1>4. /\ addr_to_id' = [addr_to_id EXCEPT ![a] = id]
      /\ authorized_devices' = IF asGateway THEN authorized_devices ELSE Append(list, id)
      /\ authorized_gateways' = IF asGateway THEN Append(list, id) ELSE authorized_gateways
      /\ gateway_pool' = IF asGateway THEN gateway_pool \union {a} ELSE gateway_pool
  BY <1>0 DEF AddDevice
<1> HIDE DEF asGateway
<1>5. /\ Devices' = IF asGateway THEN Devices ELSE Devices \union {id}
      /\ Gateways' = IF asGateway THEN Gateways \union {id} ELSE Gateways
      /\ id \notin Devices /\ id \notin Gateways
  <2>1. IsDevice(id)' <=> ~ asGateway
    BY <1>2 DEF IsDevice
  <2>2. IsGateway(id)' <=> asGateway
    BY <1>2 DEF IsGateway
  <2>3. \A x \in DeviceId \ {id} : (IsDevice(x)' <=> IsDevice(x)) /\ (IsGateway(x)' <=> IsGateway(x))
    BY <1>1 DEF IsDevice, IsGateway
  <2>4. ~ IsDevice(id) /\ ~ IsGateway(id)
    BY <1>1 DEF IsDevice, IsGateway, Active
  <2> QED
    BY <1>1, <2>1, <2>2, <2>3, <2>4 DEF Devices, Gateways
<1>6. /\ Listed(id_to_device, authorized_devices, Devices)
      /\ Listed(id_to_device, authorized_gateways, Gateways)
  BY ListsListed DEF Indexes
<1>7. /\ Listed(id_to_device', authorized_devices, Devices)
      /\ Listed(id_to_device', authorized_gateways, Gateways)
  <2>1. /\ \A x \in Devices : id_to_device'[x].authorizedDevicesIndex = id_to_device[x].authorizedDevicesIndex
        /\ \A x \in Gateways : id_to_device'[x].authorizedDevicesIndex = id_to_device[x].authorizedDevicesIndex
    BY <1>1, <1>5 DEF Devices, Gateways
  <2> QED
    BY <1>3, <1>6, <2>1, SameIndexes
<1>8. Listed(id_to_device', Append(list, id), kind \union {id})
  <2>1. list \in Seq(DeviceId) /\ Listed(id_to_device', list, kind) /\ id \notin kind
    BY <1>3, <1>5, <1>7
  <2> QED
    BY <1>1, <1>2, <2>1, AppendListed
<1>9. ListsExact'
  <2>1. Listed(id_to_device', authorized_devices', Devices')
    BY <1>4, <1>5, <1>7, <1>8
  <2>2. Listed(id_to_device', authorized_gateways', Gateways')
    BY <1>4, <1>5, <1>7, <1>8
  <2> QED
    BY <2>1, <2>2, ListsListed
<1>10. PoolExact'
  <2>1. gateway_pool = {id_to_device[x].eth_addr : x \in Gateways}
    BY DEF Indexes, PoolExact, Gateways
  <2>2. \A x \in Gateways : id_to_device'[x].eth_addr = id_to_device[x].eth_addr
    BY <1>1, <1>5 DEF Gateways
  <2>3. asGateway => id_to_device'[id].eth_addr = a
    BY <1>2 DEF asGateway
  <2>4. gateway_pool' = {id_to_device'[x].eth_addr : x \in Gateways'}
    BY <1>4, <1>5, <2>1, <2>2, <2>3
  <2> QED
    BY <2>4 DEF PoolExact, Gateways
<1>11. OwnersMapped'
  <2>1. ASSUME NEW x \in Active', id_to_device'[x].has_eth_addr
        PROVE  addr_to_id'[id_to_device'[x].eth_addr] = x
    <3>1. CASE x = id
      <4>1. id_to_device'[x].eth_addr = a
        BY <1>2, <2>1, <3>1
      <4> QED
        BY <1>3, <1>4, <3>1, <4>1, AddrAssumption
    <3>2. CASE x # id
      <4>1. x \in Active /\ id_to_device'[x] = id_to_device[x]
        BY <1>1, <3>2 DEF Active
      <4>2. id_to_device[x].eth_addr # a
        BY <2>1, <4>1, FreeAddressOwnsNothing DEF Indexes
      <4>3. addr_to_id[id_to_device[x].eth_addr] = x
        BY <2>1, <4>1 DEF Indexes, OwnersMapped
      <4>4. addr_to_id'[id_to_device[x].eth_addr] = addr_to_id[id_to_device[x].eth_addr]
        <5>1. id_to_device[x].eth_addr \in Addr
          BY <1>3, <4>1 DEF TypeOK, Device, Active
        <5> QED
          BY <1>3, <1>4, <4>2, <5>1
      <4> QED
        BY <4>1, <4>3, <4>4
    <3> QED
      BY <3>1, <3>2
  <2> QED
    BY <2>1 DEF OwnersMapped
<1>12. KindsExact'
  <2>1. KindOf(id_to_device'[id])
    BY <1>2 DEF KindOf, asGateway
  <2>2. ASSUME NEW x \in Active', x # id PROVE KindOf(id_to_device'[x])
    <3>1. x \in Active /\ id_to_device'[x] = id_to_device[x]
      BY <1>1, <2>2 DEF Active
    <3> QED
      BY <3>1 DEF Indexes, KindsExact
  <2> QED
    BY <2>1, <2>2 DEF KindsExact
<1> QED
  BY <1>9, <1>10, <1>11, <1>12 DEF Indexes

-----------------------------------------------------------------------------
(* Removing                                                                *)

\* Both removals, each called for an id of its own kind, change the
\* indexes alike.
Removal(id) ==
    LET rec == id_to_device[id]
        asGateway == IsGateway(id)
        list == IF asGateway THEN authorized_gateways ELSE authorized_devices
    IN  /\ id_to_device' = Unlisted(list, id)
        /\ authorized_devices' = IF asGateway THEN authorized_devices ELSE SwapPop(list, Index(id))
        /\ authorized_gateways' = IF asGateway THEN SwapPop(list, Index(id)) ELSE authorized_gateways
        /\ gateway_pool' = IF asGateway THEN gateway_pool \ {rec.eth_addr} ELSE gateway_pool
        /\ addr_to_id' = IF rec.has_eth_addr THEN [addr_to_id EXCEPT ![rec.eth_addr] = 0] ELSE addr_to_id
        /\ Active' = Active \ {id}

LEMMA RemovalsAlike ==
    ASSUME IdInv, Indexes, TypeOK', NEW sender \in Sender, NEW id \in DeviceId,
           \/ IsDevice(id) /\ RemoveDevice(sender, id)
           \/ IsGateway(id) /\ RemoveGateway(sender, id)
    PROVE  id \in Active /\ Removal(id)
<1>1. id \in Active /\ Active' = Active \ {id}
  BY RemoveDeviceIds, RemoveGatewayIds
<1>2. IsGateway(id) => id_to_device[id].has_eth_addr
  BY <1>1 DEF Indexes, KindsExact, KindOf, IsGateway
<1>3. ~ (IsDevice(id) /\ IsGateway(id))
  BY DEF IsDevice, IsGateway
<1>4. CASE IsDevice(id) /\ RemoveDevice(sender, id)
  BY <1>1, <1>3, <1>4 DEF RemoveDevice, Removal, Index
<1>5. CASE IsGateway(id) /\ RemoveGateway(sender, id)
  BY <1>1, <1>2, <1>5 DEF RemoveGateway, Removal, Index
<1> QED
  BY <1>4, <1>5

LEMMA RemovalIndexes ==
    ASSUME IdInv, Indexes, NEW id \in Active, Removal(id)
    PROVE  Indexes'
<1> DEFINE rec == id_to_device[id]
           asGateway == IsGateway(id)
           kind == IF asGateway THEN Gateways ELSE Devices
           list == IF asGateway THEN authorized_gateways ELSE authorized_devices
<1>1. /\ TypeOK /\ id \in DeviceId
      /\ authorized_devices \in Seq(DeviceId) /\ authorized_gateways \in Seq(DeviceId)
      /\ addr_to_id \in [Addr -> DeviceId]
  BY DEF IdInv, TypeOK, Active
<1>2. /\ id_to_device' = Unlisted(list, id)
      /\ authorized_devices' = IF asGateway THEN authorized_devices ELSE SwapPop(list, Index(id))
      /\ authorized_gateways' = IF asGateway THEN SwapPop(list, Index(id)) ELSE authorized_gateways
      /\ gateway_pool' = IF asGateway THEN gateway_pool \ {rec.eth_addr} ELSE gateway_pool
      /\ addr_to_id' = IF rec.has_eth_addr THEN [addr_to_id EXCEPT ![rec.eth_addr] = 0] ELSE addr_to_id
      /\ Active' = Active \ {id}
  BY DEF Removal
<1>3. /\ Listed(id_to_device, authorized_devices, Devices)
      /\ Listed(id_to_device, authorized_gateways, Gateways)
  BY ListsListed DEF Indexes
<1>4. /\ list \in Seq(DeviceId) /\ Listed(id_to_device, list, kind) /\ id \in kind
      /\ Devices \cap Gateways = {}
  BY <1>1, <1>3 DEF Devices, Gateways, IsDevice, IsGateway, Active
<1>5. /\ list # <<>> /\ Last(list) \in kind
      /\ Listed(id_to_device', SwapPop(list, Index(id)), kind \ {id})
  BY <1>1, <1>2, <1>4, RemovalListed
<1>6. /\ id_to_device'[id] = NoDevice
      /\ \A x \in DeviceId \ {id} :
            /\ id_to_device'[x].active = id_to_device[x].active
            /\ SameIdentity(id_to_device'[x], id_to_device[x])
            /\ id_to_device'[x].has_eth_addr = id_to_device[x].has_eth_addr
            /\ id_to_device'[x].authorizedDevicesIndex = IF x = Last(list) THEN Index(id) ELSE Index(x)
  BY <1>1, <1>2, <1>4, <1>5, UnlistedRecords
<1>7. /\ Devices' = Devices \ {id}
      /\ Gateways' = Gateways \ {id}
  <2>1. ~ IsDevice(id)' /\ ~ IsGateway(id)'
    BY <1>6 DEF IsDevice, IsGateway, NoDevice
  <2>2. \A x \in DeviceId \ {id} : (IsDevice(x)' <=> IsDevice(x)) /\ (IsGateway(x)' <=> IsGateway(x))
    BY <1>6 DEF IsDevice, IsGateway, SameIdentity
  <2> QED
    BY <2>1, <2>2 DEF Devices, Gateways
<1>8. /\ asGateway => id \in Gateways /\ id \notin Devices
      /\ ~ asGateway => id \in Devices /\ id \notin Gateways
  BY <1>4
<1> HIDE DEF asGateway
<1>9. ListsExact'
  <2>1. CASE asGateway
    <3>1. \A x \in Devices : id_to_device'[x].authorizedDevicesIndex = id_to_device[x].authorizedDevicesIndex
      BY <1>4, <1>5, <1>6, <1>8, <2>1 DEF Devices, Index
    <3>2. Listed(id_to_device', authorized_devices, Devices)
      BY <1>1, <1>3, <3>1, SameIndexes
    <3>3. Devices' = Devices
      BY <1>7, <1>8, <2>1
    <3>4. Listed(id_to_device', authorized_devices', Devices')
      BY <1>2, <2>1, <3>2, <3>3
    <3>5. Listed(id_to_device', authorized_gateways', Gateways')
      BY <1>2, <1>5, <1>7, <2>1
    <3> QED
      BY <3>4, <3>5, ListsListed
  <2>2. CASE ~ asGateway
    <3>1. \A x \in Gateways : id_to_device'[x].authorizedDevicesIndex = id_to_device[x].authorizedDevicesIndex
      BY <1>4, <1>5, <1>6, <1>8, <2>2 DEF Gateways, Index
    <3>2. Listed(id_to_device', authorized_gateways, Gateways)
      BY <1>1, <1>3, <3>1, SameIndexes
    <3>3. Gateways' = Gateways
      BY <1>7, <1>8, <2>2
    <3>4. Listed(id_to_device', authorized_gateways', Gateways')
      BY <1>2, <2>2, <3>2, <3>3
    <3>5. Listed(id_to_device', authorized_devices', Devices')
      BY <1>2, <1>5, <1>7, <2>2
    <3> QED
      BY <3>4, <3>5, ListsListed
  <2> QED
    BY <2>1, <2>2
<1>10. ASSUME NEW x \in Active, x # id, id_to_device[x].has_eth_addr, rec.has_eth_addr
       PROVE  id_to_device[x].eth_addr # rec.eth_addr
  BY <1>10, OwnersDistinct DEF Indexes
<1>11. PoolExact'
  <2>1. gateway_pool = {id_to_device[x].eth_addr : x \in Gateways}
    BY DEF Indexes, PoolExact, Gateways
  <2>2. \A x \in Gateways \ {id} : id_to_device'[x].eth_addr = id_to_device[x].eth_addr
    BY <1>6 DEF Gateways, SameIdentity
  <2>3. \A x \in Gateways : x \in Active /\ id_to_device[x].has_eth_addr
    BY DEF Gateways, IsGateway, Active, Indexes, KindsExact, KindOf
  <2>4. asGateway => \A x \in Gateways \ {id} : id_to_device[x].eth_addr # rec.eth_addr
    BY <1>8, <1>10, <2>3
  <2>5. gateway_pool' = {id_to_device[x].eth_addr : x \in Gateways \ {id}}
    <3>1. CASE asGateway
      <4>1. gateway_pool' = gateway_pool \ {rec.eth_addr}
        BY <1>2, <3>1
      <4> QED
        BY <2>1, <2>4, <3>1, <4>1
    <3>2. CASE ~ asGateway
      BY <1>2, <1>8, <2>1, <3>2
    <3> QED
      BY <3>1, <3>2
  <2>6. gateway_pool' = {id_to_device'[x].eth_addr : x \in Gateways'}
    BY <1>7, <2>2, <2>5
  <2> QED
    BY <2>6 DEF PoolExact, Gateways
<1>12. OwnersMapped'
  <2>1. ASSUME NEW x \in Active', id_to_device'[x].has_eth_addr
        PROVE  addr_to_id'[id_to_device'[x].eth_addr] = x
    <3>1. x \in Active /\ x # id /\ x \in DeviceId
      BY <1>2 DEF Active
    <3>2. /\ id_to_device'[x].eth_addr = id_to_device[x].eth_addr
          /\ id_to_device[x].has_eth_addr
      BY <1>6, <2>1, <3>1 DEF SameIdentity
    <3>3. addr_to_id[id_to_device[x].eth_addr] = x
      BY <3>1, <3>2 DEF Indexes, OwnersMapped
    <3>4. id_to_device[x].eth_addr \in Addr
      BY <1>1, <3>1 DEF TypeOK, Device
    <3>5. CASE rec.has_eth_addr
      <4>1. id_to_device[x].eth_addr # rec.eth_addr
        BY <1>10, <3>1, <3>2, <3>5
      <4> QED
        BY <1>1, <1>2, <3>2, <3>3, <3>4, <3>5, <4>1
    <3>6. CASE ~ rec.has_eth_addr
      BY <1>2, <3>2, <3>3, <3>6
    <3> QED
      BY <3>5, <3>6
  <2> QED
    BY <2>1 DEF OwnersMapped
<1>13. KindsExact'
  <2>1. ASSUME NEW x \in Active' PROVE KindOf(id_to_device'[x])
    <3>1. x \in Active /\ x # id /\ x \in DeviceId
      BY <1>2 DEF Active
    <3>2. KindOf(id_to_device[x])
      BY <3>1 DEF Indexes, KindsExact
    <3> QED
      BY <1>6, <3>1, <3>2 DEF KindOf, SameIdentity
  <2> QED
    BY <2>1 DEF KindsExact
<1> QED
  BY <1>9, <1>11, <1>12, <1>13 DEF Indexes

-----------------------------------------------------------------------------
(* Every transaction                                                       *)

\* The rules only restrict what the contract does.
LEMMA OperatedIsNext == OperatedNext => Next
BY DEF OperatedNext, OperatedAdminCall, Next, AdminCall

LEMMA IndexesStep ==
    ASSUME IdInv, Indexes, TypeOK', [OperatedNext]_vars
    PROVE  Indexes'
<1>0. TypeOK
  BY DEF IdInv
<1>1. ASSUME NEW sender \in Sender, NEW a \in ClientAddr, NEW managed \in BOOLEAN,
             NEW gateway \in BOOLEAN, AddressFree(a), AddDevice(sender, a, managed, gateway)
      PROVE  Indexes'
  BY <1>1, AddIndexes
<1>2. ASSUME NEW sender \in Sender, NEW id \in DeviceId,
             \/ IsDevice(id) /\ RemoveDevice(sender, id)
             \/ IsGateway(id) /\ RemoveGateway(sender, id)
      PROVE  Indexes'
  BY <1>2, RemovalsAlike, RemovalIndexes
<1>3. ASSUME NEW sender \in Sender, NEW id \in DeviceId,
             RecordCall(sender, id) \/ \E receiver \in DeviceId : UpdateDataReceiver(sender, id, receiver)
      PROVE  Indexes'
  BY <1>0, <1>3, RecordCallIndexes
<1>4. ASSUME NEW sender \in Sender, NEW receiver \in DeviceId, SetDefaultDataReceiver(sender, receiver)
      PROVE  Indexes'
  BY <1>0, <1>4, AsideIndexes DEF SetDefaultDataReceiver
<1>5. ASSUME NEW sender \in Sender, NEW a \in Addr,
             AuthorizeAdmin(sender, a) \/ DeauthorizeAdmin(sender, a)
      PROVE  Indexes'
  BY <1>0, <1>5, AsideIndexes DEF AuthorizeAdmin, DeauthorizeAdmin, registryVars
<1>6. CASE UNCHANGED vars
  BY <1>0, <1>6, AsideIndexes DEF vars, registryVars
<1> QED
  BY <1>1, <1>2, <1>3, <1>4, <1>5, <1>6 DEF OperatedNext, OperatedAdminCall

LEMMA OperatedInvStep == OperatedInv /\ [OperatedNext]_vars => OperatedInv'
<1> SUFFICES ASSUME OperatedInv, [OperatedNext]_vars PROVE OperatedInv'
  OBVIOUS
<1>1. AdminInv /\ IdInv /\ Indexes /\ [Next]_vars
  BY OperatedIsNext DEF OperatedInv
<1>2. AdminInv' /\ TypeOK'
  BY <1>1, AdminInvStep DEF AdminInv
<1>3. IdInv'
  BY <1>1, <1>2, IdInvStep
<1>4. Indexes'
  BY <1>1, <1>2, IndexesStep
<1> QED
  BY <1>2, <1>3, <1>4 DEF OperatedInv

LEMMA OperatedInvHolds == OperatedSpec => []OperatedInv
<1>1. Init => OperatedInv
  BY AdminInvInit, IdInvInit, IndexesInit DEF OperatedInv
<1> QED
  BY <1>1, OperatedInvStep, PTL DEF OperatedSpec

-----------------------------------------------------------------------------
(* The theorems                                                            *)

\* Under the two rules the lists of authorized devices and gateways hold each
\* registered id once, at the index its record names, however often items are
\* swapped.
THEOREM ListsAgree == OperatedSpec => []ListsExact
<1>1. OperatedInv => ListsExact
  BY DEF OperatedInv, Indexes
<1> QED
  BY <1>1, OperatedInvHolds, PTL

\* Under the two rules gateway_pool is the set of the registered gateways'
\* addresses: no address keeps gateway rights after remove_gateway.
THEOREM PoolAgrees == OperatedSpec => []PoolExact
<1>1. OperatedInv => PoolExact
  BY DEF OperatedInv, Indexes
<1> QED
  BY <1>1, OperatedInvHolds, PTL

\* Under the two rules a client that was registered by its address is found
\* by it in addr_to_id.
THEOREM OwnersAgree == OperatedSpec => []OwnersMapped
<1>1. OperatedInv => OwnersMapped
  BY DEF OperatedInv, Indexes
<1> QED
  BY <1>1, OperatedInvHolds, PTL

-----------------------------------------------------------------------------
(* The refinement                                                          *)

\* What Registry shows of an id.
Shown(rec) == [kind |-> Kind(rec), owner |-> rec.eth_addr]

View == [id \in Active |-> Shown(id_to_device[id])]

LEMMA ViewInit == Init => Abstract!Init
<1> SUFFICES ASSUME Init PROVE Abstract!Init
  OBVIOUS
<1>1. Active = {}
  BY DEF Init, NoDevice, Active
<1>2. View = <<>>
  BY <1>1 DEF View
<1> QED
  BY <1>2 DEF View, Shown, Abstract!Init, Init

\* A step that changes no registration changes nothing Registry shows.
LEMMA ViewKept ==
    ASSUME Active' = Active,
           \A x \in Active : SameIdentity(id_to_device'[x], id_to_device[x])
    PROVE  View' = View
<1>1. \A x \in Active : Shown(id_to_device'[x]) = Shown(id_to_device[x])
  BY DEF Shown, Kind, SameIdentity
<1> QED
  BY <1>1 DEF View

LEMMA AddShown ==
    ASSUME IdInv, Indexes, TypeOK', NEW sender \in Sender, NEW a \in ClientAddr,
           NEW managed \in BOOLEAN, NEW gateway \in BOOLEAN, AddressFree(a),
           AddDevice(sender, a, managed, gateway)
    PROVE  Abstract!Next
<1>1. PICK id \in DeviceId : id = NewDeviceId
  BY RegisteredRecord
<1> DEFINE new == id_to_device'[id]
<1>2. /\ id \notin Active /\ IdInv'
      /\ Active' = Active \union {id}
      /\ \A x \in DeviceId \ {id} : id_to_device'[x] = id_to_device[x]
      /\ new.is_gateway <=> gateway /\ ~ managed
      /\ new.gateway_managed <=> managed
      /\ new.eth_addr = IF managed THEN ZeroAddr ELSE a
  BY <1>1, RegisteredRecord
<1>3. id # 0
  <2>1. (IdInv => 0 \notin Active)'
    BY ZeroUnused, PTL
  <2> QED
    BY <1>2, <2>1
<1> PICK entry : entry = Shown(new)
  OBVIOUS
<1>4. entry = [kind |-> IF managed THEN "managed" ELSE IF gateway THEN "gateway" ELSE "device",
               owner |-> IF managed THEN ZeroAddr ELSE a]
  BY <1>2 DEF Shown, Kind
<1>5. entry \in Abstract!Entry
  BY <1>4 DEF Abstract!Entry
<1>6. entry.owner \notin Abstract!Owners
  <2>1. CASE managed
    BY <1>4, <2>1 DEF Abstract!Owners
  <2>2. CASE ~ managed
    <3>1. entry.owner = a
      BY <1>4, <2>2
    <3>2. ASSUME NEW x \in Active, id_to_device[x].eth_addr # ZeroAddr
          PROVE  id_to_device[x].eth_addr # a
      BY <3>2, FreeAddressOwnsNothing DEF Indexes, KindsExact, KindOf
    <3> QED
      BY <3>1, <3>2 DEF Abstract!Owners
  <2> QED
    BY <2>1, <2>2
<1>7. View' = [i \in Active \union {id} |-> IF i = id THEN entry ELSE View[i]]
  <2>1. \A x \in Active : x \in DeviceId \ {id}
    BY <1>2 DEF Active
  <2> QED
    BY <1>2, <2>1 DEF View
<1>8. defaultDataReceiver' = defaultDataReceiver
  BY DEF AddDevice
<1> HIDE DEF new
<1>9. Abstract!Register(id, entry)
  BY <1>2, <1>6, <1>7, <1>8 DEF Abstract!Register, View, Shown
<1>10. \E e \in Abstract!Entry : Abstract!Register(id, e)
  BY <1>5, <1>9
<1>11. id \in DeviceId \ {0}
  BY <1>3
<1> QED
  BY <1>10, <1>11 DEF Abstract!Next

LEMMA RemovalShown ==
    ASSUME IdInv, Indexes, TypeOK', NEW sender \in Sender, NEW id \in DeviceId,
           \/ IsDevice(id) /\ RemoveDevice(sender, id)
           \/ IsGateway(id) /\ RemoveGateway(sender, id)
    PROVE  Abstract!Next
<1>1. id \in Active /\ Active' = Active \ {id} /\ id # 0
  BY RemoveDeviceIds, RemoveGatewayIds, ZeroUnused
<1>2. \A x \in Active' : SameIdentity(id_to_device'[x], id_to_device[x])
  <2>1. OperatedNext => [Next]_vars
    BY OperatedIsNext
  <2>2. [Next]_vars
    BY DEF Next, AdminCall
  <2> QED
    BY <1>1, <2>2, IdInvStep DEF Active
<1>3. View' = [x \in Active \ {id} |-> View[x]]
  <2>1. \A x \in Active \ {id} : Shown(id_to_device'[x]) = Shown(id_to_device[x])
    BY <1>1, <1>2 DEF Shown, Kind, SameIdentity
  <2> QED
    BY <1>1, <2>1 DEF View
<1>4. View' = Abstract!Restrict(View, DOMAIN View \ {id})
  BY <1>3 DEF Abstract!Restrict, View
<1>5. defaultDataReceiver' = IF defaultDataReceiver = id THEN 0 ELSE defaultDataReceiver
  BY DEF RemoveDevice, RemoveGateway, Release
<1>6. Abstract!Unregister(id)
  <2>1. id \in DOMAIN View
    BY <1>1 DEF View
  <2> QED
    BY <1>4, <1>5, <2>1, Zenon DEF Abstract!Unregister, View, Shown
<1> QED
  BY <1>1, <1>6 DEF Abstract!Next

LEMMA RegistryStep ==
    ASSUME OperatedInv, OperatedInv', [OperatedNext]_vars
    PROVE  [Abstract!Next]_(Abstract!vars)
<1> DEFINE same == UNCHANGED <<View, defaultDataReceiver>>
<1>0. IdInv /\ Indexes /\ TypeOK /\ TypeOK'
  BY DEF OperatedInv, IdInv
<1>1. ASSUME NEW sender \in Sender, NEW a \in ClientAddr, NEW managed \in BOOLEAN,
             NEW gateway \in BOOLEAN, AddressFree(a), AddDevice(sender, a, managed, gateway)
      PROVE  Abstract!Next
  BY <1>0, <1>1, AddShown
<1>2. ASSUME NEW sender \in Sender, NEW id \in DeviceId,
             \/ IsDevice(id) /\ RemoveDevice(sender, id)
             \/ IsGateway(id) /\ RemoveGateway(sender, id)
      PROVE  Abstract!Next
  BY <1>0, <1>2, RemovalShown
<1>3. ASSUME NEW sender \in Sender, NEW id \in DeviceId, RecordCall(sender, id)
      PROVE  same
  <2>1. \A x \in Active : SameIdentity(id_to_device'[x], id_to_device[x])
    BY <1>0, <1>3, RecordCallEffect DEF Active
  <2> QED
    BY <1>0, <1>3, <2>1, RecordCallEffect, ViewKept DEF registryVars
<1>4. ASSUME NEW sender \in Sender, NEW id \in DeviceId, NEW receiver \in DeviceId,
             UpdateDataReceiver(sender, id, receiver)
      PROVE  same
  <2>1. \A x \in Active : SameIdentity(id_to_device'[x], id_to_device[x])
    BY <1>0, <1>4, UpdateDataReceiverEffect DEF Active
  <2> QED
    BY <1>0, <1>4, <2>1, UpdateDataReceiverEffect, ViewKept DEF UpdateDataReceiver, registryVars
<1>5. ASSUME NEW sender \in Sender, NEW receiver \in DeviceId, SetDefaultDataReceiver(sender, receiver)
      PROVE  Abstract!Next
  <2>1. receiver \in Active /\ receiver # 0
    BY <1>0, <1>5, ZeroUnused DEF SetDefaultDataReceiver, Active
  <2>2. View' = View
    BY <1>5, ViewKept DEF SetDefaultDataReceiver, Active, SameIdentity
  <2>3. Abstract!SetDefaultReceiver(receiver)
    BY <1>5, <2>1, <2>2 DEF Abstract!SetDefaultReceiver, SetDefaultDataReceiver, View, Shown
  <2> QED
    BY <2>1, <2>3 DEF Abstract!Next
<1>6. ASSUME UNCHANGED <<registryVars, id_to_device>> PROVE same
  BY <1>6, ViewKept DEF registryVars, Active, SameIdentity
<1>7. ASSUME NEW sender \in Sender, NEW a \in Addr,
             AuthorizeAdmin(sender, a) \/ DeauthorizeAdmin(sender, a)
      PROVE  same
  BY <1>6, <1>7 DEF AuthorizeAdmin, DeauthorizeAdmin
<1>8. ASSUME UNCHANGED vars PROVE same
  BY <1>6, <1>8 DEF vars
<1> HIDE DEF same
<1>9. same \/ Abstract!Next
  BY <1>1, <1>2, <1>3, <1>4, <1>5, <1>7, <1>8 DEF OperatedNext, OperatedAdminCall
<1> QED
  BY <1>9 DEF same, Abstract!vars, View, Shown

\* Under the two rules every transaction of the contract is one operation of
\* Registry, or changes nothing it shows: an id or an address is never held by
\* two registered clients.
THEOREM IsRegistry == OperatedSpec => ImplementsRegistry
<1>1. OperatedInv /\ OperatedInv' /\ [OperatedNext]_vars => [Abstract!Next]_(Abstract!vars)
  BY RegistryStep
<1> QED
  BY <1>1, ViewInit, OperatedInvHolds, PTL DEF OperatedSpec, ImplementsRegistry, Abstract!Spec

-----------------------------------------------------------------------------
(* Who writes into a record                                                *)

\* What devices and gateways write, and data receivers read.
Contents(rec) == <<rec.data, rec.addrType, rec.addr, rec.publicKey, rec.signPublicKey>>

\* An administrator, the owner of the device, or the client of a registered
\* gateway if the device is gateway managed.
MayWrite(sender, id) ==
    \/ IsAdmin(sender)
    \/ id_to_device[id].eth_addr = sender
    \/ /\ id_to_device[id].gateway_managed
       /\ \E g \in DeviceId : IsGateway(g) /\ id_to_device[g].eth_addr = sender

\* Data, address and keys of a device that stays registered change only by a
\* call about that device, of an account that may write them.
WritesRightful ==
    [][\A id \in DeviceId :
          /\ id_to_device[id].active /\ id_to_device'[id].active
          /\ Contents(id_to_device'[id]) # Contents(id_to_device[id])
          => \E sender \in Sender : RecordCall(sender, id) /\ MayWrite(sender, id)]_vars

LEMMA UnlistedContents ==
    ASSUME TypeOK, NEW list \in Seq(DeviceId), list # <<>>, NEW id \in DeviceId,
           id_to_device' = Unlisted(list, id), NEW x \in DeviceId \ {id}
    PROVE  Contents(id_to_device'[x]) = Contents(id_to_device[x])
<1> DEFINE moved == [id_to_device[x] EXCEPT !.authorizedDevicesIndex = Index(id)]
<1>1. Last(list) \in DeviceId /\ id_to_device \in [DeviceId -> Device] /\ id_to_device[x] \in Device
  BY FrontProperties DEF TypeOK
<1>2. id_to_device'[x] = IF x = Last(list) THEN moved ELSE id_to_device[x]
  BY <1>1 DEF Unlisted, Index
<1>3. Contents(moved) = Contents(id_to_device[x])
  BY <1>1 DEF Device, Contents
<1> QED
  BY <1>2, <1>3

LEMMA RemovalContents ==
    ASSUME TypeOK, NEW sender \in Sender, NEW id \in DeviceId,
           RemoveDevice(sender, id) \/ RemoveGateway(sender, id), NEW x \in DeviceId \ {id}
    PROVE  Contents(id_to_device'[x]) = Contents(id_to_device[x])
<1>1. PICK list \in {authorized_devices, authorized_gateways} :
          id_to_device[id].authorizedDevicesIndex < Len(list) /\ id_to_device' = Unlisted(list, id)
  BY DEF RemoveDevice, RemoveGateway
<1>2. list \in Seq(DeviceId) /\ id_to_device[id].authorizedDevicesIndex \in Nat
  BY <1>1 DEF TypeOK, Device
<1>3. list # <<>>
  BY <1>1, <1>2
<1> QED
  BY <1>1, <1>2, <1>3, UnlistedContents

LEMMA ReceiverContents ==
    ASSUME TypeOK, NEW sender \in Sender, NEW id \in DeviceId, NEW receiver \in DeviceId,
           UpdateDataReceiver(sender, id, receiver), NEW x \in DeviceId
    PROVE  Contents(id_to_device'[x]) = Contents(id_to_device[x])
<1> DEFINE new == [id_to_device[id] EXCEPT !.dataReceiverID = receiver]
<1>1. id_to_device \in [DeviceId -> Device] /\ id_to_device[id] \in Device
  BY DEF TypeOK
<1>2. id_to_device'[x] = IF x = id THEN new ELSE id_to_device[x]
  BY <1>1 DEF UpdateDataReceiver
<1>3. Contents(new) = Contents(id_to_device[id])
  BY <1>1 DEF Device, Contents
<1> QED
  BY <1>2, <1>3

LEMMA WritersRightful ==
    ASSUME PoolExact, NEW sender \in Sender, NEW id \in DeviceId, RecordCall(sender, id)
    PROVE  MayWrite(sender, id)
<1>1. MayMutate(sender, id)
  BY DEF RecordCall, UpdateAddr, UpdatePublicKey, UpdateSignKey, PushData
<1>2. sender \in gateway_pool => \E g \in DeviceId : IsGateway(g) /\ id_to_device[g].eth_addr = sender
  BY DEF PoolExact
<1> QED
  BY <1>1, <1>2 DEF MayMutate, MayWrite

\* Under the two rules nobody writes into a record but an administrator, its
\* owner and, for a managed device, a client that is a registered gateway: not by
\* the swaps of a removal, and not with rights left over from a former gateway.
THEOREM RecordsProtected == OperatedSpec => WritesRightful
<1>1. ASSUME OperatedInv, OperatedInv', OperatedNext, NEW id \in DeviceId,
             id_to_device[id].active, id_to_device'[id].active,
             Contents(id_to_device'[id]) # Contents(id_to_device[id])
      PROVE  \E sender \in Sender : RecordCall(sender, id) /\ MayWrite(sender, id)
  <2>0. IdInv /\ TypeOK /\ TypeOK' /\ PoolExact /\ id \in Active
    BY <1>1 DEF OperatedInv, IdInv, Indexes, Active
  <2>1. id_to_device'[id] # id_to_device[id]
    BY <1>1
  <2>2. ASSUME NEW sender \in Sender, NEW a \in ClientAddr, NEW managed \in BOOLEAN,
               NEW gateway \in BOOLEAN, AddDevice(sender, a, managed, gateway)
        PROVE  FALSE
    <3>1. NewDeviceId \notin Active
      BY <2>0, <2>2, AddDeviceIds
    <3> QED
      BY <2>0, <2>1, <2>2, <3>1, AddDeviceEffect
  <2>3. ASSUME NEW sender \in Sender, NEW x \in DeviceId,
               RemoveDevice(sender, x) \/ RemoveGateway(sender, x)
        PROVE  FALSE
    <3>1. x # id
      BY <1>1, <2>0, <2>3, RemoveDeviceIds, RemoveGatewayIds DEF Active
    <3> QED
      BY <1>1, <2>0, <2>3, <3>1, RemovalContents
  <2>4. ASSUME NEW sender \in Sender, NEW x \in DeviceId, NEW receiver \in DeviceId,
               UpdateDataReceiver(sender, x, receiver)
        PROVE  FALSE
    BY <1>1, <2>0, <2>4, ReceiverContents
  <2>5. ASSUME NEW sender \in Sender, NEW x \in DeviceId, RecordCall(sender, x)
        PROVE  RecordCall(sender, id) /\ MayWrite(sender, id)
    <3>1. x = id
      BY <2>0, <2>1, <2>5, RecordCallEffect
    <3> QED
      BY <2>0, <2>5, <3>1, WritersRightful
  <2>6. ASSUME NEW sender \in Sender, OperatedAdminCall(sender) PROVE FALSE
    BY <2>1, <2>2, <2>3, <2>4, <2>6 DEF OperatedAdminCall, SetDefaultDataReceiver, AuthorizeAdmin, DeauthorizeAdmin
  <2> QED
    BY <1>1, <2>5, <2>6 DEF OperatedNext
<1> DEFINE rightful == \A id \in DeviceId :
          /\ id_to_device[id].active /\ id_to_device'[id].active
          /\ Contents(id_to_device'[id]) # Contents(id_to_device[id])
          => \E sender \in Sender : RecordCall(sender, id) /\ MayWrite(sender, id)
<1>2. OperatedInv /\ OperatedInv' /\ OperatedNext => rightful
  BY <1>1
<1>3. UNCHANGED vars => rightful
  BY DEF vars, Contents
<1> QED
  BY <1>2, <1>3, OperatedInvHolds, PTL DEF OperatedSpec, WritesRightful

=============================================================================
