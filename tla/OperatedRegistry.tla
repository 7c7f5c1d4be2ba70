-------------------------- MODULE OperatedRegistry --------------------------
(***************************************************************************)
(* The registry contract under administrators who keep two rules that the  *)
(* contract itself leaves to its callers:                                  *)
(*   - remove_device is called for a device and remove_gateway for a       *)
(*     gateway (the contract offers is_device and is_gateway to ask);      *)
(*   - a gateway managed device is added with an address that no           *)
(*     registered client uses, the test add_device makes for all others.   *)
(* Under these rules the index lists, the gateway pool and the address     *)
(* mapping agree with the records, and the contract implements Registry.   *)
(***************************************************************************)
EXTENDS DeviceMgmt

\* The views is_device and is_gateway.
IsDevice(id)  == id_to_device[id].active /\ ~ id_to_device[id].is_gateway
IsGateway(id) == id_to_device[id].active /\ id_to_device[id].is_gateway

OperatedAdminCall(sender) ==
    \/ \E a \in ClientAddr, managed, gateway \in BOOLEAN :
           AddressFree(a) /\ AddDevice(sender, a, managed, gateway)
    \/ \E id \in DeviceId : IsDevice(id) /\ RemoveDevice(sender, id)
    \/ \E id \in DeviceId : IsGateway(id) /\ RemoveGateway(sender, id)
    \/ \E id, receiver \in DeviceId : UpdateDataReceiver(sender, id, receiver)
    \/ \E receiver \in DeviceId : SetDefaultDataReceiver(sender, receiver)
    \/ \E a \in Addr : AuthorizeAdmin(sender, a) \/ DeauthorizeAdmin(sender, a)

OperatedNext ==
    \E sender \in Sender :
        \/ OperatedAdminCall(sender)
        \/ \E id \in DeviceId : RecordCall(sender, id)

OperatedSpec == Init /\ [][OperatedNext]_vars

-----------------------------------------------------------------------------

Lists(list, ids) ==
    /\ IsInjective(list)
    /\ Range(list) = ids
    /\ \A i \in 1..Len(list) : id_to_device[list[i]].authorizedDevicesIndex = i - 1

\* get_authorized_devices() and get_authorized_gateways() return each
\* registered device and gateway exactly once, and every record knows its own
\* position, after any sequence of swaps.
ListsExact ==
    /\ Lists(authorized_devices, {id \in DeviceId : IsDevice(id)})
    /\ Lists(authorized_gateways, {id \in DeviceId : IsGateway(id)})

\* The addresses with gateway rights are exactly those of registered gateways.
PoolExact ==
    gateway_pool = {id_to_device[id].eth_addr : id \in {i \in DeviceId : IsGateway(i)}}

\* A client that was registered under its own address and not removed is
\* recognised by it: get_my_device_id() returns its id.  So no two registered
\* clients share an address.
OwnersMapped ==
    \A id \in Active : id_to_device[id].has_eth_addr =>
        addr_to_id[id_to_device[id].eth_addr] = id

-----------------------------------------------------------------------------
(* The abstract registry this one implements                               *)

Kind(rec) ==
    IF rec.is_gateway THEN "gateway" ELSE IF rec.gateway_managed THEN "managed" ELSE "device"

Abstract ==
    INSTANCE Registry WITH
        Id <- DeviceId \ {0},
        Owner <- ClientAddr,
        NoOwner <- ZeroAddr,
        registry <- [id \in Active |-> [kind |-> Kind(id_to_device[id]),
                                        owner |-> id_to_device[id].eth_addr]],
        defaultReceiver <- defaultDataReceiver

\* Every transaction is one operation of the abstract registry, or changes
\* nothing it shows: ids and addresses are never shared.
ImplementsRegistry == Abstract!Spec

=============================================================================
