------------------------------ MODULE Registry ------------------------------
(***************************************************************************)
(* What the device registry promises its users, without ids stacks, index  *)
(* lists and storage slots: a finite map from ids to registered clients,   *)
(* in which an id is given only to a client when nobody holds it, an       *)
(* address owns at most one id, and the default data receiver is a         *)
(* registered client or unset.                                             *)
(***************************************************************************)
EXTENDS Integers, Functions

CONSTANTS
    Id,         \* ids that can be given out; 0 is not among them
    Owner,      \* client addresses
    NoOwner     \* the owner of a device that gateways act for

VARIABLES
    registry,         \* the registered ids, each with its kind and owner
    defaultReceiver   \* the id new devices send their data to, or 0

vars == <<registry, defaultReceiver>>

Entry == [kind : {"device", "gateway"}, owner : Owner]
         \union [kind : {"managed"}, owner : {NoOwner}]

Owners == {registry[id].owner : id \in DOMAIN registry} \ {NoOwner}

Init ==
    /\ registry = <<>>
    /\ defaultReceiver = 0

Register(id, entry) ==
    /\ id \notin DOMAIN registry
    /\ entry.owner \notin Owners
    /\ registry' = [i \in DOMAIN registry \union {id} |->
                       IF i = id THEN entry ELSE registry[i]]
    /\ UNCHANGED defaultReceiver

Unregister(id) ==
    /\ id \in DOMAIN registry
    /\ registry' = Restrict(registry, DOMAIN registry \ {id})
    /\ defaultReceiver' = IF defaultReceiver = id THEN 0 ELSE defaultReceiver

SetDefaultReceiver(id) ==
    /\ id \in DOMAIN registry
    /\ defaultReceiver' = id
    /\ UNCHANGED registry

Next ==
    \E id \in Id :
        \/ \E entry \in Entry : Register(id, entry)
        \/ Unregister(id)
        \/ SetDefaultReceiver(id)

Spec == Init /\ [][Next]_vars

=============================================================================
