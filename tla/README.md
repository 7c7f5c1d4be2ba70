# Verification of blockchain-iot-security

TLA+ models of the program in `src/`, TLC configurations that check them on
small instances, and TLAPS proofs of what matters most for every instance.

The program secures IoT devices with an Ethereum contract. Administrators
register devices, gateways and data receivers in the contract; devices push
encrypted data to it, directly or through a LoRa gateway; data receivers
subscribe to the contract's events. Every client talks to a local Ethereum node
(geth) over a Unix socket.

Files: `*.tla` modules, `*.cfg` TLC runs, `PROJECT.json` (components, runs,
mutants, the map from definitions to source lines, findings, hazards, theorems).

## 1. Inventory

| Component (source) | State | Operations | Hard behaviour | What makes it correct |
|---|---|---|---|---|
| **Registry contract** (`dev_mgmt_contract.sol`) | device records, id counter and stack of free ids, address-to-id map, two index lists, gateway pool, default receiver, administrators as mapping and list | `add_device`, `remove_device`, `remove_gateway`, `update_*`, `push_data`, `set_default_datareceiver`, `authorize_admin`, `deauthorize_admin` | six redundant indexes kept by hand; ids are recycled; two removal functions with different guards; swap-and-pop | ids conserved, indexes agree with the records, nothing survives a recycled id, administrators' indexes agree |
| **Event log manager** (`subscription_server.cpp`) | map from transaction hash to a log and a condition variable, one mutex | `getEventLog` (any thread), `setEventLog` (listener thread) | unlocked reads, lost notification, spurious wake-ups, two threads on one log | a log is kept until taken and taken once; who sleeps is woken |
| **Subscription listener** (`subscription_server.cpp`) | socket, partial line, subscription id | connect, subscribe, frame and parse messages, reconnect | data left over between connections, messages right behind the handshake | every complete message is handled once and in order |
| **Transaction calls** (`eth_interface.cpp`) | none of its own besides the retry counter | `call_helper`, `contract_helper`, `getTransactionReceipt`, `callMutatorContract`, `create_contract` | the contract changes between `eth_call` and mining; receipts time out; reverted transactions have no log | `true` is returned only for a transaction that succeeded; a call returns |
| **Library facade, keys** (`blockchainsec.cpp`) | local device parameters, key pairs, shared secret and a flag to recompute it | one method per contract function, `loadLocalDeviceParameters`, `updateLocalKeys`, `encryptAndPushData`, `getDataAndDecrypt` | keys replaced by one thread while another encrypts; two keys published by two transactions | data is encrypted with the secret of the current keys; contract, file and memory agree after an update |
| **Data receiver** (`data_receiver.cpp`) | set of changed devices, mutex, condition variable, its own device id | subscribe, parse updates, `getReceivedChanges` | a notification in front of the wait; set cleared under a waiter; own id read once | every push to this receiver is reported |
| **LoRa gateway** (`lora_trx.cpp`) | receive queue, three threads, halt flag | receive, verify, forward to the contract, reply, shut down | wait and notify under different mutexes; join of a thread that sleeps; several contract reads per packet | a packet is forwarded once, in order, for the device that signed it; shutdown ends |
| **LoRa client, packet format, embedded node** (`lora_client.cpp`, `packet.hpp`, `embedded/`) | packet buffer | `sendData`, `signPacket`, the main loop | lengths in `uint8_t`; several nodes share one radio | the data that is pushed is the data that was sent |
| **Client program** (`client.cpp`), **console** (`console.cpp`) | none between commands | one library call per command | none of their own | – |
| **ABI helper, utilities** (`ethabi.cpp`, `misc.cpp`) | none | run `ethabi`, convert text | none | – |

How they interact: the console, the client program and the gateway call the
library facade; its mutators call `callMutatorContract`; that sends a
transaction through the socket and then waits in `getEventLog` for the log that
the subscription listener thread hands over with `setEventLog`. The data
receiver has a listener thread and socket of its own. The gateway's forwarder
thread reads and writes the contract on behalf of the devices behind it. The
contract is the only state all processes share.

`PROJECT.json` lists, under `hazards`, the places where this code can go wrong
in ways a test would hardly reach, each at its line.

## 2. Modules

```
DeviceMgmt   <-- OperatedRegistry (implements Registry) <-- MCDeviceMgmt
             <-- DeviceMgmtProofs <-- DeviceIdProofs <-- OperatedRegistryProofs
EventLogWait (implements Mailbox) <-- ContractCall <-- MCContractCall
             <-- EventLogWaitProofs <-- ContractCallProofs
GethStream <-- EventListener (implements LogFeed), DataReceiver <-- MCListeners
             <-- ListenersProofs
LoraNode <-- LoraTrx (implements Uplink) <-- LoraTrxProofs
KeyManagement <-- KeyManagementProofs
```

`A <-- B` reads "B extends A". `OperatedRegistryProofs` also extends
`OperatedRegistry`, and `ContractCallProofs` `ContractCall`.

### DeviceMgmt: the contract

One variable per storage variable, with the contract's names. One action is one
transaction that succeeds; a transaction whose `require`, array access or enum
conversion fails reverts as a whole and is no step. `Sender` is every account;
the modifiers are `IsAdmin`, `Authorized`, `AuthorizedDeviceOrGateway` and
`MayMutate`. Array positions are counted from 0 as in the contract.

`AddDevice` covers devices, gateway managed devices and gateways (three branches
of `add_device`). `SwapPop`, `Unlisted` and `Release` are what the two removals
share: swap with the last item and pop, move the index and delete the record,
reset the default receiver and push the id. The order of the two writes in
`Unlisted` is the contract's, so removing the last item of a list, where both
writes meet, comes out right.

Left out: names, timestamps and events, which nothing reads back, and the 32
bits of the id counter (`MaxDeviceId` bounds it). `data`, `dataLen` and `nonce`
are written together and are one field.

Assumption `AddrAssumption`: no client is registered under `address(0)`. The
contract does not refuse it and neither does the console, but no key for that
address is known, so no client can have it. `IdInv` in `DeviceIdProofs` shows
where this is needed: `remove_gateway` asks only that the record's address is in
the pool, and the record of a removed device holds `address(0)`. Were
`address(0)` pooled, `remove_gateway` could push an id that is already free.

### OperatedRegistry and Registry: what users may rely on

The contract leaves two rules to its callers: the removal must fit the kind of
the id, and a gateway managed device must be given an address no registered
client uses (`add_device` skips that test for managed devices). Neither the
console nor the contract enforces them. `OperatedRegistry` is `DeviceMgmt` under
these two rules. With them the lists, the pool and the address mapping agree
with the records, and the contract implements `Registry`: a map from ids to
clients where nobody shares an id or an address. What holds without the rules
(ids, counts, recycled records, identity, references to ids, administrators) is
stated in `DeviceMgmt` and checked without them.

### EventLogWait and Mailbox: the event log manager

`pc` is where in `getEventLog` a thread is; it stands between two steps wherever
a preemption can matter: before each `mtx.lock()`, inside each critical section,
and around the two reads done without the mutex (loop condition, `cv.wait()`).
`cv.wait()` uses a mutex of the entry that the notifier never takes, so `Block`
and `SetEventLog` can interleave: a notification in front of the sleep is lost.
`WakeSpuriously` may happen at any time. `inbox` holds the logs the listener has
read and not yet stored.

The unlocked reads look up an `unordered_map` another thread may be changing,
which is undefined behaviour. It is modelled as a choice: the lookup finds its
entry, or the process is gone (`RaceCrash`, enabled only while some thread is in
a critical section that changes the map).

`Mailbox` is what the manager promises: logs are kept until taken, taken once,
and at most one thread waits for a log.

### ContractCall: one call of a mutator

Extends `EventLogWait` with `contract_helper`: `eth_call`, `eth_sendTransaction`,
the receipt loop, then `getEventLog`. Every thread makes one call, so its
transaction hash is the thread itself; hashes that are no threads belong to
transactions other processes send from the same account, whose logs the
subscription delivers here too. The node and the other users are external:
`MineOk`, `MineReverted`, `ForeignSend`. The contract is reduced to slots that a
transaction needs open and may close. The node may lose a log (no subscription
at that moment) and the listener thread may die when it cannot reconnect.

### GethStream, EventListener and DataReceiver: the two listeners

`GethStream` is the socket between a listener thread and the node. The node
answers a request to subscribe with a reply or an error, sends logs of what is
subscribed, and may close the connection at any point, also within a message. A
message is two halves, the second with the newline, so that a read can end
anywhere: this is what the framing code of both listeners has to cope with.

`EventListener` is the listener thread of `EventLogWaitManager`: connect, one
request per contract event, a loop over replies with logs in between, the
leftover of the last reply, then the main loop. It has the two buffers of the
code. `subscribeParse` belongs to the setup; `receiveParse` belongs to the
thread and outlives a connection. What it passes to `setEventLog` is the history
`handled`; `EventLogWait` takes over from there with its `inbox`. On the way there a
log is decoded by `ethabi`, which may fail: `undecoded`. `Known` are the logs
whose subscription the thread knows, those of this connection: the setup
clears `subscriptionToEventName`, and the node is assumed to name a subscription
once. The two are
not composed: `EventLogWait` allows any log to arrive at any time, which is more
than `EventListener` delivers. What it does deliver is `LogFeed`: a log may be
lost, but none is handed over before it was emitted, twice, or after a later one.

`DataReceiver` is the receiver thread (own id, setup, messages) and the client's
thread in `getReceivedChanges`. Reading the own id and decoding an update may
fail at any time, which ends the thread (`OwnIdUnread`, `CheckOwnId`, `ParseUpdate`). `tested` and `setups` remember which setup the
client's last test of the set belongs to. As in `EventLogWait`, the wait and the
notification use different mutexes; "stranded" is asleep after the notification
for an update that is in the set.

### LoraNode and LoraTrx: the LoRa devices and the gateway

`LoraNode` is the program of `lora_client.cpp` and the sketch; `Sketch` says
which node runs which. All nodes are configured with the same device id: a node
whose id was given to another still sends under it. Packets carry a number,
their signer, their `len` (a `uint8_t`, computed in `PacketLen`) and the length
of the data they were made from. `ForeignPacket` is any other radio: noise, or a packet
nobody signed. That a radio records a signed packet and sends it again is not
modelled; neither the gateway nor the contract would notice, so "not twice" below
is about what this program does with a packet. The gateway's radio holds one packet; what
arrives until it is read is lost.

`LoraTrx` is the gateway: the server thread (radio to `rx_queue`), the forwarder
thread (`readMessage`, `processPacket`), the owner that starts and closes it, and
the registry as far as `processPacket` asks about it: who holds the device id,
whose key it has, and what the gateway's own account is registered as.
`RecordChanges` is every change administrators can make to that. `held` is the
packet the forwarder works on with the number of the record's version at which
its signature was verified. `PushData` takes what `ContractCall` says of a call:
executed or not, and true, false, an exception or no return at all.

`Uplink` is what both together promise: a packet may be lost anywhere, but nothing
is pushed that no node signed, no packet is pushed twice or after a later one of
its node, and each push has the length its node meant. The refinement mapping is
`OnItsWay`, the packets in the nodes, in the gateway's radio, in its queue and with
the forwarder: a packet that is dropped at any of these places is `Lose`.

### KeyManagement: keys, and the two threads that use them

A process of the client program has a console thread (constructor, key commands)
and a sensor thread (encrypt and push), which share keys, shared secret and
`derriveSharedSecret` without a lock. The state is split between the contract
(`registry`), the configuration file (`file`) and the process (`memory`, `derive`,
`secret`); a crash loses the last. `updateLocalKeys` is seven steps (raise the
flag, two transactions, three copies, the file with them), the constructor five,
`encryptAndPushData` five. The two public keys, as bytes in memory, are copied at
different moments, so the sensor can see half of a new pair.

Every mutator call may fail after it was mined, before, or throw. Failures,
crashes and administrators' changes share one budget, `MaxTroubles`. Key pairs
are numbers and the key exchange is ideal: `Shared` is a function of the private
and the public key. `agreed` and `excuse` are history: what the properties need
to remember of an update that has returned.

`getDataAndDecrypt` has no step of its own: `Readable` is what it returns when
its three reads see one state.

## 3. Runs

| Run | Question | Result |
|---|---|---|
| `registry_lifecycle` | every order of adding and removing, with removals that do not fit: `IdConservation`, `CountsBalance`, `IdentityStable`, `ReferencesLive` | holds |
| `registry_records` | every record update while ids are recycled: `TypeOK`, `RecycledIdsStartEmpty` | holds |
| `registry_operated` | under the two rules, with administrators coming and going: `ListsExact`, `PoolExact`, `OwnersMapped`, `AdminIndexSound`, `ImplementsRegistry` | holds |
| `registry_last_admin` | `AtLeastOneAdmin`, the requirement at `dev_mgmt_contract.sol:585` | violated |
| `eventlog` | `TypeOK`, `WaiterFlagExact`, `TakeFindsLog`, `StrandedOnlyInWindow`, `ImplementsMailbox`, `MutexReleased` | holds |
| `call` | `CallTypeOK`, `TrueMeansExecuted`, `EntriesAccounted`, `QuietExplained`, `HangExplained` | holds |
| `call_preflight` | `PreflightSuffices`, the comment at `eth_interface.cpp:216` | violated |
| `listeners` | both listeners over a stream that breaks: `ListenersTypeOK`, `LogsAccounted`, `DeathExplained`, `UpdatesAccounted`, `EmptyOnlyAfterClear`, `ImplementsFeed`, `LogHandled`, `UpdateReported` | holds |
| `gateway` | nodes, gateway threads and a changing registry: `GatewayTypeOK`, `PacketsConserved`, `AttributionExplained`, `ImplementsUplink`, `ReceivedSettled`, `CloseExplained` | holds |
| `gateway_success` | `SuccessMeansPushed`, the message at `lora_trx.cpp:486` | violated |
| `keys` | two threads, crashes and failing calls: `KeysTypeOK`, `StaleExplained`, `AgreedAfterUpdate`, `FreshDataReadable` | holds |

`HandledInOrder`, `PushesInOrder` and `LengthsSurvive`, which the proofs state one by
one, are what `ImplementsFeed` and `ImplementsUplink` say of single states; the runs
check the refinements, which say more.

Every property of a passing run has a mutant in `PROJECT.json`: a plausible fault
in one definition that makes the property fail. The faulty definitions are the
`...Mutant` ones next to the originals; no specification uses them.

Several of the properties that hold name the reason for which the code falls
short of what one would like. In the model, which has the error paths of the code
they are about, there is no other reason:

- `HangExplained`, `QuietExplained`, `StrandedOnlyInWindow`, `ReceivedSettled` and
  `UpdateReported`: a
  notification between the unlocked test and the wait is lost, in each of the
  three queues of the program, and the item stays next to its sleeping reader.
- `CloseExplained`: `close_server` joins a forwarder that sleeps on its queue and
  is woken before it sleeps, so it may never return.
- `ReferencesLive`: the address of a gateway managed device keeps its id when the
  device is removed, since `remove_device` unmaps only addresses with
  `has_eth_addr`, and is taken for whoever holds the id next. No other address is
  ever led to an id that is not its own, and the default receiver is never left
  with a removed id.
- `LogsAccounted`, `LogHandled`: a line the previous connection left unfinished
  spoils the first log of the next one; what arrives together with the last
  subscription reply keeps the thread in the setup for ever.
- `DeathExplained`: the event listener thread ends, and with it the process, when
  a setup fails (or restarts: it connects a socket that is still open), when something arrives
  together with the last subscription reply, and when `ethabi` fails on a log, as
  `ethabi_decode_log` is called outside any `try` in the main loop
  (`subscription_server.cpp:382`). A log of an unknown subscription would end it too:
  line 368 sets up again and then still decodes that log, without the name of an
  event. The property says that the thread never meets one, and that no way in
  which the stream is cut into reads ends it.
- `StaleExplained`: the sensor thread clears `derriveSharedSecret` after it
  derived the secret from keys that an update, or a reload, is replacing, and
  goes on with a stale secret until the next update.
- `AttributionExplained`: data of a removed node is pushed for the next holder
  of its id only when the record changed between `verifySignature` and
  `push_data`.

What the three violations show:

- `deauthorize_admin` requires `active_admin_users.length > 1`, but
  `delete list[i]` never shortens the list. After one more administrator was
  authorised and removed, the last one can be removed too and nobody can
  administer the registry again. The list keeps holes of `address(0)`, contrary
  to the comment at line 591.
- Two calls that both passed their `eth_call` can need the same precondition.
  The second transaction reverts, its receipt is accepted without its status,
  and its `getEventLog` waits for a log that never comes.
- `processPacket` catches exceptions of `push_data` but ignores the false it
  returns for a transaction that was refused, and prints that the packet was
  forwarded. The device was removed after its signature had been verified.

### Bounds and why they are enough

- `MaxDeviceId = 3` (lifecycle, operated): the free stack reaches a depth of
  three in every order, and swap-and-pop happens at the first, the middle and
  the last position. `registry_records` has two ids and one client, which can be
  device, managed device or gateway at either id, and one value per field next
  to the empty one: the properties only tell empty from not empty. Address type
  4 is the one the enum conversion must refuse.
- `MaxAdminList`: the length of the administrator list, which never shrinks;
  three slots reach every swap, also the swap of a hole.
- `NoReceiver`, `OneReceiver` (state constraints): how many records have a data
  receiver set. Nothing in the contract reads that field to decide anything, so
  the lifecycle runs leave it at 0, and `registry_records` follows one record
  with a receiver.
- `MaxInbox = 2` or `3`: logs read and not stored; a third log of `eventlog` could
  only repeat one of its two hashes.
- `MaxRetries`: 25 in the code (`eth_interface.hpp:13`). 1 lets a call give up
  before, between and after the receipt; higher values add only stuttering.
- Three threads over two logs in `eventlog` (any thread may ask for any log, also
  one that is being waited for); two calls and a foreign transaction in `call`.
- `Events = 2`, `MaxLogs = 2`, `MaxFaults = 2`, `MaxMoves = 1` in `listeners`: logs can
  arrive before, between and behind the replies of one setup; one fault tears a
  connection and one more falls into the next, which is where the stale buffer
  of the first matters. The two listeners are alternatives of the initial state:
  they share no state.
- `MaxPackets = 2`, `MaxEpoch = 1`, `MaxMessages = 1` in `gateway`: one packet is in
  the queue while the other is being processed, and the record changes at any
  point of either. `Length = {12, 155, 300}`: a reading; one that `sendData` admits although
  its packet is 256 bytes long, which is 0 in a byte; and one whose own length
  does not fit in a byte and is sent as 44. `NodesSetUp`: the gateway starts after the
  nodes; they meet for the first time in a transmission.
- `MaxKeys = 3`, `MaxTroubles = 2` in `keys`: a second update for one of the two
  devices, and a crash after a failed call.
- Symmetry is used over clients and, in `call_preflight`, over threads; never in
  a run with a liveness property.

`CHECK_DEADLOCK FALSE` is set where the system really stops: a registry without
administrators, a process that crashed, whose listener died, that is closed or
whose calls have returned or hang, and processes that have used up the bounds.

### Fairness

Weak fairness of each thread's own steps and of the listener threads: the
operating system schedules threads, and every mutex is free again after its
critical section. In `LoraTrx` also of `Join`, in `MCListeners` also of the node's
answer to a request. No fairness for spurious wake-ups, for callers, for
requests or helper runs that fail (`OwnIdUnread`, `Dies`), for the node otherwise (a transaction may never be mined, a
log may never be delivered), for administrators or for crashes. `KeysSpec`
states none: its properties are safety properties.

In `EventLogWait` alone, with unbounded traffic, a thread may lose the race for
the mutex forever, so the liveness checked there is only that the mutex is
released. That a call returns is checked in `ContractCall`, where traffic is
finite. `HangExplained` says a call ends unless its transaction reverted, its
log was lost, it was stranded in the window of `StrandedOnlyInWindow`, or the
process is gone; each of these really keeps a call from returning.

## 4. Proofs

All theorems hold for any sets of addresses, threads, logs, keys, nodes and
values and for any bounds, under the named assumptions of the modules. They state
every invariant, action property and refinement of the passing runs; all four
abstract specifications (`Registry`, `Mailbox`, `LogFeed`, `Uplink`) are proved to be
implemented.

| Module | Theorem | States |
|---|---|---|
| `DeviceMgmtProofs` | `TypeCorrect`, `AdminsAgree` | `Spec => []TypeOK`, `Spec => []AdminIndexSound` |
| | `LockoutNeedsSecondAdmin`, `LockoutBySelf`, `LockoutForEver` | when and how the last administrator is lost, and that it is for ever |
| `DeviceIdProofs` | `IdsConserved`, `RecycledEmpty`, `DefaultReceiverExists`, `ReferencesKept`, `CountsAddUp`, `IdentityKept` | `IdConservation`, `RecycledIdsStartEmpty`, `DefaultReceiverLive`, `ReferencesLive`, `CountsBalance`, `IdentityStable` |
| `OperatedRegistryProofs` | `ListsAgree`, `PoolAgrees`, `OwnersAgree`, `IsRegistry` | `ListsExact`, `PoolExact`, `OwnersMapped`, `ImplementsRegistry` |
| | `RecordsProtected` | who may change what a device or gateway has written |
| `EventLogWaitProofs` | `WaitTypeCorrect`, `FlagExact`, `LogFound`, `StrandedInWindow`, `IsMailbox` | `TypeOK`, `WaiterFlagExact`, `TakeFindsLog`, `StrandedOnlyInWindow`, `ImplementsMailbox` |
| | `SectionsExclude`, `MapChangesGuarded`, `NoDeadlock` | mutual exclusion of the critical sections; the map changes inside them only; no circular wait |
| `ContractCallProofs` | `CallTypeCorrect`, `TrueIsExecuted`, `EntriesExplained`, `QuietCallsExplained` | `CallTypeOK`, `TrueMeansExecuted`, `EntriesAccounted`, `QuietExplained` |
| | `LogsInOnePlace`, `AtMostOneWinner` | a log is in exactly one place until its call has it; of racing calls at most one returns true |
| `ListenersProofs` | `ListenersTypeCorrect`, `LogsInOrder`, `NoLogMissing`, `DeathsExplained`, `NoUpdateMissing`, `EmptyExplained`, `IsFeed` | `ListenersTypeOK`, `HandledInOrder`, `LogsAccounted`, `DeathExplained`, `UpdatesAccounted`, `EmptyOnlyAfterClear`, `ImplementsFeed` |
| | `NoLogForgotten`, `NoUpdateLeftBehind`, `NoUpdateForgotten`, `UpdatesGoToClient` | nothing that was received is left where nobody looks; the set of updates is emptied for the client only |
| `KeyManagementProofs` | `KeysTypeCorrect`, `StaleSecretExplained`, `FreshReadable`, `KeysAgree` | `KeysTypeOK`, `StaleExplained`, `FreshDataReadable`, `AgreedAfterUpdate` |
| `LoraTrxProofs` | `GatewayTypeCorrect`, `AttributionRight`, `LengthsKept`, `PushesOrdered`, `PacketsKept`, `IsUplink` | `GatewayTypeOK`, `AttributionExplained`, `LengthsSurvive`, `PushesInOrder`, `PacketsConserved`, `ImplementsUplink` |
| | `NoPacketForgotten`, `NobodyWakesForwarder`, `ClosedIsStill` | no packet lies next to a forwarder nobody wakes; what a shutdown waits for, and that it stops everything |

**Contract.** `TypeOK` is not inductive: `deauthorize_admin` writes the list at a
position it reads from the mapping. `AdminInv` adds `AdminIndexSound`, which
says that position is the administrator's own slot; its hard case is the swap,
where the slot moved may be a hole of `address(0)` (`DeauthorizeAdminSound`).
`IdInv` strengthens `IdConservation` by two facts: free ids have empty records,
and pooled addresses are clients'. Together they say that `remove_gateway`, which
does not ask whether its id is in use, can only succeed for one that is. The
lemmas `PushProperties` and `PopProperties` turn the stack into a set, and
`...Effect` lemmas say what each transaction does to the set of ids in use.
`CountsAddUp` follows from these and cardinality facts. `ReferencesKept` rests on `Addressed`:
a record with an address has `has_eth_addr` set. So either removal unmaps the address of
the record it deletes (`RemovalReferences`), and as a free id has an empty record, a
registration cannot take an id over that some address owns (`AddReferences`).

Of the last administrator, whose loss `registry_last_admin` shows, the proofs say
how far it goes. `Operable` is an administrator who can send transactions.
`ListGuards` is what the requirement of `deauthorize_admin` does achieve: while the
list has one slot its administrator stays, so only a second authorisation opens
the way (`LockoutNeedsSecondAdmin`). Then still nobody is locked out by somebody
else (`LockoutBySelf`), but there is no way back (`LockoutForEver`).

**Contract under the two rules.** `ListsExact`, `PoolExact` and `OwnersMapped` need
each other and one fact more, `KindsExact`: a registered id has an address of its
own exactly if it is not gateway managed. `OperatedInv` is their conjunction
with `AdminInv` and `IdInv`. `SwapPopRemoves` is the property of swap-and-pop on a
list without repetitions; `RemovalListed` adds what `Unlisted` does to the records.
The first rule is used where a removal takes the id from the list it is in
(`RemovalsAlike`), the second where a managed device is given an address
(`FreeAddressOwnsNothing`). In the refinement, `RegistryStep` maps each transaction
to an operation of `Registry` or to a stutter. `RecordsProtected` is where the two rules
pay: the swaps of a removal move the index and nothing else of the record moved
(`RemovalContents`), a new device never gets an id in use, and by `PoolExact` an account
with gateway rights is the client of a gateway that is still registered.

**Event log manager.** `WaitInv` is `TypeOK`, `WaiterFlagExact`, `TakeFindsLog` and
`Bookkeeping` (who is inside `getEventLog` knows its log; the listener holds the
mutex only to set one). It needs no mutual exclusion: the flag alone keeps two
threads from waiting for the same log, so no step of another thread erases the
entry of a waiter. `MailboxStep` maps each step to an operation of `Mailbox` or
to a stutter.

Mutual exclusion is an invariant of its own, `HolderInside`: a thread is inside a
critical section exactly if it owns `mtx`. From it follows that nobody but the owner
changes the map (`MapChangesGuarded`), so the undefined behaviour of the unlocked
reads is confined to the moments in which `RaceCrash` is enabled, and that the
threads and the listener cannot wait for each other in a circle (`NoDeadlock`):
when none can go on, the mutex is free, the listener has nothing left, and who is
not outside sleeps in `cv.wait()`.

**Calls.** On top of `WaitInv`, `CallSound` says for each call what its stage means
for its transaction, and `LogsOnce` where a log is: on its way, in its entry or
taken, never in two of these places, and always that of a transaction that
succeeded. `TrueIsExecuted`
follows because a call returns true only with its own log. That no other thread
asks for a call's log (`NeverBusy`) is what keeps `getEventLog` from throwing.
`LogsInOnePlace` sharpens `LogsOnce` to exactly one place. `AtMostOneWinner` needs to
know whom a slot of the contract was given to (`SlotsServed`): the transaction that
closed it, of which a true result is the proof. `QuietCallsExplained` combines
`NoDeadlock`'s argument with `LogsOnce`: a call that has not returned when
nothing moves any more sleeps, and its log, unless it was lost, is in its own entry.

**Listeners.** Both proofs look at all that is still to be read as one sequence: for
the event listener `LogStream`, which is `receiveParse`, `subscribeParse` and the wire
one behind the other. A read moves halves of messages from one part to the next and
leaves the sequence as it is (`ReadMoves`, `StreamStays`), and so does a log that the
setup keeps for later (`KeptForLater`); a line that is parsed is its first two halves
as long as the sequence consists of whole messages (`FramedLine`). What the node
appends, or cuts off when it closes the connection, keeps it so (`NodeAdds`).
`EventFlow` has six parts: where the thread is, that a reply is on its way only
where the setup waits for one, that the logs grow along handled, stream and
`emitted` (`EventOrder`), that behind a torn line come whole messages (`EventFrames`,
`Glued`), that no log is missing but the one the torn line spoiled
(`EventAccount`), and that, unless there was a burst, a log whose end is still to
be read is one of this connection (`EventOwn`), which `DeathsExplained` needs. No part is inductive without the others: that the thread does not
count one subscription too many needs the order, and the order of what is left
behind a reply needs that there was one reply only. `ReceiverFlow` is the same for
the data receiver, where the thread and the client hold parts of what was read.

`IsFeed` needs nothing more: by `EventOrder` each log that is handled was emitted, and
after those handled before (`NextLog`), which makes it a `HandOver`. That nothing
received is forgotten takes one fact about the node, `ReplyDue` (`AnswerFirst` in the
receiver): while a setup waits, the answer is on its way or the node owes it. So a
thread at rest is past its setup, and a sequence of whole messages without a line is
empty (`NoLineNothing`): `NoLogForgotten`, `NoUpdateLeftBehind`. From the set to the client the guarantee is `NoUpdateForgotten`:
a client sleeps next to an update only stranded, or about to be notified.

**Keys.** `KeysTypeOK` needs that a process that knows a receiver's key has an id to
ask for (`PeerKnown`). `SecretInv` says when the flag is clear, or is about to be,
the secret is that of the keys in memory or `excuse` names the step that changed
them; `CipherInv` carries the secret to the push. `AgreeInv` has two cases:
`Progress`, how far an update under way has come and what each stage has already
made equal, and `Settles`, what later reloads, failures and crashes keep equal.
The `Frame` lemmas say that a step of one device leaves the others alone.

**Gateway.** `Sound` says of every packet, wherever it is, that its length field
gives back the length `sendData` was given; `ForwarderInv` that as long as the record's version is the
one at which the signature was verified, the id's holder is the signer.
`PushesOrdered` rests on `OrderInv`: the numbers of a node's packets grow along
pushed, held, queue, air, node. `PacketsKept` rests on `PlaceInv`: a packet that was
numbered is in one of five kinds of places and absent from the other four, and a
node makes the next packet only when the one before has left it. Each step moves at
most one packet, and `LocatedSame` speaks for all the others.

`IsUplink` puts these together: by `OrderInv` the packet that is pushed is the oldest
of its node in `OnItsWay`, by `PlaceInv` it is nowhere else, by `Sound` it has its
length. Steps that lose more than one packet do not exist, so that each step is one
operation of `Uplink` or a stutter. `WaitInv` relates the queue, the places of the two
threads and `halt_server`: an empty queue is what the forwarder sleeps on unless the
server is about to notify it (`NoPacketForgotten`), and the threads leave, and
`close_server` joins them, one after the other (`NobodyWakesForwarder`,
`ClosedIsStill`).

Only model-checked: all liveness, which is out of the prover's reach, like ENABLED.
Each of these properties has a proved core, though: an invariant or action property
that says where the system can come to rest, to which fairness adds that it does.

| Model-checked | Proved |
|---|---|
| `MutexReleased` | `SectionsExclude`, `NoDeadlock` |
| `HangExplained` | `QuietCallsExplained` |
| `LogHandled` | `NoLogForgotten` |
| `UpdateReported` | `NoUpdateLeftBehind`, `NoUpdateForgotten`, `UpdatesGoToClient` |
| `ReceivedSettled` | `NoPacketForgotten` |
| `CloseExplained` | `NobodyWakesForwarder`, `ClosedIsStill` |

The predicates that say who can go on (`CanRun`, `ThreadRuns`, `ListenerMoves`,
`ReceiverMoves`, `ForwarderMoves`) are written out instead of ENABLED. No recursive
operator is used.

## 5. Not modelled, and what is left

Every component that keeps state and takes part in a hazard is modelled. Left
out, with the reasons:

- `create_contract` (`eth_interface.cpp`): runs once in the administrator's
  process, before there is a contract to share.
- The methods of the facade that are one call of the contract each and keep no
  state: `DeviceMgmt` has their effect, `ContractCall` their course.
- The console's and the client program's option handling, parsing and printing:
  one library call per command, no state between commands.
- `ethabi.cpp`, `misc.cpp`, the exception classes: text conversion and process
  I/O. That the ABI tool can fail is part of every call that can throw.
- Reading and writing of the configuration file beyond the private keys in it.
- The radio driver, the node's scripts, build files and vendored libraries.
- Cryptography: ideal in all modules.

Five hazards have no property; `PROJECT.json` says why for each. What could come
next:

1. `EventListener` composed with `EventLogWait` and `ContractCall`, instead of the
   arbitrary deliveries of the latter two.
2. `LoraTrx` over the whole of `DeviceMgmt` instead of one record of it.
