--------------------------- MODULE KeyManagement ----------------------------
(***************************************************************************)
(* The keys of devices that run the client program: class BlockchainSecLib *)
(* of src/blockchainsec.cpp, with the sensor loop of src/client.cpp.       *)
(*                                                                         *)
(* A process has two threads.  The console thread runs the constructor,    *)
(* which loads the keys, and later the commands that add a device or       *)
(* replace the keys.  The sensor thread encrypts readings and pushes them. *)
(* They share the keys in memory, the shared secret and the flag that says *)
(* the secret must be derived again, without a lock.  A process can end at *)
(* any moment; the registry and the configuration file stay.               *)
(*                                                                         *)
(* Key pair k is the k-th generated by updateLocalKeys, by any device, for *)
(* encryption and for signing alike; 0 is no key: the empty string in the  *)
(* registry or file, and memory that nothing has written.  A device is     *)
(* named by its owner and keeps its id when it is added again (the reuse   *)
(* of ids is DeviceMgmt's subject).  All owners are administrators.        *)
(*                                                                         *)
(* A mutator call is one step: it may report failure although it is mined  *)
(* (ContractCall shows when), and never success when it is not.            *)
(***************************************************************************)
EXTENDS Integers, FiniteSets

CONSTANTS
    Device,     \* the devices, each with a process
    Sensor,     \* those whose process runs with the sensor flag
    NoDevice,   \* device id 0
    MaxKeys,    \* bound: key pairs generated
    MaxTroubles \* bound: changes administrators make to the registry, calls
                \* that fail and processes that end, together

ASSUME KeyAssumption ==
    /\ Sensor \subseteq Device
    /\ NoDevice \notin Device
    /\ MaxKeys \in Nat /\ MaxTroubles \in Nat

VARIABLES
    registry,  \* per device: its record in the contract
    file,      \* the private keys in the configuration file
    memory,    \* localDeviceID # 0, the two key pairs, dataReceiver_pk
    derive,    \* derriveSharedSecret
    secret,    \* rxSharedKey
    console,   \* the console thread
    sensor,    \* the sensor thread, and the ciphertext it holds
    generated, \* key pairs generated so far
    troubles,  \* changes, failures and stops so far
    agreed,    \* history: the last updateLocalKeys is under way, or has
               \* returned true, and the device was not removed since it began
    excuse     \* history: what ran in the console thread since the secret
               \* was derived, or while it was being derived

vars == <<registry, file, memory, derive, secret, console, sensor, generated, troubles, agreed, excuse>>

Key == 1..MaxKeys

\* crypto_kx_client_session_keys and crypto_kx_server_session_keys: the
\* product of a private and a public key, with the two public keys.  The
\* client's rx key is the server's tx key.
Shared(sk, pk, client, server) == [product |-> {sk, pk}, client |-> client, server |-> server]

NoSecret == Shared(0, 0, 0, 0)

Unregistered == [active |-> FALSE, key |-> 0, sign |-> 0, receiver |-> NoDevice, data |-> NoSecret]

Added(r) == [Unregistered EXCEPT !.active = TRUE, !.receiver = r]

Both(k) == [pk |-> k, sk |-> k]

NoPair == Both(0)

Blank == [id |-> FALSE, pair |-> NoPair, signer |-> NoPair, peer |-> 0]

\* at: what the thread does next.  key: the pair being published, or the
\* public key read.  ok: the publications that returned true.  back: where
\* updateLocalKeys returns to.  other: the device read or added.
Console == [at |-> "down", key |-> 0, ok |-> {}, back |-> "ready", other |-> NoDevice]

ClientSecret(m) == Shared(m.pair.sk, m.peer, m.pair.pk, m.peer)

ServerSecret(m, nodePublicKey) == Shared(m.pair.sk, nodePublicKey, nodePublicKey, m.pair.pk)

Trouble(n) ==
    /\ troubles + n <= MaxTroubles
    /\ troubles' = troubles + n

\* Administrators have added the devices, all with the default data receiver;
\* no process has run.
KeysInit ==
    /\ \E r \in Device : registry = [d \in Device |-> Added(r)]
    /\ file = [d \in Device |-> [key |-> 0, sign |-> 0]]
    /\ memory = [d \in Device |-> Blank]
    /\ derive = [d \in Device |-> TRUE]
    /\ secret = [d \in Device |-> NoSecret]
    /\ console = [d \in Device |-> Console]
    /\ sensor = [d \in Device |-> [at |-> "off", cipher |-> NoSecret]]
    /\ generated = 0
    /\ troubles = 0
    /\ agreed = [d \in Device |-> "no"]
    /\ excuse = [d \in Device |-> {}]

Loading == {"id", "key", "sign", "receiver", "peer"}

Updating == {"publish", "publish_sign", "copy_pk", "copy_sk", "copy_sign", "return"}

\* What the console thread of d is in the middle of.
Underway(d) == (IF console[d].at \in Loading THEN {"reload"} ELSE {})
                   \cup (IF console[d].at \in Updating THEN {"update"} ELSE {})

-----------------------------------------------------------------------------
(* Processes                                                               *)

\* The process of d starts: BlockchainSecLib's members are as they are made,
\* and the constructor loads the local device's parameters.
Start(d) ==
    /\ console[d].at = "down"
    /\ console' = [console EXCEPT ![d].at = "id"]
    /\ UNCHANGED <<registry, file, memory, derive, secret, sensor, generated, troubles, agreed, excuse>>

\* Its memory is lost.
Ends(d) ==
    /\ console' = [console EXCEPT ![d] = Console]
    /\ sensor' = [sensor EXCEPT ![d] = [at |-> "off", cipher |-> NoSecret]]
    /\ memory' = [memory EXCEPT ![d] = Blank]
    /\ secret' = [secret EXCEPT ![d] = NoSecret]
    /\ derive' = [derive EXCEPT ![d] = TRUE]
    /\ excuse' = [excuse EXCEPT ![d] = {}]
    /\ Trouble(1)
    /\ UNCHANGED <<registry, file, generated, agreed>>

Crash(d) ==
    /\ console[d].at # "down"
    /\ Ends(d)

\* The constructor returns, and a sensor's main function goes on to sensor();
\* or a command of the console returns to the prompt.
Ready(d) ==
    /\ console' = [console EXCEPT ![d] = [Console EXCEPT !.at = "ready"]]
    /\ sensor' = IF sensor[d].at # "off" THEN sensor
                 ELSE [sensor EXCEPT ![d].at = IF d \in Sensor THEN "id" ELSE "none"]

\* An exception leaves the constructor, and the program with it; a command of
\* the console catches it.
Throws(d) ==
    \/ /\ sensor[d].at = "off"
       /\ Ends(d)
    \/ /\ sensor[d].at # "off"
       /\ Ready(d)
       /\ Trouble(1)
       /\ UNCHANGED <<registry, file, memory, derive, secret, generated, agreed, excuse>>

-----------------------------------------------------------------------------
(* updateLocalKeys                                                         *)

\* Definitions named ...Mutant are faulty variants of the definition that
\* follows them; the specification never uses them.

\* Fault: leaves derriveSharedSecret as it is.
BeginUpdateMutant(d, back) ==
    /\ generated < MaxKeys
    /\ generated' = generated + 1
    /\ console' = [console EXCEPT ![d] =
          [at |-> "publish", key |-> generated', ok |-> {}, back |-> back, other |-> NoDevice]]
    /\ excuse' = [excuse EXCEPT ![d] = IF sensor[d].at = "clear" THEN @ \cup {"update"} ELSE @]
    /\ agreed' = [agreed EXCEPT ![d] = "begun"]
    /\ UNCHANGED derive

\* derriveSharedSecret = true and two new key pairs.
BeginUpdate(d, back) ==
    /\ generated < MaxKeys
    /\ generated' = generated + 1
    /\ derive' = [derive EXCEPT ![d] = TRUE]
    /\ console' = [console EXCEPT ![d] =
          [at |-> "publish", key |-> generated', ok |-> {}, back |-> back, other |-> NoDevice]]
    /\ excuse' = [excuse EXCEPT ![d] = IF sensor[d].at = "clear" THEN @ \cup {"update"} ELSE @]
    /\ agreed' = [agreed EXCEPT ![d] = "begun"]

\* The console's update_local_keys.
UpdateLocalKeys(d) ==
    /\ console[d].at = "ready"
    /\ BeginUpdate(d, "ready")
    /\ UNCHANGED <<registry, file, memory, secret, sensor, troubles>>

\* Fault: publishes for an id the address had before.
PublishKeyMutant(d) ==
    /\ console[d].at = "publish"
    /\ \E mined \in BOOLEAN, ok \in BOOLEAN :
          /\ ok => mined
          /\ Trouble(IF ok THEN 0 ELSE 1)
          /\ registry' = IF mined THEN [registry EXCEPT ![d].key = console[d].key] ELSE registry
          /\ console' = [console EXCEPT ![d] =
                [@ EXCEPT !.ok = IF ok THEN {"key"} ELSE {}, !.at = "publish_sign"]]
    /\ UNCHANGED <<file, memory, derive, secret, sensor, generated, agreed, excuse>>

\* update_publickey(get_my_device_id(), pkHex)
PublishKey(d) ==
    /\ console[d].at = "publish"
    /\ registry[d].active
    /\ \E mined \in BOOLEAN, ok \in BOOLEAN :
          /\ ok => mined
          /\ Trouble(IF ok THEN 0 ELSE 1)
          /\ registry' = IF mined THEN [registry EXCEPT ![d].key = console[d].key] ELSE registry
          /\ console' = [console EXCEPT ![d] =
                [@ EXCEPT !.ok = IF ok THEN {"key"} ELSE {}, !.at = "publish_sign"]]
    /\ UNCHANGED <<file, memory, derive, secret, sensor, generated, agreed, excuse>>

\* update_signkey(get_my_device_id(), signPublicKeyHex)
PublishSign(d) ==
    /\ console[d].at = "publish_sign"
    /\ registry[d].active
    /\ \E mined \in BOOLEAN, ok \in BOOLEAN :
          /\ ok => mined
          /\ Trouble(IF ok THEN 0 ELSE 1)
          /\ registry' = IF mined THEN [registry EXCEPT ![d].sign = console[d].key] ELSE registry
          /\ console' = [console EXCEPT ![d] =
                [@ EXCEPT !.ok = IF ok THEN console[d].ok \cup {"sign"} ELSE console[d].ok,
                          !.at = IF "key" \in console[d].ok THEN "copy_pk"
                                 ELSE IF ok THEN "copy_sign" ELSE "return"]]
    /\ UNCHANGED <<file, memory, derive, secret, sensor, generated, agreed, excuse>>

\* get_my_device_id throws for an address that has no device id, and every
\* call can when the node or the ABI tool fails.
UpdateThrows(d) ==
    /\ console[d].at \in {"publish", "publish_sign"}
    /\ Throws(d)

\* The two memcpys of the new pair; the file is written after the second.
CopyPublic(d) ==
    /\ console[d].at = "copy_pk"
    /\ memory' = [memory EXCEPT ![d].pair.pk = console[d].key]
    /\ console' = [console EXCEPT ![d].at = "copy_sk"]
    /\ UNCHANGED <<registry, file, derive, secret, sensor, generated, troubles, agreed, excuse>>

CopyPrivate(d) ==
    /\ console[d].at = "copy_sk"
    /\ memory' = [memory EXCEPT ![d].pair.sk = console[d].key]
    /\ file' = [file EXCEPT ![d].key = console[d].key]
    /\ console' = [console EXCEPT
          ![d].at = IF "sign" \in console[d].ok THEN "copy_sign" ELSE "return"]
    /\ UNCHANGED <<registry, derive, secret, sensor, generated, troubles, agreed, excuse>>

\* The signing pair, in memory and in the file.
CopySign(d) ==
    /\ console[d].at = "copy_sign"
    /\ memory' = [memory EXCEPT ![d].signer = Both(console[d].key)]
    /\ file' = [file EXCEPT ![d].sign = console[d].key]
    /\ console' = [console EXCEPT ![d].at = "return"]
    /\ UNCHANGED <<registry, derive, secret, sensor, generated, troubles, agreed, excuse>>

\* Fault: true as soon as one of the keys was published.
ReturnsMutant(d) ==
    /\ console[d].at = "return"
    /\ agreed' = [agreed EXCEPT ![d] = IF @ = "begun" /\ console[d].ok # {} THEN "yes" ELSE "no"]
    /\ \/ console[d].back = "receiver" /\ console' = [console EXCEPT ![d].at = "receiver"] /\ UNCHANGED sensor
       \/ console[d].back = "ready" /\ Ready(d)
    /\ UNCHANGED <<registry, file, memory, derive, secret, generated, troubles, excuse>>

Returns(d) ==
    /\ console[d].at = "return"
    /\ agreed' = [agreed EXCEPT ![d] =
          IF @ = "begun" /\ console[d].ok = {"key", "sign"} THEN "yes" ELSE "no"]
    /\ \/ console[d].back = "receiver" /\ console' = [console EXCEPT ![d].at = "receiver"] /\ UNCHANGED sensor
       \/ console[d].back = "ready" /\ Ready(d)
    /\ UNCHANGED <<registry, file, memory, derive, secret, generated, troubles, excuse>>

UpdateStep(d) ==
    \/ UpdateLocalKeys(d) \/ PublishKey(d) \/ PublishSign(d) \/ UpdateThrows(d)
    \/ CopyPublic(d) \/ CopyPrivate(d) \/ CopySign(d) \/ Returns(d)

-----------------------------------------------------------------------------
(* loadLocalDeviceParameters and loadDataReceiverPublicKey                 *)

\* get_my_device_id; for a device without one, get_datareceiver(0) is 0 or
\* throws, and the receiver's key is left as it is.
LoadId(d) ==
    /\ console[d].at = "id"
    /\ \E found \in {FALSE} \cup {registry[d].active} :
          /\ Trouble(IF found = registry[d].active THEN 0 ELSE 1)
          /\ memory' = [memory EXCEPT ![d].id = found]
          /\ IF found THEN console' = [console EXCEPT ![d].at = "key"] /\ UNCHANGED sensor
             ELSE Ready(d)
    /\ UNCHANGED <<registry, file, derive, secret, generated, agreed, excuse>>

\* get_key(localDeviceID), "" when it throws.
LoadKey(d) ==
    /\ console[d].at = "key"
    /\ \E k \in {0, registry[d].key} :
          /\ Trouble(IF k = registry[d].key THEN 0 ELSE 1)
          /\ console' = [console EXCEPT ![d] = [@ EXCEPT !.key = k, !.at = "sign"]]
    /\ UNCHANGED <<registry, file, memory, derive, secret, sensor, generated, agreed, excuse>>

\* get_signkey(localDeviceID), "" when it throws.  A pair is loaded when the
\* file has the private key and the contract the public one, whether or not
\* they belong together.
LoadSign(d) ==
    /\ console[d].at = "sign"
    /\ \E s \in {0, registry[d].sign} :
          LET k == console[d].key
              f == file[d]
              m == memory[d]
          IN  /\ Trouble(IF s = registry[d].sign THEN 0 ELSE 1)
              /\ IF {k, s, f.key, f.sign} = {0}
                 THEN BeginUpdate(d, "receiver") /\ UNCHANGED memory
                 ELSE /\ memory' = [memory EXCEPT ![d] =
                            [@ EXCEPT !.pair = IF f.key # 0 /\ k # 0 THEN [pk |-> k, sk |-> f.key] ELSE m.pair,
                                      !.signer = IF f.sign # 0 /\ s # 0 THEN [pk |-> s, sk |-> f.sign] ELSE m.signer]]
                      /\ console' = [console EXCEPT ![d].at = "receiver"]
                      /\ excuse' = [excuse EXCEPT ![d] = @ \cup {"reload"}]
                      /\ UNCHANGED <<derive, generated, agreed>>
    /\ UNCHANGED <<registry, file, secret, sensor>>

\* get_datareceiver: none, or the call throws.
LoadReceiver(d) ==
    /\ console[d].at = "receiver"
    /\ \E r \in {NoDevice, registry[d].receiver} :
          /\ Trouble(IF r = registry[d].receiver THEN 0 ELSE 1)
          /\ IF r = NoDevice THEN Ready(d)
             ELSE /\ console' = [console EXCEPT ![d] = [@ EXCEPT !.other = r, !.at = "peer"]]
                  /\ UNCHANGED sensor
    /\ UNCHANGED <<registry, file, memory, derive, secret, generated, agreed, excuse>>

\* get_key(dataReceiver): it is kept unless it is empty or the call throws.
LoadPeer(d) ==
    /\ console[d].at = "peer"
    /\ \E k \in {0, registry[console[d].other].key} :
          /\ Trouble(IF k = registry[console[d].other].key THEN 0 ELSE 1)
          /\ memory' = [memory EXCEPT ![d].peer = IF k = 0 THEN @ ELSE k]
          /\ excuse' = [excuse EXCEPT ![d] = @ \cup {"reload"}]
    /\ Ready(d)
    /\ UNCHANGED <<registry, file, derive, secret, generated, agreed>>

LoadStep(d) ==
    LoadId(d) \/ LoadKey(d) \/ LoadSign(d) \/ LoadReceiver(d) \/ LoadPeer(d)

-----------------------------------------------------------------------------
(* The registry                                                            *)

\* What the default data receiver may be.
Default == {NoDevice} \cup {r \in Device : registry[r].active}

\* add_device of device e by the console of d.
AddDevice(d, e) ==
    /\ console[d].at = "ready"
    /\ ~registry[e].active
    /\ \E mined \in BOOLEAN, ok \in BOOLEAN, r \in Default :
          /\ ok => mined
          /\ registry' = IF mined THEN [registry EXCEPT ![e] = Added(r)] ELSE registry
          /\ console' = IF ok THEN [console EXCEPT ![d] = [@ EXCEPT !.at = "added", !.other = e]] ELSE console
    /\ Trouble(1)
    /\ UNCHANGED <<file, memory, derive, secret, sensor, generated, agreed, excuse>>

\* add_device compares the new id with its own; get_my_device_id throws when
\* it has none, although the device has been added.
AddedOwn(d) ==
    /\ console[d].at = "added"
    /\ \/ /\ registry[d].active
          /\ console[d].other = d
          /\ console' = [console EXCEPT ![d].at = "id"]
          /\ UNCHANGED sensor
       \/ /\ console[d].other # d \/ ~registry[d].active
          /\ Ready(d)
    /\ UNCHANGED <<registry, file, memory, derive, secret, generated, troubles, agreed, excuse>>

\* remove_device, remove_gateway.
RemoveDevice(e) ==
    /\ registry[e].active
    /\ registry' = [registry EXCEPT ![e] = Unregistered]
    /\ agreed' = [agreed EXCEPT ![e] = "no"]
    /\ Trouble(1)
    /\ UNCHANGED <<file, memory, derive, secret, console, sensor, generated, excuse>>

\* update_datareceiver
UpdateReceiver(e, r) ==
    /\ registry[e].active
    /\ registry[r].active
    /\ registry[e].receiver # r
    /\ registry' = [registry EXCEPT ![e].receiver = r]
    /\ Trouble(1)
    /\ UNCHANGED <<file, memory, derive, secret, console, sensor, generated, agreed, excuse>>

RegistryStep(d) ==
    \/ AddedOwn(d)
    \/ RemoveDevice(d)
    \/ \E e \in Device : AddDevice(d, e) \/ UpdateReceiver(d, e)

-----------------------------------------------------------------------------
(* sensor and encryptAndPushData                                           *)

\* get_my_device_id: when it throws, the loop ends.
ReadOwnId(d) ==
    /\ sensor[d].at = "id"
    /\ \E found \in {FALSE} \cup {registry[d].active} :
          /\ Trouble(IF found = registry[d].active THEN 0 ELSE 1)
          /\ sensor' = [sensor EXCEPT ![d].at = IF found THEN "test" ELSE "stopped"]
    /\ UNCHANGED <<registry, file, memory, derive, secret, console, generated, agreed, excuse>>

TestFlag(d) ==
    /\ sensor[d].at = "test"
    /\ sensor' = [sensor EXCEPT ![d].at = IF derive[d] THEN "derive" ELSE "encrypt"]
    /\ UNCHANGED <<registry, file, memory, derive, secret, console, generated, troubles, agreed, excuse>>

\* Fault: derives the session keys of a server.
DeriveMutant(d) ==
    /\ sensor[d].at = "derive"
    /\ \/ /\ secret' = [secret EXCEPT ![d] = ServerSecret(memory[d], memory[d].peer)]
          /\ sensor' = [sensor EXCEPT ![d].at = "clear"]
          /\ excuse' = [excuse EXCEPT ![d] = Underway(d)]
          /\ UNCHANGED <<registry, file, memory, derive, console, generated, troubles, agreed>>
       \/ /\ memory[d].peer = 0
             /\ Ends(d)

\* Of memory nobody has written, the session keys are anything, or sodium
\* refuses it and the exception ends the program.
Derive(d) ==
    /\ sensor[d].at = "derive"
    /\ \/ /\ secret' = [secret EXCEPT ![d] = ClientSecret(memory[d])]
          /\ sensor' = [sensor EXCEPT ![d].at = "clear"]
          /\ excuse' = [excuse EXCEPT ![d] = Underway(d)]
          /\ UNCHANGED <<registry, file, memory, derive, console, generated, troubles, agreed>>
       \/ /\ memory[d].peer = 0
             /\ Ends(d)

ClearFlag(d) ==
    /\ sensor[d].at = "clear"
    /\ derive' = [derive EXCEPT ![d] = FALSE]
    /\ excuse' = [excuse EXCEPT ![d] = @ \cup Underway(d)]
    /\ sensor' = [sensor EXCEPT ![d].at = "encrypt"]
    /\ UNCHANGED <<registry, file, memory, secret, console, generated, troubles, agreed>>

Encrypt(d) ==
    /\ sensor[d].at = "encrypt"
    /\ sensor' = [sensor EXCEPT ![d] = [at |-> "push", cipher |-> secret[d]]]
    /\ UNCHANGED <<registry, file, memory, derive, secret, console, generated, troubles, agreed, excuse>>

\* push_data(localDeviceID, ...): its result is dropped.
PushData(d) ==
    /\ sensor[d].at = "push"
    /\ LET accepted == memory[d].id /\ registry[d].active
       IN  \E mined \in {FALSE, accepted} :
              /\ Trouble(IF mined = accepted THEN 0 ELSE 1)
              /\ registry' = IF mined THEN [registry EXCEPT ![d].data = sensor[d].cipher]
                             ELSE registry
    /\ sensor' = [sensor EXCEPT ![d] = [at |-> "id", cipher |-> NoSecret]]
    /\ UNCHANGED <<file, memory, derive, secret, console, generated, agreed, excuse>>

SensorStep(d) ==
    ReadOwnId(d) \/ TestFlag(d) \/ Derive(d) \/ ClearFlag(d) \/ Encrypt(d) \/ PushData(d)

-----------------------------------------------------------------------------
KeysNext ==
    \E d \in Device :
        \/ Start(d)
        \/ Crash(d)
        \/ UpdateStep(d)
        \/ LoadStep(d)
        \/ RegistryStep(d)
        \/ SensorStep(d)

KeysSpec == KeysInit /\ [][KeysNext]_vars

-----------------------------------------------------------------------------
(* Correctness                                                             *)

\* What the variables hold while n key pairs have been generated.
SecretType == [product : SUBSET (0..MaxKeys), client : 0..MaxKeys, server : 0..MaxKeys]

RecordType(n) == [active : BOOLEAN, key : 0..n, sign : 0..n,
                  receiver : Device \cup {NoDevice}, data : SecretType]

FileType(n) == [key : 0..n, sign : 0..n]

PairType(n) == [pk : 0..n, sk : 0..n]

MemoryType(n) == [id : BOOLEAN, pair : PairType(n), signer : PairType(n), peer : 0..n]

ConsoleType(n) == [at : {"down", "ready", "added"} \cup Loading \cup Updating,
                   key : 0..n, ok : SUBSET {"key", "sign"},
                   back : {"ready", "receiver"}, other : Device \cup {NoDevice}]

SensorType == [at : {"off", "none", "id", "test", "derive", "clear", "encrypt", "push", "stopped"},
               cipher : SecretType]

\* Every variable has its type, a key nobody generated appears nowhere, and a
\* device that is not registered has no record.
KeysTypeOK ==
    /\ generated \in 0..MaxKeys
    /\ registry \in [Device -> RecordType(generated)]
    /\ \A d \in Device : registry[d].active \/ registry[d] = Unregistered
    /\ file \in [Device -> FileType(generated)]
    /\ memory \in [Device -> MemoryType(generated)]
    /\ derive \in [Device -> BOOLEAN]
    /\ secret \in [Device -> SecretType]
    /\ console \in [Device -> ConsoleType(generated)]
    /\ sensor \in [Device -> SensorType]
    /\ troubles \in 0..MaxTroubles
    /\ agreed \in [Device -> {"no", "begun", "yes"}]
    /\ excuse \in [Device -> SUBSET {"reload", "update"}]

\* The flag promises to recalculate the shared key if the keys have changed.
\* With the flag clear the secret is that of the keys in memory, unless an
\* update or a reload in the console thread ran since, or while, the sensor
\* thread derived it.
StaleExplained ==
    \A d \in Device :
        ~derive[d] => secret[d] = ClientSecret(memory[d]) \/ excuse[d] # {}

\* After updateLocalKeys has returned true and while the device stays
\* registered, contract and configuration file hold the same two key pairs,
\* and memory holds them or, after a restart that failed to read them, none.
AgreedAfterUpdate ==
    \A d \in Device :
        agreed[d] = "yes" =>
            /\ registry[d].key = file[d].key
            /\ registry[d].sign = file[d].sign
            /\ memory[d].pair \in {NoPair, Both(registry[d].key)}
            /\ memory[d].signer \in {NoPair, Both(registry[d].sign)}

\* getDataAndDecrypt by the data receiver of d returns what d encrypted.
Readable(d) ==
    LET r == registry[d].receiver
    IN  r # NoDevice /\ registry[d].data = ServerSecret(memory[r], registry[d].key)

HoldsPublished(d) == registry[d].key # 0 /\ memory[d].pair = Both(registry[d].key)

Settled(d) ==
    LET r == registry[d].receiver
    IN  /\ ~derive[d] /\ excuse[d] = {}
        /\ r # NoDevice
        /\ HoldsPublished(d) /\ HoldsPublished(r)
        /\ memory[d].peer = registry[r].key

\* Data that is pushed while sender and receiver hold the pairs they published
\* and the sender knows the receiver's key can be decrypted, whatever updates,
\* reloads and restarts came before and even if one began during the push.
FreshDataReadable ==
    [][\A d \in Device :
          sensor[d].at = "push" /\ sensor'[d].at = "id" /\ registry' # registry /\ Settled(d)
              => Readable(d)']_vars

=============================================================================
