-------------------------- MODULE KeyManagementProofs -------------------------
(***************************************************************************)
(* Proofs about the keys of KeyManagement: all that is kept is well typed, *)
(* the shared secret is stale for one of two reasons only, what is         *)
(* encrypted with a fresh one is readable, and contract, configuration     *)
(* file and memory agree on a device's keys after an updateLocalKeys that  *)
(* returned true.                                                          *)
(***************************************************************************)
EXTENDS KeyManagement, TLAPS

-----------------------------------------------------------------------------
(* Types                                                                   *)

\* The session keys of generated keys.
LEMMA SharedType ==
    ASSUME NEW a \in 0..MaxKeys, NEW b \in 0..MaxKeys, NEW c \in 0..MaxKeys, NEW e \in 0..MaxKeys
    PROVE  Shared(a, b, c, e) \in SecretType
  BY DEF Shared, SecretType

LEMMA NoSecretType == NoSecret \in SecretType
  BY KeyAssumption, SharedType DEF NoSecret

\* A key that was generated stays one.
LEMMA Grows ==
    ASSUME NEW n \in Nat
    PROVE  /\ RecordType(n) \subseteq RecordType(n+1)
           /\ FileType(n) \subseteq FileType(n+1)
           /\ MemoryType(n) \subseteq MemoryType(n+1)
           /\ ConsoleType(n) \subseteq ConsoleType(n+1)
<1>1. 0..n \subseteq 0..(n+1)
  OBVIOUS
<1>2. PairType(n) \subseteq PairType(n+1)
  BY <1>1 DEF PairType
<1>3. MemoryType(n) \subseteq MemoryType(n+1)
  BY <1>1, <1>2 DEF MemoryType
<1>4. RecordType(n) \subseteq RecordType(n+1)
  BY <1>1 DEF RecordType
<1>5. ConsoleType(n) \subseteq ConsoleType(n+1)
  BY <1>1 DEF ConsoleType
<1>6. FileType(n) \subseteq FileType(n+1)
  BY <1>1 DEF FileType
<1> QED
  BY <1>3, <1>4, <1>5, <1>6

\* The values a variable starts with, or is reset to.
LEMMA Constants ==
    ASSUME NEW n \in Nat
    PROVE  /\ Unregistered \in RecordType(n)
           /\ \A r \in Device \cup {NoDevice} : Added(r) \in RecordType(n)
           /\ [key |-> 0, sign |-> 0] \in FileType(n)
           /\ Blank \in MemoryType(n)
           /\ Console \in ConsoleType(n)
           /\ [Console EXCEPT !.at = "ready"] \in ConsoleType(n)
           /\ \A at \in {"off", "id"} : [at |-> at, cipher |-> NoSecret] \in SensorType
<1>1. Unregistered \in RecordType(n)
  BY NoSecretType DEF Unregistered, RecordType
<1>2. ASSUME NEW r \in Device \cup {NoDevice} PROVE Added(r) \in RecordType(n)
  BY <1>1 DEF Added, RecordType
<1>3. [key |-> 0, sign |-> 0] \in FileType(n)
  BY DEF FileType
<1>4. NoPair \in PairType(n)
  BY DEF NoPair, Both, PairType
<1>5. Blank \in MemoryType(n)
  BY <1>4 DEF Blank, MemoryType
<1>6. Console \in ConsoleType(n)
  BY DEF Console, ConsoleType
<1>7. [Console EXCEPT !.at = "ready"] \in ConsoleType(n)
  BY <1>6 DEF ConsoleType
<1>8. ASSUME NEW at \in {"off", "id"} PROVE [at |-> at, cipher |-> NoSecret] \in SensorType
  BY NoSecretType DEF SensorType
<1> QED
  BY <1>1, <1>2, <1>3, <1>5, <1>6, <1>7, <1>8

\* loadDataReceiverPublicKey reads the key of a receiver it has found.
PeerKnown == \A d \in Device : console[d].at = "peer" => console[d].other # NoDevice

\* What type correctness says of one device.
LEMMA Parts ==
    ASSUME KeysTypeOK, NEW d \in Device
    PROVE  /\ generated \in Nat /\ generated <= MaxKeys
           /\ registry[d] \in RecordType(generated)
           /\ file[d] \in FileType(generated)
           /\ memory[d] \in MemoryType(generated)
           /\ secret[d] \in SecretType
           /\ console[d] \in ConsoleType(generated)
           /\ sensor[d] \in SensorType
           /\ excuse[d] \in SUBSET {"reload", "update"}
  BY KeyAssumption DEF KeysTypeOK

LEMMA TroubleType ==
    ASSUME troubles \in 0..MaxTroubles, NEW n \in {0, 1}, Trouble(n)
    PROVE  troubles' \in 0..MaxTroubles
  BY KeyAssumption DEF Trouble

LEMMA ReadyType ==
    ASSUME KeysTypeOK, NEW d \in Device, Ready(d)
    PROVE  /\ console' \in [Device -> ConsoleType(generated)]
           /\ sensor' \in [Device -> SensorType]
<1>1. console' \in [Device -> ConsoleType(generated)]
  BY Parts, Constants DEF Ready, KeysTypeOK
<1>2. sensor \in [Device -> SensorType]
  BY DEF KeysTypeOK
<1>3. \A at \in {"id", "none"} : [sensor EXCEPT ![d].at = at] \in [Device -> SensorType]
  BY <1>2 DEF SensorType
<1> QED
  BY <1>1, <1>2, <1>3 DEF Ready

LEMMA UnderwayType ==
    ASSUME NEW d \in Device PROVE Underway(d) \in SUBSET {"reload", "update"}
  BY DEF Underway

LEMMA BeginUpdateType ==
    ASSUME KeysTypeOK, NEW d \in Device, NEW back \in {"ready", "receiver"}, BeginUpdate(d, back),
           UNCHANGED <<registry, file, memory, secret, sensor>>, troubles' \in 0..MaxTroubles
    PROVE  KeysTypeOK'
<1>1. generated \in Nat /\ generated' = generated + 1 /\ generated' \in 0..MaxKeys
  BY Parts, KeyAssumption DEF BeginUpdate, KeysTypeOK
<1>2. [at |-> "publish", key |-> generated', ok |-> {}, back |-> back, other |-> NoDevice]
        \in ConsoleType(generated')
  BY <1>1 DEF ConsoleType, Updating
<1>3. console' \in [Device -> ConsoleType(generated')]
  BY <1>1, <1>2, Grows DEF KeysTypeOK, BeginUpdate
<1>4. /\ registry \in [Device -> RecordType(generated')]
      /\ file \in [Device -> FileType(generated')]
      /\ memory \in [Device -> MemoryType(generated')]
  BY <1>1, Grows DEF KeysTypeOK
<1>5. excuse' \in [Device -> SUBSET {"reload", "update"}]
  BY DEF KeysTypeOK, BeginUpdate
<1>6. derive' \in [Device -> BOOLEAN] /\ agreed' \in [Device -> {"no", "begun", "yes"}]
  BY DEF KeysTypeOK, BeginUpdate
<1> QED
  BY <1>1, <1>3, <1>4, <1>5, <1>6 DEF KeysTypeOK

LEMMA EndsType ==
    ASSUME KeysTypeOK, NEW d \in Device, Ends(d)
    PROVE  KeysTypeOK'
<1>1. generated \in Nat /\ {} \in SUBSET {"reload", "update"}
  BY Parts
<1>2. troubles' \in 0..MaxTroubles
  BY TroubleType DEF KeysTypeOK, Ends
<1> QED
  BY <1>1, <1>2, Constants, NoSecretType DEF KeysTypeOK, Ends

LEMMA ThrowsType ==
    ASSUME KeysTypeOK, NEW d \in Device, Throws(d)
    PROVE  KeysTypeOK'
<1>1. CASE Ends(d)
  BY <1>1, EndsType
<1>2. CASE /\ Ready(d)
           /\ Trouble(1)
           /\ UNCHANGED <<registry, file, memory, derive, secret, generated, agreed, excuse>>
  BY <1>2, ReadyType, TroubleType DEF KeysTypeOK
<1> QED
  BY <1>1, <1>2 DEF Throws

LEMMA UpdateType ==
    ASSUME KeysTypeOK, NEW d \in Device, UpdateStep(d)
    PROVE  KeysTypeOK'
<1>0. generated \in Nat
  BY Parts
<1>1. CASE UpdateLocalKeys(d)
  BY <1>1, BeginUpdateType DEF UpdateLocalKeys, KeysTypeOK
<1>2. CASE PublishKey(d)
  <2>1. PICK mined \in BOOLEAN, ok \in BOOLEAN :
          /\ Trouble(IF ok THEN 0 ELSE 1)
          /\ registry' = IF mined THEN [registry EXCEPT ![d].key = console[d].key] ELSE registry
          /\ console' = [console EXCEPT ![d] =
                [@ EXCEPT !.ok = IF ok THEN {"key"} ELSE {}, !.at = "publish_sign"]]
    BY <1>2 DEF PublishKey
  <2>2. troubles' \in 0..MaxTroubles
    BY <2>1, TroubleType DEF KeysTypeOK
  <2>3. registry' \in [Device -> RecordType(generated)]
    <3>1. [registry[d] EXCEPT !.key = console[d].key] \in RecordType(generated)
      BY Parts DEF RecordType, ConsoleType
    <3> QED
      BY <2>1, <3>1 DEF KeysTypeOK
  <2>4. \A e \in Device : registry'[e].active \/ registry'[e] = Unregistered
    BY <1>2, <2>1 DEF KeysTypeOK, PublishKey, RecordType
  <2>5. console' \in [Device -> ConsoleType(generated)]
    <3>1. [console[d] EXCEPT !.ok = IF ok THEN {"key"} ELSE {}, !.at = "publish_sign"] \in ConsoleType(generated)
      BY Parts DEF ConsoleType, Updating
    <3> QED
      BY <2>1, <3>1 DEF KeysTypeOK
  <2> QED
    BY <1>2, <2>2, <2>3, <2>4, <2>5 DEF KeysTypeOK, PublishKey
<1>3. CASE PublishSign(d)
  <2>1. PICK mined \in BOOLEAN, ok \in BOOLEAN :
          /\ Trouble(IF ok THEN 0 ELSE 1)
          /\ registry' = IF mined THEN [registry EXCEPT ![d].sign = console[d].key] ELSE registry
          /\ console' = [console EXCEPT ![d] =
                [@ EXCEPT !.ok = IF ok THEN console[d].ok \cup {"sign"} ELSE console[d].ok,
                          !.at = IF "key" \in console[d].ok THEN "copy_pk"
                                 ELSE IF ok THEN "copy_sign" ELSE "return"]]
    BY <1>3 DEF PublishSign
  <2>2. troubles' \in 0..MaxTroubles
    BY <2>1, TroubleType DEF KeysTypeOK
  <2>3. registry' \in [Device -> RecordType(generated)]
    <3>1. [registry[d] EXCEPT !.sign = console[d].key] \in RecordType(generated)
      BY Parts DEF RecordType, ConsoleType
    <3> QED
      BY <2>1, <3>1 DEF KeysTypeOK
  <2>4. \A e \in Device : registry'[e].active \/ registry'[e] = Unregistered
    <3>1. [registry[d] EXCEPT !.sign = console[d].key].active = registry[d].active
      BY Parts DEF RecordType
    <3>2. registry[d].active
      BY <1>3 DEF PublishSign
    <3> QED
      BY <2>1, <3>1, <3>2 DEF KeysTypeOK
  <2>5. console' \in [Device -> ConsoleType(generated)]
    <3>1. console'[d] \in ConsoleType(generated)
      <4> DEFINE ok2 == IF ok THEN console[d].ok \cup {"sign"} ELSE console[d].ok
                 at2 == IF "key" \in console[d].ok THEN "copy_pk" ELSE IF ok THEN "copy_sign" ELSE "return"
      <4>1. console'[d] = [console[d] EXCEPT !.ok = ok2, !.at = at2]
        BY <2>1 DEF KeysTypeOK
      <4>2. ok2 \in SUBSET {"key", "sign"}
        BY Parts DEF ConsoleType
      <4>3. at2 \in Updating
        BY DEF Updating
      <4> QED
        BY <4>1, <4>2, <4>3, Parts DEF ConsoleType
    <3> QED
      BY <2>1, <3>1 DEF KeysTypeOK
  <2> QED
    BY <1>3, <2>2, <2>3, <2>4, <2>5 DEF KeysTypeOK, PublishSign
<1>4. CASE UpdateThrows(d)
  BY <1>4, ThrowsType DEF UpdateThrows
<1>5. CASE CopyPublic(d)
  <2>1. [memory[d] EXCEPT !.pair.pk = console[d].key] \in MemoryType(generated)
    BY Parts DEF MemoryType, PairType, ConsoleType
  <2>2. [console[d] EXCEPT !.at = "copy_sk"] \in ConsoleType(generated)
    BY Parts DEF ConsoleType, Updating
  <2> QED
    BY <1>5, <2>1, <2>2 DEF KeysTypeOK, CopyPublic
<1>6. CASE CopyPrivate(d)
  <2>1. [memory[d] EXCEPT !.pair.sk = console[d].key] \in MemoryType(generated)
    BY Parts DEF MemoryType, PairType, ConsoleType
  <2>2. \A at \in Updating : [console[d] EXCEPT !.at = at] \in ConsoleType(generated)
    BY Parts DEF ConsoleType
  <2>3. [file[d] EXCEPT !.key = console[d].key] \in FileType(generated)
    BY Parts DEF FileType, ConsoleType
  <2>4. console' \in [Device -> ConsoleType(generated)]
    BY <1>6, <2>2 DEF KeysTypeOK, CopyPrivate, Updating
  <2> QED
    BY <1>6, <2>1, <2>3, <2>4 DEF KeysTypeOK, CopyPrivate
<1>7. CASE CopySign(d)
  <2>1. [memory[d] EXCEPT !.signer = Both(console[d].key)] \in MemoryType(generated)
    BY Parts DEF MemoryType, PairType, ConsoleType, Both
  <2>2. [console[d] EXCEPT !.at = "return"] \in ConsoleType(generated)
    BY Parts DEF ConsoleType, Updating
  <2>3. [file[d] EXCEPT !.sign = console[d].key] \in FileType(generated)
    BY Parts DEF FileType, ConsoleType
  <2> QED
    BY <1>7, <2>1, <2>2, <2>3 DEF KeysTypeOK, CopySign
<1>8. CASE Returns(d)
  <2>1. agreed' \in [Device -> {"no", "begun", "yes"}]
    BY <1>8 DEF KeysTypeOK, Returns
  <2>2. [console[d] EXCEPT !.at = "receiver"] \in ConsoleType(generated)
    BY Parts DEF ConsoleType, Loading
  <2>3. console' \in [Device -> ConsoleType(generated)] /\ sensor' \in [Device -> SensorType]
    BY <1>8, <2>2, ReadyType DEF KeysTypeOK, Returns
  <2> QED
    BY <1>8, <2>1, <2>3 DEF KeysTypeOK, Returns
<1> QED
  BY <1>1, <1>2, <1>3, <1>4, <1>5, <1>6, <1>7, <1>8 DEF UpdateStep

LEMMA LoadType ==
    ASSUME KeysTypeOK, PeerKnown, NEW d \in Device, LoadStep(d)
    PROVE  KeysTypeOK'
<1>0. generated \in Nat
  BY Parts
<1>1. CASE LoadId(d)
  <2>1. PICK found \in {FALSE} \cup {registry[d].active} :
          /\ Trouble(IF found = registry[d].active THEN 0 ELSE 1)
          /\ memory' = [memory EXCEPT ![d].id = found]
          /\ IF found THEN console' = [console EXCEPT ![d].at = "key"] /\ UNCHANGED sensor
             ELSE Ready(d)
    BY <1>1 DEF LoadId
  <2>2. troubles' \in 0..MaxTroubles
    BY <2>1, TroubleType DEF KeysTypeOK
  <2>3. found \in BOOLEAN
    BY Parts DEF RecordType
  <2>4. [memory[d] EXCEPT !.id = found] \in MemoryType(generated)
    BY <2>3, Parts DEF MemoryType
  <2>5. [console[d] EXCEPT !.at = "key"] \in ConsoleType(generated)
    BY Parts DEF ConsoleType, Loading
  <2>6. console' \in [Device -> ConsoleType(generated)] /\ sensor' \in [Device -> SensorType]
    BY <2>1, <2>5, ReadyType DEF KeysTypeOK
  <2>7. memory' \in [Device -> MemoryType(generated)]
    BY <2>1, <2>4 DEF KeysTypeOK
  <2> QED
    BY <1>1, <2>2, <2>6, <2>7 DEF KeysTypeOK, LoadId
<1>2. CASE LoadKey(d)
  <2>1. PICK k \in {0, registry[d].key} :
          /\ Trouble(IF k = registry[d].key THEN 0 ELSE 1)
          /\ console' = [console EXCEPT ![d] = [@ EXCEPT !.key = k, !.at = "sign"]]
    BY <1>2 DEF LoadKey
  <2>2. troubles' \in 0..MaxTroubles
    BY <2>1, TroubleType DEF KeysTypeOK
  <2>3. k \in 0..generated
    BY <1>0, Parts DEF RecordType
  <2>4. [console[d] EXCEPT !.key = k, !.at = "sign"] \in ConsoleType(generated)
    BY <2>3, Parts DEF ConsoleType, Loading
  <2> QED
    BY <1>2, <2>1, <2>2, <2>4 DEF KeysTypeOK, LoadKey
<1>3. CASE LoadSign(d)
  <2> DEFINE k == console[d].key
             f == file[d]
             m == memory[d]
  <2>1. PICK s \in {0, registry[d].sign} :
          /\ Trouble(IF s = registry[d].sign THEN 0 ELSE 1)
          /\ \/ BeginUpdate(d, "receiver") /\ UNCHANGED memory
             \/ /\ memory' = [memory EXCEPT ![d] =
                      [@ EXCEPT !.pair = IF f.key # 0 /\ k # 0 THEN [pk |-> k, sk |-> f.key] ELSE m.pair,
                                !.signer = IF f.sign # 0 /\ s # 0 THEN [pk |-> s, sk |-> f.sign] ELSE m.signer]]
                /\ console' = [console EXCEPT ![d].at = "receiver"]
                /\ excuse' = [excuse EXCEPT ![d] = @ \cup {"reload"}]
                /\ UNCHANGED <<derive, generated, agreed>>
    BY <1>3 DEF LoadSign
  <2>2. troubles' \in 0..MaxTroubles
    BY <2>1, TroubleType DEF KeysTypeOK
  <2>3. UNCHANGED <<registry, file, secret, sensor>>
    BY <1>3 DEF LoadSign
  <2>4. CASE BeginUpdate(d, "receiver") /\ UNCHANGED memory
    BY <2>2, <2>3, <2>4, BeginUpdateType
  <2>5. CASE /\ memory' = [memory EXCEPT ![d] =
                   [@ EXCEPT !.pair = IF f.key # 0 /\ k # 0 THEN [pk |-> k, sk |-> f.key] ELSE m.pair,
                             !.signer = IF f.sign # 0 /\ s # 0 THEN [pk |-> s, sk |-> f.sign] ELSE m.signer]]
             /\ console' = [console EXCEPT ![d].at = "receiver"]
             /\ excuse' = [excuse EXCEPT ![d] = @ \cup {"reload"}]
             /\ UNCHANGED <<derive, generated, agreed>>
    <3>1. s \in 0..generated /\ k \in 0..generated /\ f \in FileType(generated) /\ m \in MemoryType(generated)
      BY <1>0, Parts DEF RecordType, ConsoleType
    <3>2. /\ (IF f.key # 0 /\ k # 0 THEN [pk |-> k, sk |-> f.key] ELSE m.pair) \in PairType(generated)
          /\ (IF f.sign # 0 /\ s # 0 THEN [pk |-> s, sk |-> f.sign] ELSE m.signer) \in PairType(generated)
      BY <3>1 DEF FileType, PairType, MemoryType
    <3>3. \A p, q \in PairType(generated) : [m EXCEPT !.pair = p, !.signer = q] \in MemoryType(generated)
      BY <3>1 DEF MemoryType
    <3>4. memory' \in [Device -> MemoryType(generated)]
      BY <2>5, <3>2, <3>3 DEF KeysTypeOK
    <3>5. [console[d] EXCEPT !.at = "receiver"] \in ConsoleType(generated)
      BY Parts DEF ConsoleType, Loading
    <3>6. excuse' \in [Device -> SUBSET {"reload", "update"}]
      BY <2>5 DEF KeysTypeOK
    <3> QED
      BY <2>2, <2>3, <2>5, <3>4, <3>5, <3>6 DEF KeysTypeOK
  <2> QED
    BY <2>1, <2>4, <2>5
<1>4. CASE LoadReceiver(d)
  <2>1. PICK r \in {NoDevice, registry[d].receiver} :
          /\ Trouble(IF r = registry[d].receiver THEN 0 ELSE 1)
          /\ IF r = NoDevice THEN Ready(d)
             ELSE /\ console' = [console EXCEPT ![d] = [@ EXCEPT !.other = r, !.at = "peer"]]
                  /\ UNCHANGED sensor
    BY <1>4 DEF LoadReceiver
  <2>2. troubles' \in 0..MaxTroubles
    BY <2>1, TroubleType DEF KeysTypeOK
  <2>3. [console[d] EXCEPT !.other = r, !.at = "peer"] \in ConsoleType(generated)
    <3>1. r \in Device \cup {NoDevice}
      BY Parts DEF RecordType
    <3>2. console[d] \in ConsoleType(generated)
      BY Parts
    <3> QED
      BY <3>1, <3>2 DEF ConsoleType, Loading
  <2>4. console' \in [Device -> ConsoleType(generated)] /\ sensor' \in [Device -> SensorType]
    BY <2>1, <2>3, ReadyType DEF KeysTypeOK
  <2> QED
    BY <1>4, <2>2, <2>4 DEF KeysTypeOK, LoadReceiver
<1>5. CASE LoadPeer(d)
  <2>1. PICK k \in {0, registry[console[d].other].key} :
          /\ Trouble(IF k = registry[console[d].other].key THEN 0 ELSE 1)
          /\ memory' = [memory EXCEPT ![d].peer = IF k = 0 THEN @ ELSE k]
          /\ excuse' = [excuse EXCEPT ![d] = @ \cup {"reload"}]
    BY <1>5 DEF LoadPeer
  <2>2. troubles' \in 0..MaxTroubles
    BY <2>1, TroubleType DEF KeysTypeOK
  <2>3. excuse' \in [Device -> SUBSET {"reload", "update"}]
    BY <2>1 DEF KeysTypeOK
  <2>4. k \in 0..generated
    <3>1. console[d].other \in Device
      BY <1>5, Parts DEF LoadPeer, PeerKnown, ConsoleType
    <3>2. registry[console[d].other].key \in 0..generated
      BY <3>1, Parts DEF RecordType
    <3> QED
      BY <1>0, <3>2
  <2>5. (IF k = 0 THEN memory[d].peer ELSE k) \in 0..generated
    BY <2>4, Parts DEF MemoryType
  <2>6. \A p \in 0..generated : [memory[d] EXCEPT !.peer = p] \in MemoryType(generated)
    BY Parts DEF MemoryType
  <2>7. memory' \in [Device -> MemoryType(generated)]
    BY <2>1, <2>5, <2>6 DEF KeysTypeOK
  <2>8. console' \in [Device -> ConsoleType(generated)] /\ sensor' \in [Device -> SensorType]
    BY <1>5, ReadyType DEF LoadPeer
  <2> QED
    BY <1>5, <2>2, <2>3, <2>7, <2>8 DEF KeysTypeOK, LoadPeer
<1> QED
  BY <1>1, <1>2, <1>3, <1>4, <1>5 DEF LoadStep

LEMMA RegistryType ==
    ASSUME KeysTypeOK, NEW d \in Device, RegistryStep(d)
    PROVE  KeysTypeOK'
<1>0. generated \in Nat
  BY Parts
<1>1. CASE AddedOwn(d)
  <2>1. [console[d] EXCEPT !.at = "id"] \in ConsoleType(generated)
    BY Parts DEF ConsoleType, Loading
  <2>2. console' \in [Device -> ConsoleType(generated)] /\ sensor' \in [Device -> SensorType]
    BY <1>1, <2>1, ReadyType DEF KeysTypeOK, AddedOwn
  <2> QED
    BY <1>1, <2>2 DEF KeysTypeOK, AddedOwn
<1>2. CASE RemoveDevice(d)
  <2>1. troubles' \in 0..MaxTroubles
    BY <1>2, TroubleType DEF KeysTypeOK, RemoveDevice
  <2> QED
    BY <1>0, <1>2, <2>1, Constants DEF KeysTypeOK, RemoveDevice
<1>3. ASSUME NEW e \in Device, AddDevice(d, e) PROVE KeysTypeOK'
  <2>1. PICK mined \in BOOLEAN, ok \in BOOLEAN, r \in Default :
          /\ registry' = IF mined THEN [registry EXCEPT ![e] = Added(r)] ELSE registry
          /\ console' = IF ok THEN [console EXCEPT ![d] = [@ EXCEPT !.at = "added", !.other = e]] ELSE console
    BY <1>3 DEF AddDevice
  <2>2. troubles' \in 0..MaxTroubles
    BY <1>3, TroubleType DEF KeysTypeOK, AddDevice
  <2>3. r \in Device \cup {NoDevice}
    BY DEF Default
  <2>4. Added(r) \in RecordType(generated)
    BY <1>0, <2>3, Constants
  <2>5. registry' \in [Device -> RecordType(generated)]
    BY <2>1, <2>4 DEF KeysTypeOK
  <2>6. Added(r).active
    BY DEF Added, Unregistered
  <2>7. \A u \in Device : registry'[u].active \/ registry'[u] = Unregistered
    BY <2>1, <2>6 DEF KeysTypeOK
  <2>8. [console[d] EXCEPT !.at = "added", !.other = e] \in ConsoleType(generated)
    BY Parts DEF ConsoleType
  <2>9. console' \in [Device -> ConsoleType(generated)]
    BY <2>1, <2>8 DEF KeysTypeOK
  <2> QED
    BY <1>3, <2>2, <2>5, <2>7, <2>9 DEF KeysTypeOK, AddDevice
<1>4. ASSUME NEW e \in Device, UpdateReceiver(d, e) PROVE KeysTypeOK'
  <2>1. troubles' \in 0..MaxTroubles
    BY <1>4, TroubleType DEF KeysTypeOK, UpdateReceiver
  <2>2. [registry[d] EXCEPT !.receiver = e] \in RecordType(generated)
    BY Parts DEF RecordType
  <2>3. [registry[d] EXCEPT !.receiver = e].active = registry[d].active
    BY Parts DEF RecordType
  <2>4. registry[d].active /\ registry' = [registry EXCEPT ![d].receiver = e]
    BY <1>4 DEF UpdateReceiver
  <2>5. registry' = [registry EXCEPT ![d] = [registry[d] EXCEPT !.receiver = e]]
    BY <2>4
  <2>6. registry' \in [Device -> RecordType(generated)]
    BY <2>2, <2>5 DEF KeysTypeOK
  <2>7. \A u \in Device : registry'[u].active \/ registry'[u] = Unregistered
    BY <2>3, <2>4, <2>5 DEF KeysTypeOK
  <2> QED
    BY <1>4, <2>1, <2>6, <2>7 DEF KeysTypeOK, UpdateReceiver
<1> QED
  BY <1>1, <1>2, <1>3, <1>4 DEF RegistryStep

LEMMA SensorStepType ==
    ASSUME KeysTypeOK, NEW d \in Device, SensorStep(d)
    PROVE  KeysTypeOK'
<1>0. generated \in Nat
  BY Parts
<1>1. CASE ReadOwnId(d)
  <2>1. troubles' \in 0..MaxTroubles
    BY <1>1, TroubleType DEF KeysTypeOK, ReadOwnId
  <2>2. \A at \in {"test", "stopped"} : [sensor[d] EXCEPT !.at = at] \in SensorType
    BY Parts DEF SensorType
  <2>3. sensor' \in [Device -> SensorType]
    BY <1>1, <2>2 DEF KeysTypeOK, ReadOwnId
  <2> QED
    BY <1>1, <2>1, <2>3 DEF KeysTypeOK, ReadOwnId
<1>2. CASE TestFlag(d)
  <2>1. \A at \in {"derive", "encrypt"} : [sensor[d] EXCEPT !.at = at] \in SensorType
    BY Parts DEF SensorType
  <2>2. sensor' \in [Device -> SensorType]
    BY <1>2, <2>1 DEF KeysTypeOK, TestFlag
  <2> QED
    BY <1>2, <2>2 DEF KeysTypeOK, TestFlag
<1>3. CASE Derive(d)
  <2>1. CASE Ends(d)
    BY <2>1, EndsType
  <2>2. CASE /\ secret' = [secret EXCEPT ![d] = ClientSecret(memory[d])]
             /\ sensor' = [sensor EXCEPT ![d].at = "clear"]
             /\ excuse' = [excuse EXCEPT ![d] = Underway(d)]
             /\ UNCHANGED <<registry, file, memory, derive, console, generated, troubles, agreed>>
    <3>1. ClientSecret(memory[d]) \in SecretType
      <4>1. 0..generated \subseteq 0..MaxKeys
        BY Parts, KeyAssumption
      <4>2. memory[d].pair.sk \in 0..MaxKeys /\ memory[d].pair.pk \in 0..MaxKeys /\ memory[d].peer \in 0..MaxKeys
        BY <4>1, Parts DEF MemoryType, PairType
      <4> QED
        BY <4>2, SharedType DEF ClientSecret
    <3>2. [sensor[d] EXCEPT !.at = "clear"] \in SensorType
      BY Parts DEF SensorType
    <3> QED
      BY <2>2, <3>1, <3>2, UnderwayType DEF KeysTypeOK
  <2> QED
    BY <1>3, <2>1, <2>2 DEF Derive
<1>4. CASE ClearFlag(d)
  <2>1. [sensor[d] EXCEPT !.at = "encrypt"] \in SensorType
    BY Parts DEF SensorType
  <2>2. excuse[d] \cup Underway(d) \in SUBSET {"reload", "update"}
    BY Parts, UnderwayType
  <2> QED
    BY <1>4, <2>1, <2>2 DEF KeysTypeOK, ClearFlag
<1>5. CASE Encrypt(d)
  <2>1. [at |-> "push", cipher |-> secret[d]] \in SensorType
    BY Parts DEF SensorType
  <2> QED
    BY <1>5, <2>1 DEF KeysTypeOK, Encrypt
<1>6. CASE PushData(d)
  <2>1. PICK mined \in {FALSE, memory[d].id /\ registry[d].active} :
          /\ Trouble(IF mined = (memory[d].id /\ registry[d].active) THEN 0 ELSE 1)
          /\ registry' = IF mined THEN [registry EXCEPT ![d].data = sensor[d].cipher] ELSE registry
    BY <1>6 DEF PushData
  <2>2. troubles' \in 0..MaxTroubles
    BY <2>1, TroubleType DEF KeysTypeOK
  <2>3. [registry[d] EXCEPT !.data = sensor[d].cipher] \in RecordType(generated)
    BY Parts DEF RecordType, SensorType
  <2>4. [registry[d] EXCEPT !.data = sensor[d].cipher].active = registry[d].active
    BY Parts DEF RecordType
  <2>5. mined => registry[d].active
    BY <2>1
  <2>6. registry' \in [Device -> RecordType(generated)]
    BY <2>1, <2>3 DEF KeysTypeOK
  <2>7. \A u \in Device : registry'[u].active \/ registry'[u] = Unregistered
    BY <2>1, <2>4, <2>5 DEF KeysTypeOK
  <2>8. sensor' \in [Device -> SensorType]
    BY <1>0, <1>6, Constants DEF KeysTypeOK, PushData
  <2> QED
    BY <1>6, <2>2, <2>6, <2>7, <2>8 DEF KeysTypeOK, PushData
<1> QED
  BY <1>1, <1>2, <1>3, <1>4, <1>5, <1>6 DEF SensorStep


\* KeysTypeOK with PeerKnown is inductive.
LEMMA TypeInit == KeysInit => KeysTypeOK /\ PeerKnown
<1> SUFFICES ASSUME KeysInit PROVE KeysTypeOK /\ PeerKnown
  OBVIOUS
<1>1. 0 \in Nat /\ 0 \in 0..MaxKeys /\ 0 \in 0..MaxTroubles
  BY KeyAssumption
<1>2. \A r : Added(r).active
  BY DEF Added, Unregistered
<1>3. PeerKnown
  BY DEF KeysInit, PeerKnown, Console
<1> QED
  BY <1>1, <1>2, <1>3, Constants, NoSecretType DEF KeysInit, KeysTypeOK

LEMMA TypeNext == KeysTypeOK /\ PeerKnown /\ [KeysNext]_vars => KeysTypeOK'
<1> SUFFICES ASSUME KeysTypeOK, PeerKnown, [KeysNext]_vars PROVE KeysTypeOK'
  OBVIOUS
<1>1. ASSUME NEW d \in Device, Start(d) PROVE KeysTypeOK'
  <2>1. [console[d] EXCEPT !.at = "id"] \in ConsoleType(generated)
    BY Parts DEF ConsoleType, Loading
  <2> QED
    BY <1>1, <2>1 DEF KeysTypeOK, Start
<1>2. ASSUME NEW d \in Device, Crash(d) PROVE KeysTypeOK'
  BY <1>2, EndsType DEF Crash
<1>3. CASE UNCHANGED vars
  BY <1>3 DEF vars, KeysTypeOK
<1> QED
  BY <1>1, <1>2, <1>3, UpdateType, LoadType, RegistryType, SensorStepType DEF KeysNext

\* What a step of device d does to the console threads: none but d's changes,
\* and d's comes to read a peer only behind LoadReceiver.
LEMMA PeerNext == KeysTypeOK /\ PeerKnown /\ [KeysNext]_vars => PeerKnown'
<1> SUFFICES ASSUME KeysTypeOK, PeerKnown, [KeysNext]_vars PROVE PeerKnown'
  OBVIOUS
<1>0. console \in [Device -> ConsoleType(generated)]
  BY DEF KeysTypeOK
<1>1. ASSUME NEW d \in Device, NEW c, console' = [console EXCEPT ![d] = c],
             c.at = "peer" => c.other # NoDevice
      PROVE  PeerKnown'
  BY <1>0, <1>1 DEF PeerKnown
<1>2. ASSUME \A e \in Device : console'[e] = console[e] \/ console'[e].at # "peer"
      PROVE  PeerKnown'
  BY <1>2 DEF PeerKnown
<1>3. ASSUME UNCHANGED console PROVE PeerKnown'
  BY <1>3 DEF PeerKnown
<1>4. ASSUME NEW d \in Device, Ready(d) PROVE PeerKnown'
  BY <1>0, <1>2, <1>4 DEF Ready, Console
<1>5. ASSUME NEW d \in Device, Ends(d) PROVE PeerKnown'
  BY <1>1, <1>5 DEF Ends, Console
<1>6. ASSUME NEW d \in Device, NEW back, BeginUpdate(d, back) PROVE PeerKnown'
  BY <1>1, <1>6 DEF BeginUpdate
<1>7. ASSUME NEW d \in Device, UpdateStep(d) PROVE PeerKnown'
  <2>1. CASE UpdateLocalKeys(d)
    BY <1>6, <2>1 DEF UpdateLocalKeys
  <2>2. CASE PublishKey(d)
    <3>1. PICK ok \in BOOLEAN : console' = [console EXCEPT ![d] =
                [@ EXCEPT !.ok = IF ok THEN {"key"} ELSE {}, !.at = "publish_sign"]]
      BY <2>2 DEF PublishKey
    <3> QED
      BY <1>0, <3>1 DEF PeerKnown, ConsoleType
  <2>3. CASE PublishSign(d)
    <3>1. PICK ok \in BOOLEAN : console' = [console EXCEPT ![d] =
                [@ EXCEPT !.ok = IF ok THEN console[d].ok \cup {"sign"} ELSE console[d].ok,
                          !.at = IF "key" \in console[d].ok THEN "copy_pk"
                                 ELSE IF ok THEN "copy_sign" ELSE "return"]]
      BY <2>3 DEF PublishSign
    <3> QED
      BY <1>0, <3>1 DEF PeerKnown, ConsoleType
  <2>4. CASE UpdateThrows(d)
    <3>1. Ends(d) \/ Ready(d)
      BY <2>4 DEF UpdateThrows, Throws
    <3> QED
      BY <1>4, <1>5, <3>1
  <2>5. CASE CopyPublic(d)
    BY <1>0, <1>2, <2>5 DEF CopyPublic, ConsoleType
  <2>6. CASE CopyPrivate(d)
    BY <1>0, <1>2, <2>6 DEF CopyPrivate, ConsoleType
  <2>7. CASE CopySign(d)
    BY <1>0, <1>2, <2>7 DEF CopySign, ConsoleType
  <2>8. CASE Returns(d)
    <3>1. CASE console' = [console EXCEPT ![d].at = "receiver"]
      BY <1>0, <1>2, <3>1 DEF ConsoleType
    <3> QED
      BY <1>4, <2>8, <3>1 DEF Returns
  <2> QED
    BY <1>7, <2>1, <2>2, <2>3, <2>4, <2>5, <2>6, <2>7, <2>8 DEF UpdateStep
<1>8. ASSUME NEW d \in Device, LoadStep(d) PROVE PeerKnown'
  <2>1. CASE LoadId(d)
    <3>1. CASE console' = [console EXCEPT ![d].at = "key"]
      BY <1>0, <1>2, <3>1 DEF ConsoleType
    <3> QED
      BY <1>4, <2>1, <3>1 DEF LoadId
  <2>2. CASE LoadKey(d)
    <3>1. PICK k : console' = [console EXCEPT ![d] = [@ EXCEPT !.key = k, !.at = "sign"]]
      BY <2>2 DEF LoadKey
    <3> QED
      BY <1>0, <3>1 DEF PeerKnown, ConsoleType
  <2>3. CASE LoadSign(d)
    <3>1. CASE console' = [console EXCEPT ![d].at = "receiver"]
      BY <1>0, <1>2, <3>1 DEF ConsoleType
    <3> QED
      BY <1>6, <2>3, <3>1 DEF LoadSign
  <2>4. CASE LoadReceiver(d)
    <3>1. CASE Ready(d)
      BY <1>4, <3>1
    <3>2. ASSUME NEW r, r # NoDevice, console' = [console EXCEPT ![d] = [@ EXCEPT !.other = r, !.at = "peer"]]
          PROVE  PeerKnown'
      BY <1>0, <3>2 DEF PeerKnown, ConsoleType
    <3> QED
      BY <2>4, <3>1, <3>2 DEF LoadReceiver
  <2>5. CASE LoadPeer(d)
    BY <1>4, <2>5 DEF LoadPeer
  <2> QED
    BY <1>8, <2>1, <2>2, <2>3, <2>4, <2>5 DEF LoadStep
<1>9. ASSUME NEW d \in Device, RegistryStep(d) PROVE PeerKnown'
  <2>1. CASE AddedOwn(d)
    <3>1. CASE console' = [console EXCEPT ![d].at = "id"]
      BY <1>0, <1>2, <3>1 DEF ConsoleType
    <3> QED
      BY <1>4, <2>1, <3>1 DEF AddedOwn
  <2>2. CASE RemoveDevice(d)
    BY <1>3, <2>2 DEF RemoveDevice
  <2>3. ASSUME NEW e \in Device, AddDevice(d, e) PROVE PeerKnown'
    <3>1. ASSUME console' = [console EXCEPT ![d] = [@ EXCEPT !.at = "added", !.other = e]]
          PROVE  PeerKnown'
      BY <1>0, <3>1 DEF PeerKnown, ConsoleType
    <3> QED
      BY <1>3, <2>3, <3>1 DEF AddDevice
  <2>4. ASSUME NEW e \in Device, UpdateReceiver(d, e) PROVE PeerKnown'
    BY <1>3, <2>4 DEF UpdateReceiver
  <2> QED
    BY <1>9, <2>1, <2>2, <2>3, <2>4 DEF RegistryStep
<1>10. ASSUME NEW d \in Device, SensorStep(d) PROVE PeerKnown'
  <2>1. UNCHANGED console \/ Ends(d)
    BY <1>10 DEF SensorStep, ReadOwnId, TestFlag, Derive, ClearFlag, Encrypt, PushData
  <2> QED
    BY <1>3, <1>5, <2>1
<1>11. ASSUME NEW d \in Device, Start(d) PROVE PeerKnown'
  BY <1>0, <1>2, <1>11 DEF Start, ConsoleType
<1>12. ASSUME NEW d \in Device, Crash(d) PROVE PeerKnown'
  BY <1>5, <1>12 DEF Crash
<1>13. CASE UNCHANGED vars
  BY <1>3, <1>13 DEF vars
<1> QED
  BY <1>7, <1>8, <1>9, <1>10, <1>11, <1>12, <1>13 DEF KeysNext

LEMMA TypeInvariant == KeysSpec => [](KeysTypeOK /\ PeerKnown)
<1>1. KeysTypeOK /\ PeerKnown /\ [KeysNext]_vars => (KeysTypeOK /\ PeerKnown)'
  BY TypeNext, PeerNext
<1> QED
  BY <1>1, TypeInit, PTL DEF KeysSpec

\* KeysTypeOK of the run keys, for any devices and bounds: no thread ever reads
\* a key nobody generated, and a device that was removed has no record left.
THEOREM KeysTypeCorrect == KeysSpec => []KeysTypeOK
  BY TypeInvariant, PTL

-----------------------------------------------------------------------------
(* What a step leaves alone                                                *)

DeviceStep(d) ==
    Start(d) \/ Crash(d) \/ UpdateStep(d) \/ LoadStep(d) \/ RegistryStep(d) \/ SensorStep(d)

\* All of device e but its record in the contract.
Same(e) ==
    /\ file'[e] = file[e]
    /\ memory'[e] = memory[e]
    /\ derive'[e] = derive[e]
    /\ secret'[e] = secret[e]
    /\ console'[e] = console[e]
    /\ sensor'[e] = sensor[e]
    /\ agreed'[e] = agreed[e]
    /\ excuse'[e] = excuse[e]

\* A step of device d leaves another device alone; the record of the other
\* changes only when d adds it.
LEMMA Frame ==
    ASSUME KeysTypeOK, NEW d \in Device, DeviceStep(d), NEW e \in Device, e # d
    PROVE  Same(e) /\ (registry'[e] = registry[e] \/ ~ registry[e].active)
<1> DEFINE Record == registry'[e] = registry[e] \/ ~ registry[e].active
<1> USE DEF KeysTypeOK, Same
<1>1. CASE Start(d)
  BY <1>1 DEF Start
<1>2. ASSUME Ends(d) PROVE Same(e) /\ Record
  BY <1>2 DEF Ends
<1>3. ASSUME NEW back, BeginUpdate(d, back), UNCHANGED <<registry, file, memory, secret, sensor>>
      PROVE  Same(e) /\ Record
  BY <1>3 DEF BeginUpdate
<1>4. ASSUME Ready(d) PROVE console'[e] = console[e] /\ sensor'[e] = sensor[e]
  BY <1>4 DEF Ready
<1>5. CASE Crash(d)
  BY <1>2, <1>5 DEF Crash
<1>6. CASE UpdateStep(d)
  <2>1. CASE UpdateLocalKeys(d)
    BY <1>3, <2>1 DEF UpdateLocalKeys
  <2>2. CASE PublishKey(d)
    BY <2>2 DEF PublishKey
  <2>3. CASE PublishSign(d)
    BY <2>3 DEF PublishSign
  <2>4. CASE UpdateThrows(d)
    <3>1. CASE Ends(d)
      BY <1>2, <3>1
    <3>2. CASE Ready(d) /\ UNCHANGED <<registry, file, memory, derive, secret, generated, agreed, excuse>>
      BY <1>4, <3>2
    <3> QED
      BY <2>4, <3>1, <3>2 DEF UpdateThrows, Throws
  <2>5. CASE CopyPublic(d)
    BY <2>5 DEF CopyPublic
  <2>6. CASE CopyPrivate(d)
    BY <2>6 DEF CopyPrivate
  <2>7. CASE CopySign(d)
    BY <2>7 DEF CopySign
  <2>8. CASE Returns(d)
    BY <1>4, <2>8 DEF Returns
  <2> QED
    BY <1>6, <2>1, <2>2, <2>3, <2>4, <2>5, <2>6, <2>7, <2>8 DEF UpdateStep
<1>7. CASE LoadStep(d)
  <2>1. CASE LoadId(d)
    BY <1>4, <2>1 DEF LoadId
  <2>2. CASE LoadKey(d)
    BY <2>2 DEF LoadKey
  <2>3. CASE LoadSign(d)
    BY <1>3, <2>3 DEF LoadSign
  <2>4. CASE LoadReceiver(d)
    BY <1>4, <2>4 DEF LoadReceiver
  <2>5. CASE LoadPeer(d)
    BY <1>4, <2>5 DEF LoadPeer
  <2> QED
    BY <1>7, <2>1, <2>2, <2>3, <2>4, <2>5 DEF LoadStep
<1>8. CASE RegistryStep(d)
  <2>1. CASE AddedOwn(d)
    BY <1>4, <2>1 DEF AddedOwn
  <2>2. CASE RemoveDevice(d)
    BY <2>2 DEF RemoveDevice
  <2>3. ASSUME NEW u \in Device, AddDevice(d, u) PROVE Same(e) /\ Record
    BY <2>3 DEF AddDevice
  <2>4. ASSUME NEW u \in Device, UpdateReceiver(d, u) PROVE Same(e) /\ Record
    BY <2>4 DEF UpdateReceiver
  <2> QED
    BY <1>8, <2>1, <2>2, <2>3, <2>4 DEF RegistryStep
<1>9. CASE SensorStep(d)
  <2>1. CASE ReadOwnId(d)
    BY <2>1 DEF ReadOwnId
  <2>2. CASE TestFlag(d)
    BY <2>2 DEF TestFlag
  <2>3. CASE Derive(d)
    BY <1>2, <2>3 DEF Derive
  <2>4. CASE ClearFlag(d)
    BY <2>4 DEF ClearFlag
  <2>5. CASE Encrypt(d)
    BY <2>5 DEF Encrypt
  <2>6. CASE PushData(d)
    BY <2>6 DEF PushData
  <2> QED
    BY <1>9, <2>1, <2>2, <2>3, <2>4, <2>5, <2>6 DEF SensorStep
<1> QED
  BY <1>1, <1>5, <1>6, <1>7, <1>8, <1>9 DEF DeviceStep

-----------------------------------------------------------------------------
(* The shared secret                                                       *)

\* The flag is clear, or about to be.
Derived(d) == ~ derive[d] \/ sensor[d].at = "clear"

\* A derived secret is that of the keys in memory, or something has run in the
\* console thread since it was derived; an update under way always counts.
SecretInv(d) ==
    Derived(d) =>
        /\ secret[d] = ClientSecret(memory[d]) \/ excuse[d] # {}
        /\ console[d].at \in Updating => excuse[d] # {}

\* What is pushed was encrypted with the secret that is still in memory.
CipherInv(d) == sensor[d].at = "push" => sensor[d].cipher = secret[d]

LEMMA Elsewhere ==
    ASSUME NEW e \in Device, Same(e), SecretInv(e), CipherInv(e)
    PROVE  SecretInv(e)' /\ CipherInv(e)'
  BY DEF Same, SecretInv, CipherInv, Derived, ClientSecret

\* Steps that neither derive a secret, nor begin an update, nor change a key in
\* memory.
LEMMA Quiet ==
    ASSUME NEW d \in Device, SecretInv(d),
           derive'[d] = derive[d], secret'[d] = secret[d], excuse'[d] = excuse[d],
           memory'[d].pair = memory[d].pair, memory'[d].peer = memory[d].peer,
           sensor'[d].at = "clear" => sensor[d].at = "clear",
           console'[d].at \in Updating => console[d].at \in Updating
    PROVE  SecretInv(d)'
  BY DEF SecretInv, Derived, ClientSecret

LEMMA ExcusedStep ==
    ASSUME NEW d \in Device, excuse'[d] # {}
    PROVE  SecretInv(d)'
  BY DEF SecretInv

LEMMA EndsSecret ==
    ASSUME KeysTypeOK, NEW d \in Device, Ends(d)
    PROVE  SecretInv(d)' /\ CipherInv(d)'
  BY DEF KeysTypeOK, Ends, SecretInv, CipherInv, Derived

LEMMA ReadySecret ==
    ASSUME KeysTypeOK, NEW d \in Device, Ready(d)
    PROVE  /\ console'[d].at = "ready"
           /\ sensor'[d].at \in {"clear", "push"} => sensor'[d] = sensor[d]
<1>1. console'[d].at = "ready"
  BY DEF Ready, KeysTypeOK, Console
<1>2. sensor' = sensor \/ sensor'[d].at \in {"id", "none"}
  BY DEF Ready, KeysTypeOK, SensorType
<1> QED
  BY <1>1, <1>2

LEMMA BeginUpdateSecret ==
    ASSUME KeysTypeOK, NEW d \in Device, NEW back, BeginUpdate(d, back), SecretInv(d), CipherInv(d),
           UNCHANGED <<secret, sensor>>
    PROVE  SecretInv(d)' /\ CipherInv(d)'
<1>1. derive'[d] /\ (sensor[d].at = "clear" => "update" \in excuse'[d])
  BY DEF BeginUpdate, KeysTypeOK
<1> QED
  BY <1>1 DEF SecretInv, CipherInv, Derived

LEMMA UpdateSecret ==
    ASSUME KeysTypeOK, NEW d \in Device, UpdateStep(d), SecretInv(d), CipherInv(d)
    PROVE  SecretInv(d)' /\ CipherInv(d)'
<1> USE DEF CipherInv
<1>0. console[d] \in ConsoleType(generated) /\ memory[d] \in MemoryType(generated)
  BY Parts
<1>1. CASE UpdateLocalKeys(d)
  BY <1>1, BeginUpdateSecret DEF UpdateLocalKeys
<1>2. CASE PublishKey(d)
  <2>1. console[d].at \in Updating
    BY <1>2 DEF PublishKey, Updating
  <2> QED
    BY <1>2, <2>1, Quiet DEF PublishKey
<1>3. CASE PublishSign(d)
  <2>1. console[d].at \in Updating
    BY <1>3 DEF PublishSign, Updating
  <2> QED
    BY <1>3, <2>1, Quiet DEF PublishSign
<1>4. CASE UpdateThrows(d)
  <2>1. CASE Ends(d)
    BY <2>1, EndsSecret
  <2>2. CASE Ready(d) /\ UNCHANGED <<memory, derive, secret, excuse>>
    BY <2>2, ReadySecret, Quiet DEF Updating
  <2> QED
    BY <1>4, <2>1, <2>2 DEF UpdateThrows, Throws
<1>5. ASSUME console[d].at \in Updating, UNCHANGED <<derive, secret, sensor, excuse>>
      PROVE  SecretInv(d)' /\ CipherInv(d)'
  BY <1>5 DEF SecretInv, Derived
<1>6. CASE CopyPublic(d) \/ CopyPrivate(d) \/ CopySign(d)
  BY <1>5, <1>6 DEF CopyPublic, CopyPrivate, CopySign, Updating
<1>7. CASE Returns(d)
  <2>1. CASE Ready(d)
    BY <1>7, <2>1, ReadySecret, Quiet DEF Returns, Updating
  <2>2. CASE UNCHANGED sensor
    BY <1>5, <1>7, <2>2 DEF Returns, Updating
  <2> QED
    BY <1>7, <2>1, <2>2 DEF Returns
<1> QED
  BY <1>1, <1>2, <1>3, <1>4, <1>6, <1>7 DEF UpdateStep

LEMMA LoadSecret ==
    ASSUME KeysTypeOK, NEW d \in Device, LoadStep(d), SecretInv(d), CipherInv(d)
    PROVE  SecretInv(d)' /\ CipherInv(d)'
<1> USE DEF CipherInv
<1>0. console[d] \in ConsoleType(generated) /\ memory[d] \in MemoryType(generated)
  BY Parts
<1>1. CASE LoadId(d)
  <2>1. memory'[d].pair = memory[d].pair /\ memory'[d].peer = memory[d].peer
    BY <1>0, <1>1 DEF LoadId, KeysTypeOK, MemoryType
  <2>2. CASE Ready(d)
    BY <1>1, <2>1, <2>2, ReadySecret, Quiet DEF LoadId, Updating
  <2>3. CASE console' = [console EXCEPT ![d].at = "key"] /\ UNCHANGED sensor
    <3>1. console'[d].at = "key"
      BY <1>0, <2>3 DEF KeysTypeOK, ConsoleType
    <3> QED
      BY <1>1, <2>1, <2>3, <3>1, Quiet DEF LoadId, Updating
  <2> QED
    BY <1>1, <2>2, <2>3 DEF LoadId
<1>2. CASE LoadKey(d)
  <2>1. console'[d].at = "sign"
    BY <1>0, <1>2 DEF LoadKey, KeysTypeOK, ConsoleType
  <2> QED
    BY <1>2, <2>1, Quiet DEF LoadKey, Updating
<1>3. CASE LoadSign(d)
  <2>1. CASE BeginUpdate(d, "receiver")
    BY <1>3, <2>1, BeginUpdateSecret DEF LoadSign
  <2>2. CASE excuse' = [excuse EXCEPT ![d] = @ \cup {"reload"}]
    <3>1. excuse'[d] # {}
      BY <2>2 DEF KeysTypeOK
    <3> QED
      BY <1>3, <3>1, ExcusedStep DEF LoadSign
  <2> QED
    BY <1>3, <2>1, <2>2 DEF LoadSign
<1>4. CASE LoadReceiver(d)
  <2>1. CASE Ready(d)
    BY <1>4, <2>1, ReadySecret, Quiet DEF LoadReceiver, Updating
  <2>2. ASSUME NEW r, console' = [console EXCEPT ![d] = [@ EXCEPT !.other = r, !.at = "peer"]], UNCHANGED sensor
        PROVE  SecretInv(d)' /\ CipherInv(d)'
    <3>1. console'[d].at = "peer"
      BY <1>0, <2>2 DEF KeysTypeOK, ConsoleType
    <3> QED
      BY <1>4, <2>2, <3>1, Quiet DEF LoadReceiver, Updating
  <2> QED
    BY <1>4, <2>1, <2>2 DEF LoadReceiver
<1>5. CASE LoadPeer(d)
  <2>1. excuse'[d] # {}
    BY <1>5 DEF LoadPeer, KeysTypeOK
  <2> QED
    BY <1>5, <2>1, ExcusedStep, ReadySecret DEF LoadPeer
<1> QED
  BY <1>1, <1>2, <1>3, <1>4, <1>5 DEF LoadStep

LEMMA RegistrySecret ==
    ASSUME KeysTypeOK, NEW d \in Device, RegistryStep(d), SecretInv(d), CipherInv(d)
    PROVE  SecretInv(d)' /\ CipherInv(d)'
<1> USE DEF CipherInv
<1>0. console[d] \in ConsoleType(generated)
  BY Parts
<1>1. CASE AddedOwn(d)
  <2>1. CASE Ready(d)
    BY <1>1, <2>1, ReadySecret, Quiet DEF AddedOwn, Updating
  <2>2. CASE console' = [console EXCEPT ![d].at = "id"] /\ UNCHANGED sensor
    <3>1. console'[d].at = "id"
      BY <1>0, <2>2 DEF KeysTypeOK, ConsoleType
    <3> QED
      BY <1>1, <2>2, <3>1, Quiet DEF AddedOwn, Updating
  <2> QED
    BY <1>1, <2>1, <2>2 DEF AddedOwn
<1>2. CASE RemoveDevice(d)
  BY <1>2, Quiet DEF RemoveDevice
<1>3. ASSUME NEW e \in Device, AddDevice(d, e) PROVE SecretInv(d)' /\ CipherInv(d)'
  <2>1. console' = console \/ console'[d].at = "added"
    BY <1>0, <1>3 DEF AddDevice, KeysTypeOK, ConsoleType
  <2> QED
    BY <1>3, <2>1, Quiet DEF AddDevice, Updating
<1>4. ASSUME NEW e \in Device, UpdateReceiver(d, e) PROVE SecretInv(d)' /\ CipherInv(d)'
  BY <1>4, Quiet DEF UpdateReceiver
<1> QED
  BY <1>1, <1>2, <1>3, <1>4 DEF RegistryStep

LEMMA SensorSecret ==
    ASSUME KeysTypeOK, NEW d \in Device, SensorStep(d), SecretInv(d), CipherInv(d)
    PROVE  SecretInv(d)' /\ CipherInv(d)'
<1> USE DEF CipherInv
<1>0. sensor[d] \in SensorType /\ sensor \in [Device -> SensorType]
  BY Parts DEF KeysTypeOK
<1>1. CASE ReadOwnId(d)
  <2>1. sensor'[d].at \in {"test", "stopped"}
    BY <1>0, <1>1 DEF ReadOwnId, SensorType
  <2> QED
    BY <1>1, <2>1, Quiet DEF ReadOwnId
<1>2. CASE TestFlag(d)
  <2>1. sensor'[d].at \in {"derive", "encrypt"}
    BY <1>0, <1>2 DEF TestFlag, SensorType
  <2> QED
    BY <1>2, <2>1, Quiet DEF TestFlag
<1>3. CASE Derive(d)
  <2>1. CASE Ends(d)
    BY <2>1, EndsSecret
  <2>2. CASE /\ secret' = [secret EXCEPT ![d] = ClientSecret(memory[d])]
             /\ sensor' = [sensor EXCEPT ![d].at = "clear"]
             /\ excuse' = [excuse EXCEPT ![d] = Underway(d)]
             /\ UNCHANGED <<registry, file, memory, derive, console, generated, troubles, agreed>>
    <3>1. secret'[d] = ClientSecret(memory'[d])
      BY <2>2 DEF KeysTypeOK
    <3>2. excuse'[d] = Underway(d) /\ console' = console
      BY <2>2 DEF KeysTypeOK
    <3>3. sensor'[d].at = "clear"
      BY <1>0, <2>2 DEF SensorType
    <3>4. console'[d].at \in Updating => excuse'[d] # {}
      BY <3>2 DEF Underway
    <3> QED
      BY <3>1, <3>3, <3>4 DEF SecretInv
  <2> QED
    BY <1>3, <2>1, <2>2 DEF Derive
<1>4. CASE ClearFlag(d)
  <2>1. excuse'[d] = excuse[d] \cup Underway(d) /\ UNCHANGED <<secret, memory, console>>
    BY <1>4 DEF ClearFlag, KeysTypeOK
  <2>2. sensor[d].at = "clear" /\ sensor'[d].at = "encrypt"
    BY <1>0, <1>4 DEF ClearFlag, SensorType
  <2>3. Derived(d)
    BY <2>2 DEF Derived
  <2>4. secret'[d] = ClientSecret(memory'[d]) \/ excuse'[d] # {}
    BY <2>1, <2>3 DEF SecretInv
  <2>5. console'[d].at \in Updating => excuse'[d] # {}
    BY <2>1 DEF Underway
  <2> QED
    BY <2>2, <2>4, <2>5 DEF SecretInv
<1>5. CASE Encrypt(d)
  <2>1. sensor'[d] = [at |-> "push", cipher |-> secret[d]]
    BY <1>0, <1>5 DEF Encrypt
  <2> QED
    BY <1>5, <2>1, Quiet DEF Encrypt
<1>6. CASE PushData(d)
  <2>1. sensor'[d] = [at |-> "id", cipher |-> NoSecret]
    BY <1>0, <1>6 DEF PushData
  <2> QED
    BY <1>6, <2>1, Quiet DEF PushData
<1> QED
  BY <1>1, <1>2, <1>3, <1>4, <1>5, <1>6 DEF SensorStep

\* The inductive invariant of this module.
AllSecret == \A d \in Device : SecretInv(d) /\ CipherInv(d)

LEMMA SecretInit == KeysInit => AllSecret
  BY DEF KeysInit, AllSecret, SecretInv, CipherInv, Derived, Console, Updating

LEMMA SecretNext == KeysTypeOK /\ AllSecret /\ [KeysNext]_vars => AllSecret'
<1> SUFFICES ASSUME KeysTypeOK, AllSecret, [KeysNext]_vars
             PROVE  AllSecret'
  OBVIOUS
<1>1. ASSUME NEW d \in Device, DeviceStep(d) PROVE AllSecret'
  <2>1. SecretInv(d) /\ CipherInv(d)
    BY DEF AllSecret
  <2>2. ASSUME Start(d) PROVE SecretInv(d)' /\ CipherInv(d)'
    <3>1. console'[d].at = "id"
      BY <2>2, Parts DEF Start, KeysTypeOK, ConsoleType
    <3> QED
      BY <2>1, <2>2, <3>1, Quiet DEF Start, Updating, CipherInv
  <2>3. SecretInv(d)' /\ CipherInv(d)'
    BY <1>1, <2>1, <2>2, EndsSecret, UpdateSecret, LoadSecret, RegistrySecret, SensorSecret
       DEF DeviceStep, Crash
  <2>4. ASSUME NEW e \in Device, e # d PROVE SecretInv(e)' /\ CipherInv(e)'
    BY <1>1, <2>4, Frame, Elsewhere DEF AllSecret
  <2> QED
    BY <2>3, <2>4 DEF AllSecret
<1>2. CASE UNCHANGED vars
  BY <1>2 DEF vars, AllSecret, SecretInv, CipherInv, Derived, ClientSecret
<1> QED
  BY <1>1, <1>2 DEF KeysNext, DeviceStep

LEMMA SecretInvariant == KeysSpec => [](KeysTypeOK /\ AllSecret)
<1>1. KeysTypeOK /\ AllSecret /\ [KeysNext]_vars => AllSecret'
  BY SecretNext
<1> QED
  BY <1>1, SecretInit, KeysTypeCorrect, PTL DEF KeysSpec

\* StaleExplained of the run keys, for any devices and bounds: the flag of
\* encryptAndPushData is clear over a stale secret only if the console thread
\* updated or reloaded keys meanwhile.
THEOREM StaleSecretExplained == KeysSpec => []StaleExplained
<1>1. AllSecret => StaleExplained
  BY DEF AllSecret, SecretInv, Derived, StaleExplained
<1> QED
  BY <1>1, SecretInvariant, PTL

-----------------------------------------------------------------------------
(* What is pushed                                                          *)

\* FreshDataReadable of the run keys, for any devices and bounds: data pushed
\* with a secret that is not stale, between two devices that hold the pairs they
\* published, is decrypted by getDataAndDecrypt.
THEOREM FreshReadable == KeysSpec => FreshDataReadable
<1> DEFINE Push(d) == sensor[d].at = "push" /\ sensor'[d].at = "id" /\ registry' # registry /\ Settled(d)
<1>1. ASSUME KeysTypeOK, AllSecret, [KeysNext]_vars, NEW d \in Device, Push(d)
      PROVE  Readable(d)'
  <2>1. PICK u \in Device : DeviceStep(u)
    <3>1. sensor'[d] # sensor[d]
      BY <1>1
    <3>2. KeysNext
      BY <1>1, <3>1 DEF vars
    <3> QED
      BY <3>2 DEF KeysNext, DeviceStep
  <2>2. u = d
    BY <1>1, <2>1, Frame DEF Same
  <2>3. ASSUME Ready(d) PROVE FALSE
    BY <1>1, <2>3 DEF Ready
  <2>4. ASSUME Ends(d) PROVE FALSE
    BY <1>1, <2>4 DEF Ends, KeysTypeOK
  <2>5. PushData(d)
    <3>1. CASE Start(d) \/ Crash(d)
      BY <1>1, <2>4, <3>1 DEF Start, Crash
    <3>2. CASE UpdateStep(d)
      BY <1>1, <2>3, <2>4, <3>2 DEF UpdateStep, UpdateLocalKeys, PublishKey, PublishSign, UpdateThrows, Throws, CopyPublic, CopyPrivate, CopySign, Returns
    <3>3. CASE LoadStep(d)
      BY <1>1, <2>3, <3>3 DEF LoadStep, LoadId, LoadKey, LoadSign, LoadReceiver, LoadPeer
    <3>4. CASE RegistryStep(d)
      BY <1>1, <2>3, <3>4 DEF RegistryStep, AddedOwn, RemoveDevice, AddDevice, UpdateReceiver
    <3>5. CASE SensorStep(d)
      BY <1>1, <3>5 DEF SensorStep, ReadOwnId, TestFlag, Derive, ClearFlag, Encrypt
    <3> QED
      BY <2>1, <2>2, <3>1, <3>2, <3>3, <3>4, <3>5 DEF DeviceStep
  <2> DEFINE r == registry[d].receiver
  <2>6. registry' = [registry EXCEPT ![d].data = sensor[d].cipher] /\ UNCHANGED memory
    BY <1>1, <2>5 DEF PushData
  <2>7. registry[d] \in RecordType(generated)
    BY <1>1, Parts
  <2>8. /\ registry'[d].data = sensor[d].cipher
        /\ registry'[d].key = registry[d].key
        /\ registry'[d].receiver = r
    BY <1>1, <2>6, <2>7 DEF KeysTypeOK, RecordType
  <2>9. sensor[d].cipher = ClientSecret(memory[d])
    BY <1>1 DEF AllSecret, SecretInv, CipherInv, Derived, Settled
  <2>10. /\ r # NoDevice
         /\ memory[d].pair = Both(registry[d].key)
         /\ memory[r].pair = Both(registry[r].key)
         /\ memory[d].peer = registry[r].key
    BY <1>1 DEF Settled, HoldsPublished
  <2>11. ClientSecret(memory[d]) = ServerSecret(memory[r], registry[d].key)
    <3> DEFINE k == registry[d].key
               q == registry[r].key
    <3>1. \A i : Both(i).pk = i /\ Both(i).sk = i
      BY DEF Both
    <3>2. memory[d].pair.sk = k /\ memory[d].pair.pk = k /\ memory[r].pair.sk = q /\ memory[r].pair.pk = q
      BY <2>10, <3>1
    <3>3. ClientSecret(memory[d]) = Shared(k, q, k, q)
      BY <2>10, <3>2 DEF ClientSecret
    <3>4. ServerSecret(memory[r], k) = Shared(q, k, k, q)
      BY <3>2 DEF ServerSecret
    <3>5. {k, q} = {q, k}
      OBVIOUS
    <3> QED
      BY <3>3, <3>4, <3>5 DEF Shared
  <2> QED
    BY <2>6, <2>8, <2>9, <2>10, <2>11 DEF Readable, ServerSecret
<1>2. KeysTypeOK /\ AllSecret /\ [KeysNext]_vars => [\A d \in Device : Push(d) => Readable(d)']_vars
  BY <1>1
<1> QED
  BY <1>2, SecretInvariant, PTL DEF KeysSpec, FreshDataReadable

-----------------------------------------------------------------------------
(* Agreement after an update                                               *)


\* The update has made both transactions.
Published == {"copy_pk", "copy_sk", "copy_sign", "return"}

\* A device after an update that returned true.  A reload may hold the public
\* key it has read.
Settles(d) ==
    /\ registry[d].active
    /\ registry[d].key = file[d].key /\ registry[d].sign = file[d].sign
    /\ memory[d].pair \in {NoPair, Both(registry[d].key)}
    /\ memory[d].signer \in {NoPair, Both(registry[d].sign)}
    /\ console[d].at \notin Updating
    /\ console[d].at = "sign" => console[d].key \in {0, registry[d].key}

\* How far an update has come: what returned true is in the contract, and at the
\* end also in memory and file.
Progress(d) ==
    LET c == console[d]
    IN  /\ c.at \in Published \cup {"publish_sign"} =>
              /\ registry[d].active
              /\ "key" \in c.ok => registry[d].key = c.key
        /\ c.at = "publish_sign" => "sign" \notin c.ok
        /\ c.at \in Published /\ "sign" \in c.ok => registry[d].sign = c.key
        /\ c.at = "copy_sk" => memory[d].pair.pk = c.key
        /\ c.at \in {"copy_sign", "return"} /\ "key" \in c.ok =>
              file[d].key = c.key /\ memory[d].pair = Both(c.key)
        /\ c.at = "return" /\ "sign" \in c.ok =>
              file[d].sign = c.key /\ memory[d].signer = Both(c.key)

AgreeInv(d) ==
    /\ agreed[d] = "yes" => Settles(d)
    /\ agreed[d] = "begun" => Progress(d)

LEMMA AgreeElsewhere ==
    ASSUME NEW e \in Device, Same(e), registry'[e] = registry[e] \/ ~ registry[e].active, AgreeInv(e)
    PROVE  AgreeInv(e)'
<1>1. CASE registry'[e] = registry[e]
  BY <1>1 DEF Same, AgreeInv, Settles, Progress
<1>2. CASE ~ registry[e].active
  <2>1. agreed'[e] # "yes"
    BY <1>2 DEF Same, AgreeInv, Settles
  <2>2. ASSUME agreed'[e] = "begun" PROVE Progress(e)'
    <3>1. console'[e].at \notin Published \cup {"publish_sign"}
      BY <1>2, <2>2 DEF Same, AgreeInv, Progress
    <3> QED
      BY <3>1 DEF Progress, Published
  <2> QED
    BY <2>1, <2>2 DEF AgreeInv
<1> QED
  BY <1>1, <1>2

\* Steps that change no key and are not part of an update.
LEMMA KeysKept ==
    ASSUME NEW d \in Device, AgreeInv(d), agreed'[d] = agreed[d],
           registry'[d].active = registry[d].active, registry'[d].key = registry[d].key,
           registry'[d].sign = registry[d].sign, file'[d] = file[d],
           memory'[d].pair = memory[d].pair, memory'[d].signer = memory[d].signer,
           \/ console'[d] = console[d]
           \/ /\ console'[d].at \notin Updating
              /\ console'[d].at = "sign" => console'[d].key \in {0, registry[d].key}
    PROVE  AgreeInv(d)'
<1>1. CASE console'[d] = console[d]
  BY <1>1 DEF AgreeInv, Settles, Progress
<1>2. CASE /\ console'[d].at \notin Updating
           /\ console'[d].at = "sign" => console'[d].key \in {0, registry[d].key}
  <2>1. agreed'[d] = "yes" => Settles(d)'
    BY <1>2 DEF AgreeInv, Settles
  <2>2. Progress(d)'
    BY <1>2 DEF Progress, Published, Updating
  <2> QED
    BY <2>1, <2>2 DEF AgreeInv
<1> QED
  BY <1>1, <1>2

LEMMA EndsAgree ==
    ASSUME KeysTypeOK, NEW d \in Device, Ends(d), AgreeInv(d)
    PROVE  AgreeInv(d)'
<1>1. console'[d].at = "down" /\ memory'[d] = Blank /\ UNCHANGED <<registry, file, agreed>>
  BY DEF Ends, KeysTypeOK, Console
<1>2. memory'[d].pair = NoPair /\ memory'[d].signer = NoPair
  BY <1>1 DEF Blank
<1>3. agreed'[d] = "yes" => Settles(d)'
  BY <1>1, <1>2 DEF AgreeInv, Settles, Updating
<1>4. Progress(d)'
  BY <1>1 DEF Progress, Published
<1> QED
  BY <1>3, <1>4 DEF AgreeInv

LEMMA ReadyAt ==
    ASSUME KeysTypeOK, NEW d \in Device, Ready(d)
    PROVE  console'[d].at = "ready"
  BY DEF Ready, KeysTypeOK, Console

LEMMA BeginUpdateAgree ==
    ASSUME KeysTypeOK, NEW d \in Device, NEW back, BeginUpdate(d, back)
    PROVE  AgreeInv(d)'
<1>1. agreed'[d] = "begun" /\ console'[d].at = "publish"
  BY DEF BeginUpdate, KeysTypeOK
<1> QED
  BY <1>1 DEF AgreeInv, Progress, Published

LEMMA UpdateAgree ==
    ASSUME KeysTypeOK, NEW d \in Device, UpdateStep(d), AgreeInv(d)
    PROVE  AgreeInv(d)'
<1> DEFINE c == console[d]
<1>0. /\ c \in ConsoleType(generated) /\ memory[d] \in MemoryType(generated)
      /\ registry[d] \in RecordType(generated) /\ file[d] \in FileType(generated)
  BY Parts
<1>1. CASE UpdateLocalKeys(d)
  BY <1>1, BeginUpdateAgree DEF UpdateLocalKeys
<1>2. ASSUME c.at \in Updating PROVE agreed[d] # "yes"
  BY <1>2 DEF AgreeInv, Settles
<1>3. CASE PublishKey(d)
  <2>1. PICK mined \in BOOLEAN, ok \in BOOLEAN :
          /\ ok => mined
          /\ registry' = IF mined THEN [registry EXCEPT ![d].key = c.key] ELSE registry
          /\ console' = [console EXCEPT ![d] =
                [@ EXCEPT !.ok = IF ok THEN {"key"} ELSE {}, !.at = "publish_sign"]]
    BY <1>3 DEF PublishKey
  <2>2. /\ console'[d].at = "publish_sign"
        /\ console'[d].key = c.key
        /\ console'[d].ok = IF ok THEN {"key"} ELSE {}
    BY <1>0, <2>1 DEF ConsoleType, KeysTypeOK
  <2>3. registry'[d].active /\ (ok => registry'[d].key = c.key)
    BY <1>0, <1>3, <2>1 DEF RecordType, KeysTypeOK, PublishKey
  <2>4. agreed'[d] # "yes"
    BY <1>2, <1>3 DEF PublishKey, Updating
  <2> QED
    BY <2>2, <2>3, <2>4 DEF AgreeInv, Progress, Published
<1>4. CASE PublishSign(d)
  <2>1. PICK mined \in BOOLEAN, ok \in BOOLEAN :
          /\ ok => mined
          /\ registry' = IF mined THEN [registry EXCEPT ![d].sign = c.key] ELSE registry
          /\ console' = [console EXCEPT ![d] =
                [@ EXCEPT !.ok = IF ok THEN c.ok \cup {"sign"} ELSE c.ok,
                          !.at = IF "key" \in c.ok THEN "copy_pk"
                                 ELSE IF ok THEN "copy_sign" ELSE "return"]]
    BY <1>4 DEF PublishSign
  <2>2. /\ console'[d].at = IF "key" \in c.ok THEN "copy_pk"
                            ELSE IF ok THEN "copy_sign" ELSE "return"
        /\ console'[d].key = c.key
        /\ console'[d].ok = IF ok THEN c.ok \cup {"sign"} ELSE c.ok
    BY <1>0, <2>1 DEF ConsoleType, KeysTypeOK
  <2>3. registry'[d].active /\ registry'[d].key = registry[d].key /\ (ok => registry'[d].sign = c.key)
    BY <1>0, <1>4, <2>1 DEF RecordType, KeysTypeOK, PublishSign
  <2>4. agreed'[d] = agreed[d] /\ agreed[d] # "yes" /\ c.at = "publish_sign"
    BY <1>2, <1>4 DEF PublishSign, Updating
  <2>5. ASSUME agreed[d] = "begun" PROVE Progress(d)'
    <3>1. "sign" \notin c.ok /\ ("key" \in c.ok => registry[d].key = c.key)
      BY <2>4, <2>5 DEF AgreeInv, Progress
    <3>2. "sign" \in console'[d].ok => ok
      BY <2>2, <3>1
    <3>3. "key" \in console'[d].ok <=> "key" \in c.ok
      BY <2>2
    <3>4. /\ console'[d].at \notin {"publish_sign", "copy_sk"}
          /\ console'[d].at \in {"copy_sign", "return"} => "key" \notin c.ok
          /\ console'[d].at = "return" => ~ ok
      BY <2>2
    <3> QED
      BY <2>2, <2>3, <3>1, <3>2, <3>3, <3>4 DEF Progress
  <2> QED
    BY <2>4, <2>5 DEF AgreeInv
<1>5. CASE UpdateThrows(d)
  <2>1. CASE Ends(d)
    BY <2>1, EndsAgree
  <2>2. CASE Ready(d) /\ UNCHANGED <<registry, file, memory, agreed>>
    BY <2>2, ReadyAt, KeysKept DEF Updating
  <2> QED
    BY <1>5, <2>1, <2>2 DEF UpdateThrows, Throws
<1>6. CASE CopyPublic(d)
  <2>1. /\ c.at = "copy_pk" /\ UNCHANGED <<registry, file, agreed>>
        /\ console'[d].at = "copy_sk" /\ console'[d].key = c.key /\ console'[d].ok = c.ok
    BY <1>0, <1>6 DEF CopyPublic, ConsoleType, KeysTypeOK
  <2>2. memory'[d].pair.pk = c.key
    BY <1>0, <1>6 DEF CopyPublic, MemoryType, PairType, KeysTypeOK
  <2>3. agreed[d] # "yes"
    BY <1>2, <2>1 DEF Updating
  <2> QED
    BY <2>1, <2>2, <2>3 DEF AgreeInv, Progress, Published
<1>7. CASE CopyPrivate(d)
  <2>1. /\ c.at = "copy_sk" /\ UNCHANGED <<registry, agreed>>
        /\ console'[d].at = IF "sign" \in c.ok THEN "copy_sign" ELSE "return"
        /\ console'[d].key = c.key /\ console'[d].ok = c.ok
    BY <1>0, <1>7 DEF CopyPrivate, ConsoleType, KeysTypeOK
  <2>2. memory'[d].pair = [memory[d].pair EXCEPT !.sk = c.key]
    BY <1>0, <1>7 DEF CopyPrivate, MemoryType, KeysTypeOK
  <2>3. file'[d].key = c.key
    BY <1>0, <1>7 DEF CopyPrivate, FileType, KeysTypeOK
  <2>4. agreed[d] # "yes"
    BY <1>2, <2>1 DEF Updating
  <2>5. ASSUME agreed[d] = "begun" PROVE Progress(d)'
    <3>1. memory[d].pair.pk = c.key
      BY <2>1, <2>5 DEF AgreeInv, Progress
    <3>2. memory[d].pair \in PairType(generated)
      BY <1>0 DEF MemoryType
    <3>3. memory'[d].pair = Both(c.key)
      BY <2>2, <3>1, <3>2 DEF Both, PairType
    <3> QED
      BY <2>1, <2>3, <2>5, <3>3 DEF AgreeInv, Progress, Published
  <2> QED
    BY <2>1, <2>4, <2>5 DEF AgreeInv
<1>8. CASE CopySign(d)
  <2>1. /\ c.at = "copy_sign" /\ UNCHANGED <<registry, agreed>>
        /\ console'[d].at = "return" /\ console'[d].key = c.key /\ console'[d].ok = c.ok
    BY <1>0, <1>8 DEF CopySign, ConsoleType, KeysTypeOK
  <2>2. memory'[d].pair = memory[d].pair /\ memory'[d].signer = Both(c.key)
    BY <1>0, <1>8 DEF CopySign, MemoryType, KeysTypeOK
  <2>3. file'[d].key = file[d].key /\ file'[d].sign = c.key
    BY <1>0, <1>8 DEF CopySign, FileType, KeysTypeOK
  <2>4. agreed[d] # "yes"
    BY <1>2, <2>1 DEF Updating
  <2> QED
    BY <2>1, <2>2, <2>3, <2>4 DEF AgreeInv, Progress, Published
<1>9. CASE Returns(d)
  <2>1. c.at = "return" /\ UNCHANGED <<registry, file, memory>>
    BY <1>9 DEF Returns
  <2>2. console'[d].at \in {"receiver", "ready"}
    <3>1. CASE Ready(d)
      BY <3>1, ReadyAt
    <3>2. CASE console' = [console EXCEPT ![d].at = "receiver"]
      BY <1>0, <3>2 DEF ConsoleType, KeysTypeOK
    <3> QED
      BY <1>9, <3>1, <3>2 DEF Returns
  <2>3. agreed'[d] # "begun"
    BY <1>9 DEF Returns, KeysTypeOK
  <2>4. ASSUME agreed'[d] = "yes" PROVE Settles(d)'
    <3>1. agreed[d] = "begun" /\ c.ok = {"key", "sign"}
      BY <1>9, <2>4 DEF Returns, KeysTypeOK
    <3> QED
      BY <2>1, <2>2, <3>1 DEF AgreeInv, Progress, Settles, Published, Updating
  <2> QED
    BY <2>3, <2>4 DEF AgreeInv
<1> QED
  BY <1>1, <1>3, <1>4, <1>5, <1>6, <1>7, <1>8, <1>9 DEF UpdateStep

LEMMA LoadAgree ==
    ASSUME KeysTypeOK, NEW d \in Device, LoadStep(d), AgreeInv(d)
    PROVE  AgreeInv(d)'
<1>0. /\ console[d] \in ConsoleType(generated) /\ memory[d] \in MemoryType(generated)
      /\ file[d] \in FileType(generated)
  BY Parts
<1>1. CASE LoadId(d)
  <2>1. memory'[d].pair = memory[d].pair /\ memory'[d].signer = memory[d].signer
    BY <1>0, <1>1 DEF LoadId, KeysTypeOK, MemoryType
  <2>2. console'[d].at \in {"key", "ready"}
    <3>1. CASE Ready(d)
      BY <3>1, ReadyAt
    <3>2. CASE console' = [console EXCEPT ![d].at = "key"]
      BY <1>0, <3>2 DEF ConsoleType, KeysTypeOK
    <3> QED
      BY <1>1, <3>1, <3>2 DEF LoadId
  <2> QED
    BY <1>1, <2>1, <2>2, KeysKept DEF LoadId, Updating
<1>2. CASE LoadKey(d)
  <2>1. console'[d].at = "sign" /\ console'[d].key \in {0, registry[d].key}
    BY <1>0, <1>2 DEF LoadKey, ConsoleType, KeysTypeOK
  <2> QED
    BY <1>2, <2>1, KeysKept DEF LoadKey, Updating
<1>3. CASE LoadSign(d)
  <2> DEFINE k == console[d].key
             f == file[d]
             m == memory[d]
  <2>1. CASE BeginUpdate(d, "receiver")
    BY <2>1, BeginUpdateAgree
  <2>2. ASSUME NEW s \in {0, registry[d].sign},
               memory' = [memory EXCEPT ![d] =
                    [@ EXCEPT !.pair = IF f.key # 0 /\ k # 0 THEN [pk |-> k, sk |-> f.key] ELSE m.pair,
                              !.signer = IF f.sign # 0 /\ s # 0 THEN [pk |-> s, sk |-> f.sign] ELSE m.signer]],
               console' = [console EXCEPT ![d].at = "receiver"],
               UNCHANGED agreed
        PROVE  AgreeInv(d)'
    <3>1. console'[d].at = "receiver" /\ UNCHANGED <<registry, file, agreed>>
      BY <1>0, <1>3, <2>2 DEF ConsoleType, KeysTypeOK, LoadSign
    <3>2. /\ memory'[d].pair = IF f.key # 0 /\ k # 0 THEN [pk |-> k, sk |-> f.key] ELSE m.pair
          /\ memory'[d].signer = IF f.sign # 0 /\ s # 0 THEN [pk |-> s, sk |-> f.sign] ELSE m.signer
      BY <1>0, <2>2 DEF MemoryType, KeysTypeOK
    <3>3. ASSUME agreed[d] = "yes" PROVE Settles(d)'
      <4>1. Settles(d)
        BY <3>3 DEF AgreeInv
      <4>2. k \in {0, registry[d].key}
        BY <1>3, <4>1 DEF LoadSign, Settles
      <4>3. memory'[d].pair \in {NoPair, Both(registry[d].key)}
        BY <3>2, <4>1, <4>2 DEF Settles, Both
      <4>4. memory'[d].signer \in {NoPair, Both(registry[d].sign)}
        BY <2>2, <3>2, <4>1 DEF Settles, Both
      <4> QED
        BY <3>1, <4>1, <4>3, <4>4 DEF Settles, Updating
    <3>4. Progress(d)'
      BY <3>1 DEF Progress, Published
    <3> QED
      BY <3>1, <3>3, <3>4 DEF AgreeInv
  <2>3. PICK s \in {0, registry[d].sign} :
          \/ BeginUpdate(d, "receiver")
          \/ /\ memory' = [memory EXCEPT ![d] =
                    [@ EXCEPT !.pair = IF f.key # 0 /\ k # 0 THEN [pk |-> k, sk |-> f.key] ELSE m.pair,
                              !.signer = IF f.sign # 0 /\ s # 0 THEN [pk |-> s, sk |-> f.sign] ELSE m.signer]]
             /\ console' = [console EXCEPT ![d].at = "receiver"]
             /\ UNCHANGED agreed
    BY <1>3 DEF LoadSign
  <2> QED
    BY <2>1, <2>2, <2>3
<1>4. CASE LoadReceiver(d)
  <2>1. console'[d].at \in {"peer", "ready"}
    <3>1. CASE Ready(d)
      BY <3>1, ReadyAt
    <3>2. ASSUME NEW r, console' = [console EXCEPT ![d] = [@ EXCEPT !.other = r, !.at = "peer"]]
          PROVE  console'[d].at = "peer"
      BY <1>0, <3>2 DEF ConsoleType, KeysTypeOK
    <3> QED
      BY <1>4, <3>1, <3>2 DEF LoadReceiver
  <2> QED
    BY <1>4, <2>1, KeysKept DEF LoadReceiver, Updating
<1>5. CASE LoadPeer(d)
  <2>1. memory'[d].pair = memory[d].pair /\ memory'[d].signer = memory[d].signer
    BY <1>0, <1>5 DEF LoadPeer, KeysTypeOK, MemoryType
  <2>2. console'[d].at = "ready"
    BY <1>5, ReadyAt DEF LoadPeer
  <2> QED
    BY <1>5, <2>1, <2>2, KeysKept DEF LoadPeer, Updating
<1> QED
  BY <1>1, <1>2, <1>3, <1>4, <1>5 DEF LoadStep

LEMMA RegistryAgree ==
    ASSUME KeysTypeOK, NEW d \in Device, RegistryStep(d), AgreeInv(d)
    PROVE  AgreeInv(d)'
<1>0. console[d] \in ConsoleType(generated) /\ registry[d] \in RecordType(generated)
  BY Parts
<1>1. CASE AddedOwn(d)
  <2>1. console'[d].at \in {"id", "ready"}
    <3>1. CASE Ready(d)
      BY <3>1, ReadyAt
    <3>2. CASE console' = [console EXCEPT ![d].at = "id"]
      BY <1>0, <3>2 DEF ConsoleType, KeysTypeOK
    <3> QED
      BY <1>1, <3>1, <3>2 DEF AddedOwn
  <2> QED
    BY <1>1, <2>1, KeysKept DEF AddedOwn, Updating
<1>2. CASE RemoveDevice(d)
  <2>1. agreed'[d] = "no"
    BY <1>2 DEF RemoveDevice, KeysTypeOK
  <2> QED
    BY <2>1 DEF AgreeInv
<1>3. ASSUME NEW e \in Device, AddDevice(d, e) PROVE AgreeInv(d)'
  <2>1. console' = console \/ console'[d].at = "added"
    BY <1>0, <1>3 DEF AddDevice, KeysTypeOK, ConsoleType
  <2>2. UNCHANGED <<file, memory, agreed>> /\ console[d].at = "ready"
    BY <1>3 DEF AddDevice
  <2>3. CASE registry'[d] = registry[d]
    BY <2>1, <2>2, <2>3, KeysKept DEF Updating
  <2>4. CASE ~ registry[d].active
    <3>1. agreed'[d] # "yes"
      BY <2>2, <2>4 DEF AgreeInv, Settles
    <3>2. Progress(d)'
      BY <2>1, <2>2 DEF Progress, Published
    <3> QED
      BY <3>1, <3>2 DEF AgreeInv
  <2>5. registry'[d] = registry[d] \/ ~ registry[d].active
    BY <1>3 DEF AddDevice, KeysTypeOK
  <2> QED
    BY <2>3, <2>4, <2>5
<1>4. ASSUME NEW e \in Device, UpdateReceiver(d, e) PROVE AgreeInv(d)'
  <2>1. /\ registry'[d].active = registry[d].active
        /\ registry'[d].key = registry[d].key
        /\ registry'[d].sign = registry[d].sign
    BY <1>0, <1>4 DEF UpdateReceiver, RecordType, KeysTypeOK
  <2> QED
    BY <1>4, <2>1, KeysKept DEF UpdateReceiver
<1> QED
  BY <1>1, <1>2, <1>3, <1>4 DEF RegistryStep

LEMMA SensorAgree ==
    ASSUME KeysTypeOK, NEW d \in Device, SensorStep(d), AgreeInv(d)
    PROVE  AgreeInv(d)'
<1>1. CASE UNCHANGED <<registry, file, memory, console, agreed>>
  BY <1>1, KeysKept
<1>2. CASE Ends(d)
  BY <1>2, EndsAgree
<1>3. CASE PushData(d)
  <2>1. registry[d] \in RecordType(generated)
    BY Parts
  <2>2. registry' = registry \/ registry' = [registry EXCEPT ![d].data = sensor[d].cipher]
    BY <1>3 DEF PushData
  <2>3. /\ registry'[d].active = registry[d].active
        /\ registry'[d].key = registry[d].key
        /\ registry'[d].sign = registry[d].sign
    BY <2>1, <2>2 DEF RecordType, KeysTypeOK
  <2> QED
    BY <1>3, <2>3, KeysKept DEF PushData
<1>4. UNCHANGED <<registry, file, memory, console, agreed>> \/ Ends(d) \/ PushData(d)
  BY DEF SensorStep, ReadOwnId, TestFlag, Derive, ClearFlag, Encrypt
<1> QED
  BY <1>1, <1>2, <1>3, <1>4

\* The inductive invariant of this module.
AllAgree == \A d \in Device : AgreeInv(d)

LEMMA AgreeInit == KeysInit => AllAgree
  BY DEF KeysInit, AllAgree, AgreeInv

LEMMA AgreeNext == KeysTypeOK /\ AllAgree /\ [KeysNext]_vars => AllAgree'
<1> SUFFICES ASSUME KeysTypeOK, AllAgree, [KeysNext]_vars
             PROVE  AllAgree'
  OBVIOUS
<1>1. ASSUME NEW d \in Device, DeviceStep(d) PROVE AllAgree'
  <2>1. AgreeInv(d)
    BY DEF AllAgree
  <2>2. ASSUME Start(d) PROVE AgreeInv(d)'
    <3>1. console'[d].at = "id"
      BY <2>2, Parts DEF Start, KeysTypeOK, ConsoleType
    <3> QED
      BY <2>1, <2>2, <3>1, KeysKept DEF Start, Updating
  <2>3. AgreeInv(d)'
    BY <1>1, <2>1, <2>2, EndsAgree, UpdateAgree, LoadAgree, RegistryAgree, SensorAgree DEF DeviceStep, Crash
  <2>4. ASSUME NEW e \in Device, e # d PROVE AgreeInv(e)'
    BY <1>1, <2>4, Frame, AgreeElsewhere DEF AllAgree
  <2> QED
    BY <2>3, <2>4 DEF AllAgree
<1>2. CASE UNCHANGED vars
  BY <1>2 DEF vars, AllAgree, AgreeInv, Settles, Progress
<1> QED
  BY <1>1, <1>2 DEF KeysNext, DeviceStep

\* AgreedAfterUpdate of the run keys, for any devices and bounds: an update that
\* returned true leaves the same pairs in contract, file and memory, and no
\* restart or reload mixes them with others.
THEOREM KeysAgree == KeysSpec => []AgreedAfterUpdate
<1>1. KeysTypeOK /\ AllAgree /\ [KeysNext]_vars => AllAgree'
  BY AgreeNext
<1>2. AllAgree => AgreedAfterUpdate
  BY DEF AllAgree, AgreeInv, Settles, AgreedAfterUpdate
<1> QED
  BY <1>1, <1>2, AgreeInit, KeysTypeCorrect, PTL DEF KeysSpec

=============================================================================
