------------------------------ MODULE LoraNode ------------------------------
(***************************************************************************)
(* The LoRa devices: the program of src/lora_client.cpp and the sketch of  *)
(* src/embedded/feather-m0_rf9x, which sign a packet and hand it to the    *)
(* radio, and the packet format of src/include/packet.hpp they share with  *)
(* the gateway.                                                            *)
(*                                                                         *)
(* A packet is reduced to its number, who signed it, its len field, the    *)
(* length of the sensor data it was made from, and whether its type is     *)
(* PACKET_TYPE_DATA_FIRST, the only one the nodes send.  All nodes of the  *)
(* model are configured with one device id: nodes that were given the id   *)
(* one after the other.  The cryptography is ideal: a packet verifies with *)
(* the key of its signer and no other.                                     *)
(***************************************************************************)
EXTENDS Integers, Sequences

CONSTANTS
    Node,        \* LoRa devices configured with the device id of the model
    Sketch,      \* those that run the embedded sketch
    NoNode,      \* nobody
    Length,      \* lengths of what a sensor returns
    MaxPackets   \* bound: packets sent

ASSUME NodeAssumption ==
    /\ Sketch \subseteq Node
    /\ NoNode \notin Node
    /\ Length \subseteq Nat
    /\ MaxPackets \in Nat

VARIABLES
    node,   \* where each node's program is
    sent,   \* packets numbered so far
    out,    \* the packet each node is about to transmit, or none
    air,    \* the packet the gateway's radio holds, if any
    ended   \* numbers of the packets that are nowhere any more

nodeVars == <<node, sent, out, air, ended>>

-----------------------------------------------------------------------------
(* Lengths                                                                 *)

HeaderLen == 13
NonceLen  == 24
SignLen   == 64
MaxMessageLen == 255   \* RH_RF95_MAX_MESSAGE_LEN

\* The data array of struct packet_data.
DataCapacity == MaxMessageLen - NonceLen - SignLen - HeaderLen

Uint8(n) == n % 256

\* The test at the top of sendData.
Admitted(dataLen) == dataLen <= 156

\* Definitions named ...Mutant are faulty variants of the definition that
\* follows them; the specification never uses them.

\* Fault: forgets the nonce.
PacketLenMutant(dataLen) == Uint8(HeaderLen + dataLen + SignLen)

\* p.len, a uint8_t.
PacketLen(dataLen) == Uint8(HeaderLen + dataLen + NonceLen + SignLen)

\* The data bytes that signPacket and verifySignature hash.  The subtraction is
\* made in size_t: a negative number stands for one that exceeds all memory.
SignedLen(len) == len - HeaderLen - NonceLen - SignLen

-----------------------------------------------------------------------------

NoPacket == <<>>

Packet == [n : 1..MaxPackets, signer : Node \union {NoNode}, length : Length \union {0},
           len : 0..255, first : BOOLEAN]

NodeState == {"off", "loaded", "ready", "transmit", "stopped", "crashed"}

NodeInit ==
    /\ node = [c \in Node |-> "off"]
    /\ sent = 0
    /\ out = [c \in Node |-> NoPacket]
    /\ air = NoPacket
    /\ ended = {}

\* loadConfig of lora_client: a setting that is missing or malformed ends the
\* program.  The shared keys are derived here, once and for all.
LoadConfig(c) ==
    /\ c \notin Sketch
    /\ node[c] = "off"
    /\ \E to \in {"loaded", "stopped"} : node' = [node EXCEPT ![c] = to]
    /\ UNCHANGED <<sent, out, air, ended>>

\* Its setup: without a radio module the program ends.  Without bcm2835 it goes
\* on, and nothing it sends arrives.
SetupRadio(c) ==
    /\ node[c] = "loaded"
    /\ \E to \in {"ready", "stopped"} : node' = [node EXCEPT ![c] = to]
    /\ UNCHANGED <<sent, out, air, ended>>

\* The sketch's setup: a failure is blinked forever.
SketchSetup(c) ==
    /\ c \in Sketch
    /\ node[c] = "off"
    /\ \E to \in {"ready", "stopped"} : node' = [node EXCEPT ![c] = to]
    /\ UNCHANGED <<sent, out, air, ended>>

\* The packet's length does not fit len: signPacket hashes memory it does not
\* have and the program dies.
SignPacketFails(c, dataLen) ==
    /\ SignedLen(PacketLen(dataLen)) < 0
    /\ node' = [node EXCEPT ![c] = "crashed"]
    /\ UNCHANGED <<sent, out, air, ended>>

\* The data is encrypted with a fresh nonce and signed.
SignPacket(c, dataLen, length) ==
    /\ SignedLen(PacketLen(dataLen)) >= 0
    /\ sent < MaxPackets
    /\ sent' = sent + 1
    /\ out' = [out EXCEPT ![c] = [n |-> sent + 1, signer |-> c, length |-> length,
                                  len |-> PacketLen(dataLen), first |-> TRUE]]
    /\ node' = [node EXCEPT ![c] = "transmit"]
    /\ UNCHANGED <<air, ended>>

\* sendData, whose parameter is a uint8_t.  A length it refuses changes nothing,
\* and its callers ignore that it returns false.
SendData(c, length) ==
    /\ node[c] = "ready"
    /\ Admitted(Uint8(length))
    /\ SignPacketFails(c, Uint8(length)) \/ SignPacket(c, Uint8(length), length)

\* sendSensorData of lora_client, with the output of a command of any length.
SendSensorData(c, length) ==
    /\ c \notin Sketch
    /\ SendData(c, length)

\* loop of the sketch: voltage and uptime, in less than 100 characters.
SketchLoop(c, length) ==
    /\ c \in Sketch
    /\ length < 100
    /\ SendData(c, length)

\* The packet reaches the gateway's radio, which holds one, or it does not: the
\* channel stays busy, it is lost on the way, or the radio is full.  The node
\* waits for a reply, ignores it, and goes back to its sensor either way.
TransmitData(c) ==
    /\ node[c] = "transmit"
    /\ \/ air = NoPacket /\ air' = out[c] /\ UNCHANGED ended
       \/ ended' = ended \union {out[c].n} /\ UNCHANGED air
    /\ out' = [out EXCEPT ![c] = NoPacket]
    /\ node' = [node EXCEPT ![c] = "ready"]
    /\ UNCHANGED sent

\* A packet of another radio under the same id: too short, or of another type.
ForeignPacket ==
    /\ air = NoPacket
    /\ sent < MaxPackets
    /\ sent' = sent + 1
    /\ \E len \in {0, 255} :
          air' = [n |-> sent + 1, signer |-> NoNode, length |-> 0,
                  len |-> len, first |-> len = 0]
    /\ UNCHANGED <<node, out, ended>>

NodeStep(c) ==
    \/ LoadConfig(c)
    \/ SetupRadio(c)
    \/ SketchSetup(c)
    \/ \E length \in Length : SendSensorData(c, length) \/ SketchLoop(c, length)
    \/ TransmitData(c)

=============================================================================
