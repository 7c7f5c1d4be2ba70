----------------------------- MODULE LoraTrxProofs -----------------------------
(***************************************************************************)
(* Proofs about the LoRa gateway for any number of nodes, packets, changes *)
(* of the registry and lengths of sensor data: what it pushes has the      *)
(* length the node meant, comes in the order the node sent it, and bears   *)
(* the id of the node that signed it unless the registry changed after the *)
(* signature was verified; no packet is lost track of or duplicated, which *)
(* makes it the uplink of Uplink; and no packet lies in the queue next to  *)
(* a forwarder nobody wakes, but for the named reasons.                    *)
(***************************************************************************)
EXTENDS LoraTrx, SequenceTheorems, FiniteSetTheorems, TLAPS

USE NodeAssumption, GatewayAssumption

-----------------------------------------------------------------------------
(* Lengths                                                                 *)

\* The length of the data, which sendData puts into a uint8_t together with 101
\* bytes of header, nonce and signature, is got back by subtracting these,
\* unless the subtraction underflows.
LEMMA LengthRecovered ==
    ASSUME NEW dataLen \in 0..255, Admitted(dataLen), SignedLen(PacketLen(dataLen)) >= 0
    PROVE  SignedLen(PacketLen(dataLen)) = dataLen
<1>1. dataLen + 101 \in 0..511 /\ HeaderLen + dataLen + NonceLen + SignLen = dataLen + 101
  BY DEF HeaderLen, NonceLen, SignLen, Admitted
<1>2. CASE dataLen <= 154
  <2>1. PacketLen(dataLen) = dataLen + 101
    BY <1>1, <1>2 DEF PacketLen, Uint8
  <2> QED
    BY <2>1 DEF SignedLen, HeaderLen, NonceLen, SignLen
<1>3. CASE dataLen > 154
  <2>1. dataLen = 155 \/ dataLen = 156
    BY <1>3 DEF Admitted
  <2>2. PacketLen(dataLen) < 101
    BY <1>1, <2>1 DEF PacketLen, Uint8
  <2>3. PacketLen(dataLen) \in Int
    BY <1>1 DEF PacketLen, Uint8
  <2> QED
    BY <2>2, <2>3 DEF SignedLen, HeaderLen, NonceLen, SignLen
<1> QED
  BY <1>2, <1>3

LEMMA Uint8Type ==
    ASSUME NEW n \in Nat
    PROVE  Uint8(n) \in 0..255
  BY DEF Uint8

-----------------------------------------------------------------------------
(* The invariant                                                           *)

\* A packet that some node signed has the length of the data it was made from.
Sound(p) ==
    /\ p \in Packet
    /\ p.signer # NoNode => p.length \in Length /\ SignedLen(p.len) = Uint8(p.length)

NodesInv ==
    /\ node \in [Node -> NodeState]
    /\ sent \in 0..MaxPackets
    /\ out \in [Node -> Packet \union {NoPacket}]
    /\ \A c \in Node : out[c] = NoPacket \/ Sound(out[c])
    /\ \A c \in Node : node[c] = "transmit" => Sound(out[c])
    /\ air = NoPacket \/ Sound(air)
    /\ ended \subseteq 1..MaxPackets

ServerInv ==
    /\ halt \in BOOLEAN /\ radioUp \in BOOLEAN /\ crashed \in BOOLEAN
    /\ rx \in Seq(Packet) /\ \A i \in DOMAIN rx : Sound(rx[i])
    /\ tx \in 0..MaxMessages
    /\ sPc \in {"off", "setup", "loop", "transmit", "receive", "notify", "done"}
    /\ sPc = "transmit" => tx > 0
    /\ cPc \in {"off", "running", "join_server", "join_forwarder", "closed"}

Holding == {"managed", "verify", "gateway", "push", "hung"}

\* The forwarder finds a packet where it pops one; further on, what it found out
\* about the packet it holds still stands, as long as the record has not changed.
ForwarderInv ==
    /\ fPc \in Holding \union {"off", "test", "wait", "block", "asleep", "stranded", "pop", "done"}
    /\ cPc = "off" => fPc = "off"
    /\ fPc = "pop" => rx # <<>>
    /\ fPc \notin Holding => held = <<>>
    /\ fPc \in Holding =>
          /\ held \in Packet \X (0..MaxEpoch)
          /\ Sound(packet)
          /\ held[2] <= epoch
    /\ fPc \in {"verify", "gateway", "push"} => SignedLen(packet.len) >= 0
    /\ fPc \in {"gateway", "push"} =>
          packet.signer # NoNode /\ (held[2] = epoch => holder = packet.signer)

RecordInv ==
    /\ gateway \in {"gateway", "device", "none"}
    /\ holder \in Node \union {NoNode} /\ signkey \in {holder, NoNode}
    /\ epoch \in 0..MaxEpoch

\* What a push that is on the chain tells.
PushSound(p) ==
    /\ p \in PushRecord
    /\ p.bytes = Uint8(p.length)
    /\ p.holder # p.signer => p.verified < p.at

ResultInv ==
    /\ pushed \in Seq(PushRecord)
    /\ \A i \in DOMAIN pushed : PushSound(pushed[i])
    /\ claimed \subseteq 1..MaxPackets

GatewayInv == NodesInv /\ ServerInv /\ ForwarderInv /\ RecordInv /\ ResultInv

LEMMA GatewayInvInit == GatewayInit => GatewayInv
<1> SUFFICES ASSUME GatewayInit PROVE GatewayInv
  OBVIOUS
<1>1. NodesInv
  BY DEF GatewayInit, NodeInit, NodesInv, NodeState
<1>2. ServerInv
  <2>1. rx = <<>> /\ tx = 0
    BY DEF GatewayInit
  <2>2. rx \in Seq(Packet) /\ \A i \in DOMAIN rx : Sound(rx[i])
    BY <2>1
  <2>3. tx \in 0..MaxMessages
    BY <2>1
  <2> QED
    BY <2>2, <2>3 DEF GatewayInit, ServerInv
<1>3. ForwarderInv
  BY DEF GatewayInit, ForwarderInv, Holding
<1>4. RecordInv
  BY DEF GatewayInit, RecordInv
<1>5. ResultInv
  BY DEF GatewayInit, ResultInv
<1> QED
  BY <1>1, <1>2, <1>3, <1>4, <1>5 DEF GatewayInv

-----------------------------------------------------------------------------
(* The nodes                                                               *)

\* A node that only moves within its program.
LEMMA NodeMoves ==
    ASSUME NodesInv, NEW c \in Node, NEW to \in NodeState \ {"transmit"},
           node' = [node EXCEPT ![c] = to], UNCHANGED <<sent, out, air, ended>>
    PROVE  NodesInv'
<1>1. node' \in [Node -> NodeState] /\ \A d \in Node : node'[d] = "transmit" => node[d] = "transmit"
  BY DEF NodesInv
<1> QED
  BY <1>1 DEF NodesInv

\* The packet the node makes.
LEMMA SignedSound ==
    ASSUME NEW c \in Node, NEW length \in Length, NEW n \in 1..MaxPackets,
           Admitted(Uint8(length)), SignedLen(PacketLen(Uint8(length))) >= 0
    PROVE  Sound([n |-> n, signer |-> c, length |-> length,
                  len |-> PacketLen(Uint8(length)), first |-> TRUE])
<1>1. Uint8(length) \in 0..255
  BY Uint8Type
<1>2. SignedLen(PacketLen(Uint8(length))) = Uint8(length)
  BY <1>1, LengthRecovered
<1>3. PacketLen(Uint8(length)) \in 0..255
  BY <1>1 DEF PacketLen, Uint8, HeaderLen, NonceLen, SignLen
<1> QED
  BY <1>2, <1>3 DEF Sound, Packet

LEMMA SendDataSound ==
    ASSUME NodesInv, NEW c \in Node, NEW length \in Length, SendData(c, length)
    PROVE  NodesInv'
<1>1. CASE SignPacketFails(c, Uint8(length))
  BY <1>1, NodeMoves DEF SignPacketFails, NodeState
<1>2. CASE SignPacket(c, Uint8(length), length)
  <2> DEFINE p == [n |-> sent + 1, signer |-> c, length |-> length,
                   len |-> PacketLen(Uint8(length)), first |-> TRUE]
  <2>1. sent + 1 \in 1..MaxPackets
    BY <1>2 DEF SignPacket, NodesInv
  <2>2. Sound(p)
    BY <1>2, <2>1, SignedSound DEF SendData, SignPacket
  <2>3. p \in Packet
    BY <2>2 DEF Sound
  <2>4. /\ out' = [out EXCEPT ![c] = p]
        /\ node' = [node EXCEPT ![c] = "transmit"]
        /\ sent' = sent + 1
        /\ UNCHANGED <<air, ended>>
    BY <1>2 DEF SignPacket
  <2> HIDE DEF p
  <2>5. /\ out'[c] = p /\ node'[c] = "transmit"
        /\ \A d \in Node \ {c} : out'[d] = out[d] /\ node'[d] = node[d]
        /\ out' \in [Node -> Packet \union {NoPacket}]
        /\ node' \in [Node -> NodeState]
    BY <2>3, <2>4 DEF NodesInv, NodeState
  <2> QED
    BY <2>1, <2>2, <2>4, <2>5 DEF NodesInv
<1> QED
  BY <1>1, <1>2 DEF SendData

LEMMA TransmitSound ==
    ASSUME NodesInv, NEW c \in Node, TransmitData(c)
    PROVE  NodesInv'
<1>1. Sound(out[c]) /\ out[c].n \in 1..MaxPackets
  BY DEF TransmitData, NodesInv, Sound, Packet
<1>2. /\ out'[c] = NoPacket /\ node'[c] = "ready"
      /\ \A d \in Node \ {c} : out'[d] = out[d] /\ node'[d] = node[d]
      /\ out' \in [Node -> Packet \union {NoPacket}]
      /\ node' \in [Node -> NodeState]
  BY DEF TransmitData, NodesInv, NodeState
<1>3. air' = NoPacket \/ Sound(air')
  BY <1>1 DEF TransmitData, NodesInv
<1>4. ended' \subseteq 1..MaxPackets /\ sent' = sent
  BY <1>1 DEF TransmitData, NodesInv
<1> QED
  BY <1>2, <1>3, <1>4 DEF NodesInv

LEMMA ForeignSound ==
    ASSUME NodesInv, ForeignPacket
    PROVE  NodesInv'
<1>1. PICK len \in {0, 255} :
          air' = [n |-> sent + 1, signer |-> NoNode, length |-> 0, len |-> len, first |-> len = 0]
  BY DEF ForeignPacket
<1>2. sent + 1 \in 1..MaxPackets
  BY DEF ForeignPacket, NodesInv
<1>3. (len = 0) \in BOOLEAN
  OBVIOUS
<1>4. Sound(air')
  BY <1>1, <1>2, <1>3 DEF Sound, Packet
<1> QED
  BY <1>2, <1>4 DEF ForeignPacket, NodesInv

LEMMA NodesStepSound ==
    ASSUME NodesInv, NodesStep
    PROVE  NodesInv'
<1>1. ASSUME NEW c \in Node, NodeStep(c) PROVE NodesInv'
  <2>1. CASE LoadConfig(c)
    BY <2>1, NodeMoves DEF LoadConfig, NodeState
  <2>2. CASE SetupRadio(c)
    BY <2>2, NodeMoves DEF SetupRadio, NodeState
  <2>3. CASE SketchSetup(c)
    BY <2>3, NodeMoves DEF SketchSetup, NodeState
  <2> QED
    BY <1>1, <2>1, <2>2, <2>3, SendDataSound, TransmitSound DEF NodeStep, SendSensorData, SketchLoop
<1> QED
  BY <1>1, ForeignSound DEF NodesStep

-----------------------------------------------------------------------------
(* Steps that leave parts of the gateway alone                             *)

LEMMA NodesSame == ASSUME NodesInv, UNCHANGED nodeVars PROVE NodesInv'
  BY DEF NodesInv, nodeVars

LEMMA ForwarderSame ==
    ASSUME ForwarderInv, UNCHANGED <<fPc, held, rx, epoch, holder>>, cPc' = "off" => cPc = "off"
    PROVE  ForwarderInv'
<1>1. packet' = packet
  BY DEF packet
<1> QED
  BY <1>1 DEF ForwarderInv

LEMMA RecordSame == ASSUME RecordInv, UNCHANGED recordVars PROVE RecordInv'
  BY DEF RecordInv, recordVars

LEMMA ResultSame == ASSUME ResultInv, UNCHANGED resultVars PROVE ResultInv'
  BY DEF ResultInv, resultVars

LEMMA ServerSame ==
    ASSUME ServerInv, UNCHANGED <<halt, radioUp, rx, tx, sPc, cPc, crashed>>
    PROVE  ServerInv'
  BY DEF ServerInv

\* Waking the forwarder concerns no packet.
LEMMA WokenSound ==
    ASSUME ForwarderInv, fPc' = Woken, UNCHANGED <<held, rx, epoch, holder>>, cPc' = "off" => cPc = "off"
    PROVE  ForwarderInv'
<1>1. packet' = packet
  BY DEF packet
<1> QED
  BY <1>1 DEF ForwarderInv, Woken, Holding

-----------------------------------------------------------------------------
(* The owner and the server thread                                         *)

LEMMA OwnerSound ==
    ASSUME GatewayInv, (NodesSetUp /\ ServerInit) \/ SendMessage \/ CloseServer \/ Join
    PROVE  GatewayInv'
<1>0. NodesInv /\ ServerInv /\ ForwarderInv /\ RecordInv /\ ResultInv
  BY DEF GatewayInv
<1>1. CASE ServerInit
  <2>1. ServerInv'
    BY <1>0, <1>1 DEF ServerInit, ServerInv
  <2>2. ForwarderInv'
    <3>1. CASE UNCHANGED <<fPc, cPc>>
      BY <1>0, <1>1, <3>1, ForwarderSame DEF ServerInit, recordVars
    <3>2. CASE fPc' = "test" /\ cPc' = "running"
      <4>1. held' = <<>>
        BY <1>0, <1>1 DEF ServerInit, ForwarderInv, Holding
      <4> QED
        BY <3>2, <4>1 DEF ForwarderInv, Holding
    <3> QED
      BY <1>1, <3>1, <3>2 DEF ServerInit
  <2> QED
    BY <1>0, <1>1, <2>1, <2>2, NodesSame, RecordSame, ResultSame DEF ServerInit, GatewayInv
<1>2. CASE SendMessage
  <2>1. ServerInv'
    BY <1>0, <1>2 DEF SendMessage, ServerInv
  <2> QED
    BY <1>0, <1>2, <2>1, NodesSame, ForwarderSame, RecordSame, ResultSame
    DEF SendMessage, GatewayInv, recordVars
<1>3. CASE CloseServer
  <2>1. ServerInv'
    BY <1>0, <1>3 DEF CloseServer, ServerInv
  <2> QED
    BY <1>0, <1>3, <2>1, NodesSame, WokenSound, RecordSame, ResultSame
    DEF CloseServer, GatewayInv, recordVars
<1>4. CASE Join
  <2>1. ServerInv'
    BY <1>0, <1>4 DEF Join, ServerInv
  <2> QED
    BY <1>0, <1>4, <2>1, NodesSame, ForwarderSame, RecordSame, ResultSame
    DEF Join, GatewayInv, recordVars
<1> QED
  BY <1>1, <1>2, <1>3, <1>4

LEMMA ServerSound ==
    ASSUME GatewayInv, ServerStep
    PROVE  GatewayInv'
<1>0. NodesInv /\ ServerInv /\ ForwarderInv /\ RecordInv /\ ResultInv
  BY DEF GatewayInv
<1>1. CASE ServerSetup
  <2>1. ServerInv'
    BY <1>0, <1>1 DEF ServerSetup, ServerInv
  <2> QED
    BY <1>0, <1>1, <2>1, NodesSame, ForwarderSame, RecordSame, ResultSame
    DEF ServerSetup, GatewayInv, recordVars
<1>2. CASE ServerTest
  <2>1. ServerInv'
    BY <1>0, <1>2 DEF ServerTest, ServerInv
  <2> QED
    BY <1>0, <1>2, <2>1, NodesSame, ForwarderSame, RecordSame, ResultSame
    DEF ServerTest, GatewayInv, recordVars
<1>3. CASE ServerTransmit
  <2>1. crashed' \in BOOLEAN
    BY <1>3, Zenon DEF ServerTransmit
  <2>2. ServerInv'
    BY <1>0, <1>3, <2>1 DEF ServerTransmit, ServerInv
  <2> QED
    BY <1>0, <1>3, <2>2, NodesSame, ForwarderSame, RecordSame, ResultSame
    DEF ServerTransmit, GatewayInv, recordVars
<1>4. CASE ServerReceive
  <2>1. Sound(air) /\ air \in Packet /\ rx \in Seq(Packet) /\ rx' = Append(rx, air)
    BY <1>0, <1>4 DEF ServerReceive, NodesInv, ServerInv, Sound
  <2>2. /\ rx' \in Seq(Packet)
        /\ \A i \in DOMAIN rx' : Sound(rx'[i])
        /\ rx' # <<>>
    <3>1. /\ rx' \in Seq(Packet) /\ DOMAIN rx' = 1..(Len(rx) + 1) /\ DOMAIN rx = 1..Len(rx)
          /\ rx'[Len(rx) + 1] = air /\ Len(rx) \in Nat
          /\ \A i \in 1..Len(rx) : rx'[i] = rx[i]
          /\ rx' # <<>>
      BY <2>1, AppendProperties
    <3>2. \A i \in DOMAIN rx : Sound(rx[i])
      BY <1>0 DEF ServerInv
    <3>3. \A i \in DOMAIN rx' : rx'[i] = air \/ (i \in DOMAIN rx /\ rx'[i] = rx[i])
      BY <3>1
    <3> QED
      BY <2>1, <3>1, <3>2, <3>3
  <2>3. UNCHANGED <<halt, radioUp, tx, fPc, held, cPc, crashed, node, sent, out, ended, recordVars, resultVars>>
    BY <1>4 DEF ServerReceive
  <2>4. ServerInv'
    BY <1>0, <1>4, <2>2, <2>3 DEF ServerReceive, ServerInv
  <2>5. ForwarderInv'
    <3>1. packet' = packet
      BY <2>3 DEF packet
    <3> QED
      BY <1>0, <2>2, <2>3, <3>1 DEF ForwarderInv, recordVars
  <2>6. NodesInv'
    BY <1>0, <1>4, <2>3 DEF ServerReceive, NodesInv
  <2> QED
    BY <1>0, <2>3, <2>4, <2>5, <2>6, RecordSame, ResultSame DEF GatewayInv
<1>5. CASE ServerReceivesNothing
  <2>1. UNCHANGED <<halt, radioUp, rx, tx, fPc, held, cPc, crashed, node, sent, out, recordVars, resultVars>>
    BY <1>5 DEF ServerReceivesNothing
  <2>2. ServerInv'
    BY <1>0, <1>5, <2>1 DEF ServerReceivesNothing, ServerInv
  <2>3. air' = NoPacket \/ air' = air
    BY <1>5 DEF ServerReceivesNothing
  <2>4. ended' \subseteq 1..MaxPackets
    <3>1. air # NoPacket => air.n \in 1..MaxPackets
      BY <1>0 DEF NodesInv, Sound, Packet
    <3>2. \/ ended' = ended
          \/ air # NoPacket /\ ended' = ended \union {air.n}
      <4>1. CASE radioUp /\ air # NoPacket
        BY <1>5, <4>1 DEF ServerReceivesNothing
      <4>2. CASE ~ (radioUp /\ air # NoPacket)
        BY <1>5, <4>2 DEF ServerReceivesNothing
      <4> QED
        BY <4>1, <4>2
    <3> QED
      BY <1>0, <3>1, <3>2 DEF NodesInv
  <2>5. NodesInv'
    BY <1>0, <2>1, <2>3, <2>4 DEF NodesInv
  <2> QED
    BY <1>0, <2>1, <2>2, <2>5, ForwarderSame, RecordSame, ResultSame DEF GatewayInv, recordVars
<1>6. CASE ServerNotify
  <2>1. ServerInv'
    BY <1>0, <1>6 DEF ServerNotify, ServerInv
  <2> QED
    BY <1>0, <1>6, <2>1, NodesSame, WokenSound, RecordSame, ResultSame
    DEF ServerNotify, GatewayInv, recordVars
<1> QED
  BY <1>1, <1>2, <1>3, <1>4, <1>5, <1>6 DEF ServerStep

-----------------------------------------------------------------------------
(* The forwarder thread                                                    *)

\* A step outside of processPacket.
LEMMA LoopSound ==
    ASSUME GatewayInv, fPc \notin Holding \union {"off"},
           fPc' \in {"test", "wait", "block", "asleep", "stranded", "pop", "done"},
           fPc' = "pop" => rx # <<>>,
           UNCHANGED <<halt, radioUp, rx, tx, sPc, held, cPc, crashed, nodeVars, recordVars, resultVars>>
    PROVE  GatewayInv'
<1>0. NodesInv /\ ServerInv /\ ForwarderInv /\ RecordInv /\ ResultInv
  BY DEF GatewayInv
<1>1. held = <<>> /\ cPc # "off"
  BY <1>0 DEF ForwarderInv
<1>2. fPc' \notin Holding
  BY DEF Holding
<1>3. ForwarderInv'
  BY <1>1, <1>2 DEF ForwarderInv
<1> QED
  BY <1>0, <1>3, NodesSame, ServerSame, RecordSame, ResultSame DEF GatewayInv

\* processPacket is over: the packet is gone.
LEMMA FinishSound ==
    ASSUME GatewayInv, fPc \in Holding, Finish, ResultInv'
    PROVE  GatewayInv'
<1>0. NodesInv /\ ServerInv /\ ForwarderInv /\ RecordInv /\ ResultInv
  BY DEF GatewayInv
<1>1. Sound(packet) /\ packet.n \in 1..MaxPackets
  BY <1>0 DEF ForwarderInv, Sound, Packet
<1>2. NodesInv'
  BY <1>0, <1>1 DEF Finish, NodesInv
<1>3. ServerInv'
  BY <1>0, ServerSame DEF Finish
<1>4. ForwarderInv'
  BY <1>0 DEF Finish, ForwarderInv, Holding
<1> QED
  BY <1>0, <1>2, <1>3, <1>4, RecordSame DEF GatewayInv, Finish

\* A step within processPacket.
LEMMA ProceedSound ==
    ASSUME GatewayInv, NEW from \in Holding, NEW to \in Holding, Proceed(from, to), ForwarderInv'
    PROVE  GatewayInv'
  BY NodesSame, ServerSame, RecordSame, ResultSame DEF GatewayInv, Proceed

LEMMA PopSound ==
    ASSUME GatewayInv, ReadPop
    PROVE  GatewayInv'
<1>0. NodesInv /\ ServerInv /\ ForwarderInv /\ RecordInv /\ ResultInv
  BY DEF GatewayInv
<1>1. /\ fPc = "pop" /\ fPc' = "managed" /\ held' = <<Head(rx), epoch>> /\ rx' = Tail(rx)
      /\ UNCHANGED <<halt, radioUp, tx, sPc, cPc, crashed, nodeVars, recordVars, resultVars>>
  BY DEF ReadPop
<1>2. rx \in Seq(Packet) /\ rx # <<>> /\ \A i \in DOMAIN rx : Sound(rx[i])
  BY <1>0, <1>1 DEF ServerInv, ForwarderInv
<1>3. /\ Len(rx) \in Nat \ {0} /\ DOMAIN rx = 1..Len(rx)
      /\ Head(rx) = rx[1]
      /\ Tail(rx) \in Seq(Packet) /\ DOMAIN Tail(rx) = 1..(Len(rx) - 1)
      /\ \A i \in 1..(Len(rx) - 1) : Tail(rx)[i] = rx[i + 1]
  BY <1>2
<1>4. Sound(Head(rx)) /\ Head(rx) \in Packet
  <2>1. 1 \in DOMAIN rx
    BY <1>3
  <2> QED
    BY <1>2, <1>3, <2>1 DEF Sound
<1>5. \A i \in DOMAIN rx' : Sound(rx'[i])
  <2>1. \A i \in DOMAIN rx' : i + 1 \in DOMAIN rx /\ rx'[i] = rx[i + 1]
    BY <1>1, <1>3
  <2> QED
    BY <1>2, <2>1
<1>6. ServerInv'
  BY <1>0, <1>1, <1>3, <1>5 DEF ServerInv
<1>7. epoch \in 0..MaxEpoch /\ epoch' = epoch
  BY <1>0, <1>1 DEF RecordInv, recordVars
<1>8. /\ held' \in Packet \X (0..MaxEpoch)
      /\ packet' = Head(rx) /\ held'[2] = epoch
  BY <1>1, <1>4, <1>7 DEF packet
<1>9. ForwarderInv'
  <2>1. cPc' # "off"
    BY <1>0, <1>1 DEF ForwarderInv
  <2>2. held'[2] <= epoch'
    BY <1>7, <1>8
  <2> QED
    BY <1>1, <1>4, <1>8, <2>1, <2>2 DEF ForwarderInv, Holding
<1> QED
  BY <1>0, <1>1, <1>6, <1>9, NodesSame, RecordSame, ResultSame DEF GatewayInv

LEMMA CheckSound ==
    ASSUME GatewayInv, IsManaged \/ VerifySignature \/ IsGateway
    PROVE  GatewayInv'
<1>0. ForwarderInv /\ RecordInv
  BY DEF GatewayInv
<1>1. CASE IsManaged
  <2>1. /\ fPc = "managed" /\ fPc' = "verify" /\ Proceed("managed", "verify")
        /\ UNCHANGED <<held, rx, cPc, epoch, holder>> /\ SignedLen(packet.len) >= 0
    BY <1>1 DEF IsManaged, Proceed, recordVars
  <2>2. packet' = packet
    BY <2>1 DEF packet
  <2>3. ForwarderInv'
    BY <1>0, <2>1, <2>2 DEF ForwarderInv, Holding
  <2> QED
    BY <2>1, <2>3, ProceedSound DEF Holding
<1>2. CASE VerifySignature
  <2>1. /\ fPc = "verify" /\ fPc' = "gateway" /\ Proceed("verify", "gateway")
        /\ UNCHANGED <<rx, cPc, epoch, holder>> /\ held' = <<packet, epoch>>
        /\ signkey # NoNode /\ signkey = packet.signer
    BY <1>2 DEF VerifySignature, Proceed, recordVars
  <2>2. /\ held \in Packet \X (0..MaxEpoch) /\ Sound(packet) /\ SignedLen(packet.len) >= 0
        /\ packet \in Packet /\ epoch \in 0..MaxEpoch
    BY <1>0, <2>1 DEF ForwarderInv, RecordInv, Holding, Sound
  <2>3. packet' = packet /\ held'[2] = epoch /\ held' \in Packet \X (0..MaxEpoch)
    BY <2>1, <2>2 DEF packet
  <2>4. holder = packet.signer /\ packet.signer # NoNode
    BY <1>0, <2>1 DEF RecordInv
  <2>5. ForwarderInv'
    <3>1. cPc' # "off"
      BY <1>0, <2>1 DEF ForwarderInv
    <3>2. held'[2] <= epoch'
      BY <2>1, <2>2, <2>3
    <3> QED
      BY <2>1, <2>2, <2>3, <2>4, <3>1, <3>2 DEF ForwarderInv, Holding
  <2> QED
    BY <2>1, <2>5, ProceedSound DEF Holding
<1>3. CASE IsGateway
  <2>1. /\ fPc = "gateway" /\ fPc' = "push" /\ Proceed("gateway", "push")
        /\ UNCHANGED <<held, rx, cPc, epoch, holder>>
    BY <1>3 DEF IsGateway, Proceed, recordVars
  <2>2. packet' = packet
    BY <2>1 DEF packet
  <2>3. ForwarderInv'
    BY <1>0, <2>1, <2>2 DEF ForwarderInv, Holding
  <2> QED
    BY <2>1, <2>3, ProceedSound DEF Holding
<1> QED
  BY <1>1, <1>2, <1>3

\* A push that the contract executes is what its packet was checked for.
LEMMA PushedSound ==
    ASSUME GatewayInv, fPc = "push", Permitted
    PROVE  PushSound(Pushed)
<1>1. /\ held \in Packet \X (0..MaxEpoch) /\ Sound(packet) /\ packet \in Packet
      /\ SignedLen(packet.len) >= 0 /\ packet.signer # NoNode
      /\ held[2] <= epoch /\ held[2] \in 0..MaxEpoch /\ epoch \in 0..MaxEpoch
      /\ held[2] = epoch => holder = packet.signer
  BY DEF GatewayInv, ForwarderInv, RecordInv, Holding, Sound
<1>2. /\ packet.n \in 1..MaxPackets /\ packet.len \in 0..255 /\ packet.signer \in Node
      /\ packet.length \in Length /\ SignedLen(packet.len) = Uint8(packet.length)
  BY <1>1 DEF Sound, Packet
<1>3. SignedLen(packet.len) \in 0..DataCapacity
  BY <1>1, <1>2 DEF SignedLen, DataCapacity, MaxMessageLen, HeaderLen, NonceLen, SignLen
<1>4. holder \in Node
  BY DEF Permitted, GatewayInv, RecordInv
<1>5. Pushed \in PushRecord
  BY <1>1, <1>2, <1>3, <1>4 DEF Pushed, PushRecord
<1>6. Pushed.bytes = Uint8(Pushed.length)
  BY <1>2 DEF Pushed
<1>7. Pushed.holder # Pushed.signer => Pushed.verified < Pushed.at
  BY <1>1 DEF Pushed
<1> QED
  BY <1>5, <1>6, <1>7 DEF PushSound

LEMMA PushSoundStep ==
    ASSUME GatewayInv, PushData
    PROVE  GatewayInv'
<1>0. NodesInv /\ ServerInv /\ ForwarderInv /\ RecordInv /\ ResultInv
  BY DEF GatewayInv
<1>1. fPc = "push"
  BY DEF PushData
<1>2. packet.n \in 1..MaxPackets
  BY <1>0, <1>1 DEF ForwarderInv, Holding, Sound, Packet
<1>3. Permitted => PushSound(Pushed)
  BY <1>1, PushedSound
<1>4. PICK executed \in {Permitted, FALSE}, answer \in {"true", "false", "threw", "never"} :
         /\ pushed' = IF executed THEN Append(pushed, Pushed) ELSE pushed
         /\ claimed' = IF answer \in {"true", "false"} THEN claimed \union {packet.n} ELSE claimed
         /\ IF answer # "never"
            THEN Finish
            ELSE /\ fPc' = "hung"
                 /\ UNCHANGED <<halt, radioUp, rx, tx, sPc, held, cPc, crashed, nodeVars, recordVars>>
  BY DEF PushData
<1>5. ResultInv'
  <2>1. claimed' \subseteq 1..MaxPackets
    BY <1>0, <1>2, <1>4 DEF ResultInv
  <2>2. CASE pushed' = pushed
    BY <1>0, <2>1, <2>2 DEF ResultInv
  <2>3. CASE Permitted /\ pushed' = Append(pushed, Pushed)
    <3>1. PushSound(Pushed) /\ Pushed \in PushRecord /\ pushed \in Seq(PushRecord)
      BY <1>0, <1>3, <2>3 DEF PushSound, ResultInv
    <3> DEFINE p == Pushed
    <3> HIDE DEF p
    <3>2. p \in PushRecord /\ PushSound(p) /\ pushed' = Append(pushed, p)
      BY <2>3, <3>1 DEF p
    <3>3. /\ pushed' \in Seq(PushRecord)
          /\ \A i \in DOMAIN pushed' : pushed'[i] = p \/ (i \in DOMAIN pushed /\ pushed'[i] = pushed[i])
      BY <3>1, <3>2, AppendProperties
    <3> QED
      BY <1>0, <2>1, <3>2, <3>3 DEF ResultInv
  <2>4. pushed' = pushed \/ (Permitted /\ pushed' = Append(pushed, Pushed))
    <3>1. executed => Permitted
      OBVIOUS
    <3> QED
      BY <1>4, <3>1
  <2> QED
    BY <2>2, <2>3, <2>4
<1>6. CASE Finish
  BY <1>1, <1>5, <1>6, FinishSound DEF Holding
<1>7. CASE /\ fPc' = "hung"
           /\ UNCHANGED <<halt, radioUp, rx, tx, sPc, held, cPc, crashed, nodeVars, recordVars>>
  <2>1. packet' = packet /\ UNCHANGED <<epoch, holder>>
    BY <1>7 DEF packet, recordVars
  <2>2. ForwarderInv'
    BY <1>0, <1>1, <1>7, <2>1 DEF ForwarderInv, Holding
  <2> QED
    BY <1>0, <1>5, <1>7, <2>2, NodesSame, ServerSame, RecordSame DEF GatewayInv
<1> QED
  BY <1>4, <1>6, <1>7

LEMMA ForwarderSound ==
    ASSUME GatewayInv, ForwarderStep \/ ReadWakesSpuriously
    PROVE  GatewayInv'
<1>1. CASE ForwarderTest
  BY <1>1, LoopSound DEF ForwarderTest, Holding
<1>2. CASE ReadTest
  BY <1>2, LoopSound DEF ReadTest, Holding
<1>3. CASE ReadBlock
  BY <1>3, LoopSound DEF ReadBlock, Holding
<1>4. CASE ReadWakesSpuriously
  BY <1>4, LoopSound DEF ReadWakesSpuriously, Woken, Holding
<1>5. CASE Discard
  <2>1. fPc \in Holding /\ Finish /\ ResultInv'
    BY <1>5, ResultSame DEF Discard, Holding, GatewayInv
  <2> QED
    BY <2>1, FinishSound
<1> QED
  BY <1>1, <1>2, <1>3, <1>4, <1>5, PopSound, CheckSound, PushSoundStep DEF ForwarderStep, ProcessPacket

-----------------------------------------------------------------------------
(* Every step                                                              *)

\* A change of the registry ends what the forwarder found out about its packet.
LEMMA RecordChangesSound ==
    ASSUME GatewayInv, RecordChanges
    PROVE  GatewayInv'
<1>0. NodesInv /\ ServerInv /\ ForwarderInv /\ RecordInv /\ ResultInv
  BY DEF GatewayInv
<1>1. epoch' = epoch + 1 /\ epoch' \in 0..MaxEpoch /\ UNCHANGED <<nodeVars, threadVars, resultVars>>
  BY <1>0 DEF RecordChanges, RecordInv
<1>2. RecordInv'
  BY <1>0, <1>1 DEF RecordChanges, RecordInv
<1>3. UNCHANGED <<halt, radioUp, rx, tx, sPc, fPc, held, cPc, crashed>> /\ packet' = packet
  BY <1>1 DEF threadVars, packet
<1>4. epoch \in Int /\ (fPc \in Holding => held[2] \in Int /\ held[2] <= epoch)
  BY <1>0 DEF ForwarderInv, RecordInv
<1>5. fPc \in Holding => held[2] < epoch'
  BY <1>1, <1>4
<1>6. ForwarderInv'
  BY <1>0, <1>1, <1>3, <1>4, <1>5 DEF ForwarderInv, Holding
<1> QED
  BY <1>0, <1>1, <1>2, <1>3, <1>6, NodesSame, ServerSame, ResultSame DEF GatewayInv

LEMMA GatewayInvStep == GatewayInv /\ [GatewayNext]_gatewayVars => GatewayInv'
<1> SUFFICES ASSUME GatewayInv, [GatewayNext]_gatewayVars PROVE GatewayInv'
  OBVIOUS
<1>0. NodesInv /\ ServerInv /\ ForwarderInv /\ RecordInv /\ ResultInv
  BY DEF GatewayInv
<1>1. CASE NodesStep
  <2>1. NodesInv' /\ UNCHANGED <<threadVars, recordVars, resultVars>>
    BY <1>0, <1>1, NodesStepSound DEF NodesStep
  <2> QED
    BY <1>0, <2>1, ServerSame, ForwarderSame, RecordSame, ResultSame
    DEF GatewayInv, threadVars, recordVars
<1>2. CASE UNCHANGED gatewayVars
  BY <1>0, <1>2, NodesSame, ServerSame, ForwarderSame, RecordSame, ResultSame
  DEF GatewayInv, gatewayVars, threadVars, recordVars
<1> QED
  BY <1>1, <1>2, OwnerSound, ServerSound, ForwarderSound, RecordChangesSound DEF GatewayNext

LEMMA GatewayInvHolds == GatewaySpec => []GatewayInv
  BY GatewayInvInit, GatewayInvStep, PTL DEF GatewaySpec

-----------------------------------------------------------------------------
(* The theorems                                                            *)

\* Queues and buffers hold packets, the forwarder holds one exactly while it is
\* in processPacket, and no data it pushes exceeds the packet's data array.
THEOREM GatewayTypeCorrect == GatewaySpec => []GatewayTypeOK
<1>1. ASSUME GatewayInv PROVE GatewayTypeOK
  <2>1. NodesInv /\ ServerInv /\ ForwarderInv /\ RecordInv /\ ResultInv
    BY <1>1 DEF GatewayInv
  <2>2. air \in Packet \union {NoPacket}
    BY <2>1 DEF NodesInv, Sound
  <2>3. /\ held \in (Packet \X (0..MaxEpoch)) \union {<<>>}
        /\ (held # <<>>) <=> fPc \in Holding
    <3>1. CASE fPc \in Holding
      <4>1. held \in Packet \X (0..MaxEpoch)
        BY <2>1, <3>1 DEF ForwarderInv
      <4>2. held # <<>>
        BY <4>1
      <4> QED
        BY <3>1, <4>1, <4>2
    <3>2. CASE fPc \notin Holding
      BY <2>1, <3>2 DEF ForwarderInv
    <3> QED
      BY <3>1, <3>2
  <2>4. fPc \in Holding \union {"off", "test", "wait", "block", "asleep", "stranded", "pop", "done"}
    BY <2>1 DEF ForwarderInv
  <2> QED
    BY <2>1, <2>2, <2>3, <2>4 DEF GatewayTypeOK, NodesInv, ServerInv, RecordInv, ResultInv, Holding
<1> QED
  BY <1>1, GatewayInvHolds, PTL

\* A push under the id of a device that did not sign the data is preceded by a
\* change of the registry between verifySignature and push_data.
THEOREM AttributionRight == GatewaySpec => []AttributionExplained
<1>1. GatewayInv => AttributionExplained
  BY DEF GatewayInv, ResultInv, PushSound, AttributionExplained
<1> QED
  BY <1>1, GatewayInvHolds, PTL

\* The gateway pushes as many bytes as the node's uint8_t said, although len is
\* computed modulo 256 on one side and subtracted from on the other.
THEOREM LengthsKept == GatewaySpec => []LengthsSurvive
<1>1. GatewayInv => LengthsSurvive
  BY DEF GatewayInv, ResultInv, PushSound, LengthsSurvive
<1> QED
  BY <1>1, GatewayInvHolds, PTL

-----------------------------------------------------------------------------
(* The order of the pushes                                                 *)

Processing == Holding \ {"hung"}

\* What is further on its way than p, of the same signer, was made before p.
PushedBefore(p) == \A i \in DOMAIN pushed : pushed[i].signer = p.signer => pushed[i].n < p.n
HeldBefore(p) == fPc \in Processing /\ packet.signer = p.signer => packet.n < p.n
QueuedBefore(p) == \A i \in DOMAIN rx : rx[i].signer = p.signer => rx[i].n < p.n
AirBefore(p) == air # NoPacket /\ air.signer = p.signer => air.n < p.n

\* Along the way of a packet: pushed, processed, queued, in the radio, at its
\* node.  Nothing has a number that is yet to be given.
PushedOrder == PushesInOrder /\ \A i \in DOMAIN pushed : pushed[i].n <= sent
HeldOrder == fPc \in Processing => PushedBefore(packet) /\ packet.n <= sent
QueueOrder ==
    /\ \A i \in DOMAIN rx : PushedBefore(rx[i]) /\ HeldBefore(rx[i]) /\ rx[i].n <= sent
    /\ \A i, j \in DOMAIN rx : i < j /\ rx[i].signer = rx[j].signer => rx[i].n < rx[j].n
AirOrder == air # NoPacket =>
    PushedBefore(air) /\ HeldBefore(air) /\ QueuedBefore(air) /\ air.n <= sent
OutOrder == \A c \in Node : out[c] # NoPacket =>
    /\ PushedBefore(out[c]) /\ HeldBefore(out[c]) /\ QueuedBefore(out[c]) /\ AirBefore(out[c])
    /\ out[c].signer = c /\ out[c].n <= sent

OrderInv == PushedOrder /\ HeldOrder /\ QueueOrder /\ AirOrder /\ OutOrder

LEMMA OrderInit == GatewayInit => OrderInv
<1> SUFFICES ASSUME GatewayInit PROVE OrderInv
  OBVIOUS
<1>1. /\ pushed = <<>> /\ rx = <<>> /\ fPc = "off" /\ air = NoPacket
      /\ \A c \in Node : out[c] = NoPacket
  BY DEF GatewayInit, NodeInit
<1>2. DOMAIN pushed = {} /\ DOMAIN rx = {} /\ fPc \notin Processing
  BY <1>1 DEF Processing, Holding
<1> QED
  BY <1>1, <1>2 DEF OrderInv, PushedOrder, HeldOrder, QueueOrder, AirOrder, OutOrder, PushesInOrder

\* Steps that move no packet.
LEMMA OrderSame ==
    ASSUME OrderInv, UNCHANGED <<pushed, rx, air, out, sent, held>>,
           fPc' \in Processing => fPc \in Processing
    PROVE  OrderInv'
<1>1. packet' = packet
  BY DEF packet
<1>2. \A p : (PushedBefore(p)' <=> PushedBefore(p)) /\ (QueuedBefore(p)' <=> QueuedBefore(p))
             /\ (AirBefore(p)' <=> AirBefore(p)) /\ (HeldBefore(p) => HeldBefore(p)')
  BY <1>1 DEF PushedBefore, QueuedBefore, AirBefore, HeldBefore
<1>3. PushedOrder'
  BY DEF OrderInv, PushedOrder, PushesInOrder
<1>4. HeldOrder'
  BY <1>1, <1>2 DEF OrderInv, HeldOrder
<1>5. QueueOrder'
  BY <1>2 DEF OrderInv, QueueOrder
<1>6. AirOrder'
  BY <1>2 DEF OrderInv, AirOrder
<1>7. OutOrder'
  BY <1>2 DEF OrderInv, OutOrder
<1> QED
  BY <1>3, <1>4, <1>5, <1>6, <1>7 DEF OrderInv

\* A new number is larger than all others.
LEMMA NewNumber ==
    ASSUME GatewayInv, OrderInv, NEW p, p.n = sent + 1
    PROVE  PushedBefore(p) /\ HeldBefore(p) /\ QueuedBefore(p) /\ AirBefore(p)
<1>0. sent \in Int
  BY DEF GatewayInv, NodesInv
<1>1. ASSUME NEW n \in 1..MaxPackets, n <= sent PROVE n < p.n
  BY <1>0, <1>1
<1>2. PushedBefore(p)
  <2>1. \A i \in DOMAIN pushed : pushed[i].n \in 1..MaxPackets /\ pushed[i].n <= sent
    BY DEF GatewayInv, ResultInv, PushSound, PushRecord, OrderInv, PushedOrder
  <2> QED
    BY <1>1, <2>1 DEF PushedBefore
<1>3. HeldBefore(p)
  <2>1. fPc \in Processing => packet.n \in 1..MaxPackets /\ packet.n <= sent
    BY DEF GatewayInv, ForwarderInv, Processing, Sound, Packet, OrderInv, HeldOrder
  <2> QED
    BY <1>1, <2>1 DEF HeldBefore
<1>4. QueuedBefore(p)
  <2>1. \A i \in DOMAIN rx : rx[i].n \in 1..MaxPackets /\ rx[i].n <= sent
    BY DEF GatewayInv, ServerInv, Sound, Packet, OrderInv, QueueOrder
  <2> QED
    BY <1>1, <2>1 DEF QueuedBefore
<1>5. AirBefore(p)
  <2>1. air # NoPacket => air.n \in 1..MaxPackets /\ air.n <= sent
    BY DEF GatewayInv, NodesInv, Sound, Packet, OrderInv, AirOrder
  <2> QED
    BY <1>1, <2>1 DEF AirBefore
<1> QED
  BY <1>2, <1>3, <1>4, <1>5

\* sent grows: nothing that was numbered before is affected.
LEMMA OrderSent ==
    ASSUME GatewayInv, OrderInv, sent' = sent + 1, UNCHANGED <<pushed, rx, held, fPc>>
    PROVE  /\ PushedOrder' /\ HeldOrder' /\ QueueOrder'
           /\ \A p : /\ PushedBefore(p)' <=> PushedBefore(p)
                     /\ HeldBefore(p)' <=> HeldBefore(p)
                     /\ QueuedBefore(p)' <=> QueuedBefore(p)
<1>1. packet' = packet
  BY DEF packet
<1>2. \A p : /\ PushedBefore(p)' <=> PushedBefore(p)
             /\ HeldBefore(p)' <=> HeldBefore(p)
             /\ QueuedBefore(p)' <=> QueuedBefore(p)
  BY <1>1 DEF PushedBefore, QueuedBefore, HeldBefore
<1>3. ASSUME NEW n \in 1..MaxPackets, n <= sent PROVE n <= sent'
  BY <1>3 DEF GatewayInv, NodesInv
<1>4. \A i \in DOMAIN pushed : pushed[i].n \in 1..MaxPackets
  BY DEF GatewayInv, ResultInv, PushSound, PushRecord
<1>5. PushedOrder'
  BY <1>3, <1>4 DEF OrderInv, PushedOrder, PushesInOrder
<1>6. fPc \in Processing => packet.n \in 1..MaxPackets
  BY DEF GatewayInv, ForwarderInv, Processing, Sound, Packet
<1>7. HeldOrder'
  BY <1>1, <1>2, <1>3, <1>6 DEF OrderInv, HeldOrder
<1>8. \A i \in DOMAIN rx : rx[i].n \in 1..MaxPackets
  BY DEF GatewayInv, ServerInv, Sound, Packet
<1>9. QueueOrder'
  BY <1>2, <1>3, <1>8 DEF OrderInv, QueueOrder
<1> QED
  BY <1>2, <1>5, <1>7, <1>9

LEMMA SignOrder ==
    ASSUME GatewayInv, OrderInv, NEW c \in Node, NEW p, p.n = sent + 1, p.signer = c, p # NoPacket,
           out' = [out EXCEPT ![c] = p], sent' = sent + 1, UNCHANGED <<pushed, rx, held, fPc, air>>
    PROVE  OrderInv'
<1>1. /\ PushedOrder' /\ HeldOrder' /\ QueueOrder'
      /\ \A q : /\ PushedBefore(q)' <=> PushedBefore(q)
                /\ HeldBefore(q)' <=> HeldBefore(q)
                /\ QueuedBefore(q)' <=> QueuedBefore(q)
  BY OrderSent
<1>2. \A q : AirBefore(q)' <=> AirBefore(q)
  BY DEF AirBefore
<1>3. ASSUME NEW n \in 1..MaxPackets, n <= sent PROVE n <= sent'
  BY <1>3 DEF GatewayInv, NodesInv
<1>4. AirOrder'
  <2>1. air # NoPacket => air.n \in 1..MaxPackets
    BY DEF GatewayInv, NodesInv, Sound, Packet
  <2> QED
    BY <1>1, <1>3, <2>1 DEF OrderInv, AirOrder
<1>5. OutOrder'
  <2>1. out'[c] = p /\ \A d \in Node \ {c} : out'[d] = out[d]
    BY DEF GatewayInv, NodesInv
  <2>2. PushedBefore(p)' /\ HeldBefore(p)' /\ QueuedBefore(p)' /\ AirBefore(p)'
    BY <1>1, <1>2, NewNumber
  <2>3. p.n <= sent'
    BY DEF GatewayInv, NodesInv
  <2>4. ASSUME NEW d \in Node \ {c}, out[d] # NoPacket
        PROVE  /\ PushedBefore(out[d])' /\ HeldBefore(out[d])' /\ QueuedBefore(out[d])'
               /\ AirBefore(out[d])' /\ out[d].signer = d /\ out[d].n <= sent'
    <3>1. out[d].n \in 1..MaxPackets
      BY <2>4 DEF GatewayInv, NodesInv, Sound, Packet
    <3>2. /\ PushedBefore(out[d]) /\ HeldBefore(out[d]) /\ QueuedBefore(out[d]) /\ AirBefore(out[d])
          /\ out[d].signer = d /\ out[d].n <= sent
      BY <2>4 DEF OrderInv, OutOrder
    <3>3. out'[d] = out[d]
      BY <2>1
    <3> QED
      BY <1>1, <1>2, <1>3, <3>1, <3>2, <3>3 DEF PushedBefore, HeldBefore, QueuedBefore, AirBefore
  <2> QED
    BY <2>1, <2>2, <2>3, <2>4 DEF OutOrder
<1> QED
  BY <1>1, <1>4, <1>5 DEF OrderInv

LEMMA ForeignOrder ==
    ASSUME GatewayInv, OrderInv, ForeignPacket, UNCHANGED <<pushed, rx, held, fPc>>
    PROVE  OrderInv'
<1>1. /\ air'.n = sent + 1 /\ air'.signer = NoNode /\ sent' = sent + 1 /\ out' = out
  BY DEF ForeignPacket
<1>2. /\ PushedOrder' /\ HeldOrder' /\ QueueOrder'
      /\ \A q : /\ PushedBefore(q)' <=> PushedBefore(q)
                /\ HeldBefore(q)' <=> HeldBefore(q)
                /\ QueuedBefore(q)' <=> QueuedBefore(q)
  BY <1>1, OrderSent
<1>3. PICK p : p = air'
  OBVIOUS
<1>4. p.n = sent + 1 /\ p.signer = NoNode /\ p.n <= sent'
  BY <1>1, <1>3 DEF GatewayInv, NodesInv
<1>5. PushedBefore(p)' /\ HeldBefore(p)' /\ QueuedBefore(p)'
  BY <1>2, <1>4, NewNumber
<1>6. AirOrder'
  BY <1>3, <1>4, <1>5 DEF AirOrder, PushedBefore, HeldBefore, QueuedBefore
<1>7. OutOrder'
  <2>1. ASSUME NEW d \in Node, out[d] # NoPacket
        PROVE  /\ PushedBefore(out[d])' /\ HeldBefore(out[d])' /\ QueuedBefore(out[d])'
               /\ AirBefore(out[d])' /\ out[d].signer = d /\ out[d].n <= sent'
    <3>1. out[d].n \in 1..MaxPackets /\ sent \in Nat
      BY <2>1 DEF GatewayInv, NodesInv, Sound, Packet
    <3>2. /\ PushedBefore(out[d]) /\ HeldBefore(out[d]) /\ QueuedBefore(out[d])
          /\ out[d].signer = d /\ out[d].n <= sent
      BY <2>1 DEF OrderInv, OutOrder
    <3>3. out'[d] = out[d] /\ d # NoNode /\ out[d].n <= sent'
      BY <1>1, <3>1, <3>2
    <3>4. AirBefore(out[d])'
      BY <1>1, <3>2, <3>3 DEF AirBefore
    <3> QED
      BY <1>2, <3>2, <3>3, <3>4 DEF PushedBefore, HeldBefore, QueuedBefore
  <2> QED
    BY <1>1, <2>1 DEF OutOrder
<1> QED
  BY <1>2, <1>6, <1>7 DEF OrderInv

\* What is nowhere any more is before nothing.
LEMMA TransmitOrder ==
    ASSUME GatewayInv, OrderInv, NEW c \in Node, out[c] # NoPacket,
           out' = [out EXCEPT ![c] = NoPacket], air' \in {air, out[c]},
           UNCHANGED <<pushed, rx, held, fPc, sent>>
    PROVE  OrderInv'
<1>1. packet' = packet
  BY DEF packet
<1>2. \A p : /\ PushedBefore(p)' <=> PushedBefore(p)
             /\ QueuedBefore(p)' <=> QueuedBefore(p)
             /\ HeldBefore(p)' <=> HeldBefore(p)
  BY <1>1 DEF PushedBefore, QueuedBefore, HeldBefore
<1>3. out'[c] = NoPacket /\ \A d \in Node \ {c} : out'[d] = out[d]
  BY DEF GatewayInv, NodesInv
<1>4. PushedOrder' /\ HeldOrder' /\ QueueOrder'
  BY <1>1, <1>2 DEF OrderInv, PushedOrder, PushesInOrder, HeldOrder, QueueOrder
<1>5. /\ PushedBefore(out[c]) /\ HeldBefore(out[c]) /\ QueuedBefore(out[c])
      /\ out[c].signer = c /\ out[c].n <= sent
  BY DEF OrderInv, OutOrder
<1>6. AirOrder'
  <2>1. CASE air' = air
    BY <1>2, <2>1 DEF OrderInv, AirOrder
  <2>2. CASE air' = out[c]
    BY <1>2, <1>5, <2>2 DEF AirOrder
  <2> QED
    BY <2>1, <2>2
<1>7. OutOrder'
  <2>1. ASSUME NEW d \in Node \ {c}, out[d] # NoPacket
        PROVE  /\ PushedBefore(out[d])' /\ HeldBefore(out[d])' /\ QueuedBefore(out[d])'
               /\ AirBefore(out[d])' /\ out[d].signer = d /\ out[d].n <= sent
    <3>1. /\ PushedBefore(out[d]) /\ HeldBefore(out[d]) /\ QueuedBefore(out[d]) /\ AirBefore(out[d])
          /\ out[d].signer = d /\ out[d].n <= sent /\ out'[d] = out[d]
      BY <1>3, <2>1 DEF OrderInv, OutOrder
    <3>2. AirBefore(out[d])'
      BY <1>5, <3>1 DEF AirBefore
    <3> QED
      BY <1>2, <3>1, <3>2 DEF PushedBefore, HeldBefore, QueuedBefore
  <2> QED
    BY <1>3, <2>1 DEF OutOrder
<1> QED
  BY <1>4, <1>6, <1>7 DEF OrderInv

LEMMA NodesOrder ==
    ASSUME GatewayInv, OrderInv, NodesStep
    PROVE  OrderInv'
<1>0. UNCHANGED <<pushed, rx, held, fPc>>
  BY DEF NodesStep, threadVars, resultVars
<1>1. ASSUME NEW c \in Node, NodeStep(c) PROVE OrderInv'
  <2>1. CASE UNCHANGED <<sent, out, air, ended>>
    BY <1>0, <2>1, OrderSame
  <2>2. CASE TransmitData(c)
    <3>1. out[c] # NoPacket
      <4>1. out[c] \in Packet
        BY <2>2 DEF TransmitData, GatewayInv, NodesInv, Sound
      <4>2. "n" \in DOMAIN out[c]
        BY <4>1 DEF Packet
      <4> QED
        BY <4>2 DEF NoPacket
    <3> QED
      BY <1>0, <2>2, <3>1, TransmitOrder DEF TransmitData
  <2>3. ASSUME NEW length \in Length, SignPacket(c, Uint8(length), length) PROVE OrderInv'
    <3>1. PICK p : p = [n |-> sent + 1, signer |-> c, length |-> length,
                        len |-> PacketLen(Uint8(length)), first |-> TRUE]
      OBVIOUS
    <3>2. p.n = sent + 1 /\ p.signer = c /\ p # NoPacket
      BY <3>1 DEF NoPacket
    <3>3. out' = [out EXCEPT ![c] = p] /\ sent' = sent + 1 /\ air' = air
      BY <2>3, <3>1 DEF SignPacket
    <3> QED
      BY <1>0, <3>2, <3>3, SignOrder
  <2> QED
    BY <1>1, <2>1, <2>2, <2>3 DEF NodeStep, LoadConfig, SetupRadio, SketchSetup, SendSensorData,
       SketchLoop, SendData, SignPacketFails
<1> QED
  BY <1>0, <1>1, ForeignOrder DEF NodesStep

LEMMA ReceiveOrder ==
    ASSUME GatewayInv, OrderInv, ServerReceive
    PROVE  OrderInv'
<1>0. /\ air # NoPacket /\ air' = NoPacket /\ rx' = Append(rx, air)
      /\ UNCHANGED <<pushed, held, fPc, out, sent>>
  BY DEF ServerReceive, resultVars
<1>1. packet' = packet
  BY <1>0 DEF packet
<1>2. \A p : /\ PushedBefore(p)' <=> PushedBefore(p)
             /\ HeldBefore(p)' <=> HeldBefore(p)
  BY <1>0, <1>1 DEF PushedBefore, HeldBefore
<1>3. /\ Len(rx) \in Nat /\ DOMAIN rx = 1..Len(rx) /\ DOMAIN rx' = 1..(Len(rx) + 1)
      /\ rx'[Len(rx) + 1] = air /\ \A i \in DOMAIN rx : rx'[i] = rx[i]
  <2>1. rx \in Seq(Packet) /\ air \in Packet
    BY <1>0 DEF GatewayInv, ServerInv, NodesInv, Sound
  <2> QED
    BY <1>0, <2>1, AppendProperties
<1>4. PushedBefore(air) /\ HeldBefore(air) /\ QueuedBefore(air) /\ air.n <= sent
  BY <1>0 DEF OrderInv, AirOrder
<1>5. PushedOrder' /\ HeldOrder'
  BY <1>0, <1>1, <1>2 DEF OrderInv, PushedOrder, PushesInOrder, HeldOrder
<1>6. QueueOrder'
  <2>1. ASSUME NEW i \in DOMAIN rx' PROVE PushedBefore(rx'[i]) /\ HeldBefore(rx'[i]) /\ rx'[i].n <= sent
    <3>1. CASE i \in DOMAIN rx
      <4>1. rx'[i] = rx[i]
        BY <1>3, <3>1
      <4> QED
        BY <3>1, <4>1 DEF OrderInv, QueueOrder
    <3>2. CASE i \notin DOMAIN rx
      <4>1. rx'[i] = air
        BY <1>3, <3>2
      <4> QED
        BY <1>4, <4>1
    <3> QED
      BY <3>1, <3>2
  <2>2. ASSUME NEW i \in DOMAIN rx', NEW j \in DOMAIN rx', i < j, rx'[i].signer = rx'[j].signer
        PROVE  rx'[i].n < rx'[j].n
    <3>1. i \in DOMAIN rx /\ rx'[i] = rx[i]
      BY <1>3, <2>2
    <3>2. CASE j \in DOMAIN rx
      <4>1. rx'[j] = rx[j]
        BY <1>3, <3>2
      <4> QED
        BY <2>2, <3>1, <3>2, <4>1 DEF OrderInv, QueueOrder
    <3>3. CASE j \notin DOMAIN rx
      <4>1. rx'[j] = air
        BY <1>3, <3>3
      <4> QED
        BY <1>4, <2>2, <3>1, <4>1 DEF QueuedBefore
    <3> QED
      BY <3>2, <3>3
  <2> QED
    BY <1>0, <1>2, <2>1, <2>2 DEF QueueOrder, PushedBefore, HeldBefore
<1>7. AirOrder'
  BY <1>0 DEF AirOrder
<1>8. OutOrder'
  <2>1. ASSUME NEW d \in Node, out[d] # NoPacket
        PROVE  /\ PushedBefore(out[d])' /\ HeldBefore(out[d])' /\ QueuedBefore(out[d])'
               /\ AirBefore(out[d])' /\ out[d].signer = d /\ out[d].n <= sent
    <3>1. /\ PushedBefore(out[d]) /\ HeldBefore(out[d]) /\ QueuedBefore(out[d]) /\ AirBefore(out[d])
          /\ out[d].signer = d /\ out[d].n <= sent /\ out'[d] = out[d]
      BY <1>0, <2>1 DEF OrderInv, OutOrder
    <3>2. \A i \in DOMAIN rx' : rx'[i].signer = out[d].signer => rx'[i].n < out[d].n
      <4>1. air.signer = out[d].signer => air.n < out[d].n
        BY <1>0, <3>1 DEF AirBefore
      <4>2. ASSUME NEW i \in DOMAIN rx' PROVE rx'[i] = air \/ (i \in DOMAIN rx /\ rx'[i] = rx[i])
        <5>1. i \in DOMAIN rx \/ i = Len(rx) + 1
          BY <1>3
        <5> QED
          BY <1>3, <5>1
      <4> QED
        BY <3>1, <4>1, <4>2 DEF QueuedBefore
    <3> QED
      BY <1>0, <1>2, <3>1, <3>2 DEF PushedBefore, HeldBefore, QueuedBefore, AirBefore
  <2> QED
    BY <1>0, <2>1 DEF OutOrder
<1> QED
  BY <1>5, <1>6, <1>7, <1>8 DEF OrderInv

\* The radio's packet is lost, or nothing arrived.
LEMMA NothingOrder ==
    ASSUME OrderInv, ServerReceivesNothing
    PROVE  OrderInv'
<1>0. air' \in {air, NoPacket} /\ UNCHANGED <<pushed, held, fPc, out, sent, rx>>
  BY DEF ServerReceivesNothing, resultVars
<1>1. CASE air' = air
  BY <1>0, <1>1, OrderSame
<1>2. CASE air' = NoPacket
  <2>1. packet' = packet
    BY <1>0 DEF packet
  <2>2. \A p : /\ PushedBefore(p)' <=> PushedBefore(p)
               /\ QueuedBefore(p)' <=> QueuedBefore(p)
               /\ HeldBefore(p)' <=> HeldBefore(p)
               /\ AirBefore(p)'
    BY <1>0, <1>2, <2>1 DEF PushedBefore, QueuedBefore, HeldBefore, AirBefore
  <2>3. PushedOrder' /\ HeldOrder' /\ QueueOrder'
    BY <1>0, <2>1, <2>2 DEF OrderInv, PushedOrder, PushesInOrder, HeldOrder, QueueOrder
  <2>4. AirOrder' /\ OutOrder'
    BY <1>0, <1>2, <2>2 DEF OrderInv, AirOrder, OutOrder
  <2> QED
    BY <2>3, <2>4 DEF OrderInv
<1> QED
  BY <1>0, <1>1, <1>2

LEMMA PopOrder ==
    ASSUME GatewayInv, OrderInv, ReadPop
    PROVE  OrderInv'
<1>0. /\ fPc = "pop" /\ fPc' = "managed" /\ held' = <<Head(rx), epoch>> /\ rx' = Tail(rx)
      /\ UNCHANGED <<pushed, air, out, sent>>
  BY DEF ReadPop, nodeVars, resultVars
<1>1. rx \in Seq(Packet) /\ rx # <<>>
  BY <1>0 DEF GatewayInv, ServerInv, ForwarderInv
<1>2. /\ Len(rx) \in Nat \ {0} /\ DOMAIN rx = 1..Len(rx) /\ Head(rx) = rx[1]
      /\ DOMAIN rx' = 1..(Len(rx) - 1)
      /\ \A i \in DOMAIN rx' : rx'[i] = rx[i + 1]
  BY <1>0, <1>1
<1>3. packet' = rx[1] /\ 1 \in DOMAIN rx
  BY <1>0, <1>2 DEF packet
<1>4. \A i \in DOMAIN rx' : i + 1 \in DOMAIN rx /\ rx'[i] = rx[i + 1] /\ 1 < i + 1 /\ i \in Int
  BY <1>2
<1>5. \A p : /\ PushedBefore(p)' <=> PushedBefore(p)
             /\ QueuedBefore(p) => QueuedBefore(p)' /\ HeldBefore(p)'
             /\ AirBefore(p)' <=> AirBefore(p)
  BY <1>0, <1>3, <1>4 DEF PushedBefore, QueuedBefore, HeldBefore, AirBefore
<1>6. PushedOrder'
  BY <1>0 DEF OrderInv, PushedOrder, PushesInOrder
<1>7. HeldOrder'
  <2>1. PushedBefore(rx[1]) /\ rx[1].n <= sent
    BY <1>3 DEF OrderInv, QueueOrder
  <2>2. \A i \in DOMAIN pushed' : pushed'[i].signer = packet'.signer => pushed'[i].n < packet'.n
    BY <1>0, <1>3, <2>1 DEF PushedBefore
  <2> QED
    BY <1>0, <1>3, <2>1, <2>2 DEF HeldOrder, PushedBefore
<1>8. QueueOrder'
  <2>1. \A i, j \in DOMAIN rx : i < j /\ rx[i].signer = rx[j].signer => rx[i].n < rx[j].n
    BY DEF OrderInv, QueueOrder
  <2>2. \A i, j \in DOMAIN rx' : i < j /\ rx'[i].signer = rx'[j].signer => rx'[i].n < rx'[j].n
    <3>1. \A i, j \in DOMAIN rx' : i < j => i + 1 < j + 1
      BY <1>4
    <3> QED
      BY <1>4, <2>1, <3>1
  <2>3. ASSUME NEW i \in DOMAIN rx'
        PROVE  PushedBefore(rx[i])' /\ HeldBefore(rx[i])' /\ rx'[i].n <= sent
    <3>1. PICK p : p = rx'[i]
      OBVIOUS
    <3>2. PushedBefore(p) /\ p.n <= sent
      BY <1>4, <3>1 DEF OrderInv, QueueOrder
    <3>3. packet'.signer = p.signer => packet'.n < p.n
      BY <1>3, <1>4, <2>1, <3>1
    <3>4. PushedBefore(p)' /\ HeldBefore(p)'
      BY <1>5, <3>2, <3>3 DEF HeldBefore
    <3> QED
      BY <3>1, <3>2, <3>4 DEF PushedBefore, HeldBefore
  <2> QED
    BY <1>0, <2>2, <2>3 DEF QueueOrder
<1>9. AirOrder'
  BY <1>0, <1>5 DEF OrderInv, AirOrder
<1>10. OutOrder'
  BY <1>0, <1>5 DEF OrderInv, OutOrder
<1> QED
  BY <1>6, <1>7, <1>8, <1>9, <1>10 DEF OrderInv

\* The packet in processPacket is pushed, at most once, and behind all pushes of
\* its signer.
LEMMA PushOrder ==
    ASSUME GatewayInv, OrderInv, PushData
    PROVE  OrderInv'
<1>0. fPc = "push" /\ fPc' \notin Processing /\ UNCHANGED <<rx, air, out, sent>>
  BY DEF PushData, Finish, Processing, Holding, nodeVars
<1>1. pushed' = pushed \/ pushed' = Append(pushed, Pushed)
  BY DEF PushData
<1>2. fPc \in Processing
  BY <1>0 DEF Processing, Holding
<1>3. PICK p : p = Pushed
  OBVIOUS
<1>4. p.n = packet.n /\ p.signer = packet.signer
  BY <1>3 DEF Pushed
<1>5. PushedBefore(packet) /\ packet.n <= sent
  BY <1>2 DEF OrderInv, HeldOrder
<1>6. /\ \A i \in DOMAIN pushed' : pushed'[i] = p \/ (i \in DOMAIN pushed /\ pushed'[i] = pushed[i])
      /\ \A i, j \in DOMAIN pushed' : i < j => i \in DOMAIN pushed /\ pushed'[i] = pushed[i]
  <2>1. pushed \in Seq(PushRecord) /\ Len(pushed) \in Nat /\ DOMAIN pushed = 1..Len(pushed)
    BY DEF GatewayInv, ResultInv
  <2>2. CASE pushed' = pushed
    BY <2>1, <2>2
  <2>3. CASE pushed' = Append(pushed, p)
    <3>1. /\ DOMAIN pushed' = 1..(Len(pushed) + 1)
          /\ pushed'[Len(pushed) + 1] = p
          /\ \A i \in 1..Len(pushed) : pushed'[i] = pushed[i]
      BY <2>1, <2>3
    <3> QED
      BY <2>1, <3>1
  <2> QED
    BY <1>1, <1>3, <2>2, <2>3
<1>7. \A q : PushedBefore(q) /\ HeldBefore(q) => PushedBefore(q)'
  BY <1>2, <1>4, <1>6 DEF PushedBefore, HeldBefore
<1>8. \A q : /\ QueuedBefore(q)' <=> QueuedBefore(q)
             /\ AirBefore(q)' <=> AirBefore(q)
             /\ HeldBefore(q)'
  BY <1>0 DEF QueuedBefore, AirBefore, HeldBefore
<1>9. PushedOrder'
  <2>1. \A i \in DOMAIN pushed' : pushed'[i].n <= sent
    BY <1>4, <1>5, <1>6 DEF OrderInv, PushedOrder
  <2>2. ASSUME NEW i \in DOMAIN pushed', NEW j \in DOMAIN pushed', i < j,
               pushed'[i].signer = pushed'[j].signer
        PROVE  pushed'[i].n < pushed'[j].n
    <3>1. i \in DOMAIN pushed /\ pushed'[i] = pushed[i]
      BY <1>6, <2>2
    <3>2. CASE pushed'[j] = p
      BY <1>4, <1>5, <2>2, <3>1, <3>2 DEF PushedBefore
    <3>3. CASE j \in DOMAIN pushed /\ pushed'[j] = pushed[j]
      BY <2>2, <3>1, <3>3 DEF OrderInv, PushedOrder, PushesInOrder
    <3> QED
      BY <1>6, <3>2, <3>3
  <2> QED
    BY <1>0, <2>1, <2>2 DEF PushedOrder, PushesInOrder
<1>10. HeldOrder'
  BY <1>0 DEF HeldOrder
<1>11. QueueOrder'
  BY <1>0, <1>7, <1>8 DEF OrderInv, QueueOrder
<1>12. AirOrder'
  BY <1>0, <1>7, <1>8 DEF OrderInv, AirOrder
<1>13. OutOrder'
  BY <1>0, <1>7, <1>8 DEF OrderInv, OutOrder
<1> QED
  BY <1>9, <1>10, <1>11, <1>12, <1>13 DEF OrderInv

\* processPacket ends without a push, or checks the packet.
LEMMA HeldSameOrDropped ==
    ASSUME OrderInv, fPc' \in Processing => fPc \in Processing /\ packet' = packet,
           UNCHANGED <<pushed, rx, air, out, sent>>
    PROVE  OrderInv'
<1>1. \A p : /\ PushedBefore(p)' <=> PushedBefore(p)
             /\ QueuedBefore(p)' <=> QueuedBefore(p)
             /\ AirBefore(p)' <=> AirBefore(p)
             /\ HeldBefore(p) => HeldBefore(p)'
  BY DEF PushedBefore, QueuedBefore, AirBefore, HeldBefore
<1>2. PushedOrder' /\ HeldOrder'
  BY <1>1 DEF OrderInv, PushedOrder, PushesInOrder, HeldOrder
<1>3. QueueOrder' /\ AirOrder' /\ OutOrder'
  BY <1>1 DEF OrderInv, QueueOrder, AirOrder, OutOrder
<1> QED
  BY <1>2, <1>3 DEF OrderInv

LEMMA OrderStep == GatewayInv /\ OrderInv /\ [GatewayNext]_gatewayVars => OrderInv'
<1> SUFFICES ASSUME GatewayInv, OrderInv, [GatewayNext]_gatewayVars PROVE OrderInv'
  OBVIOUS
<1>1. CASE NodesSetUp /\ ServerInit
  <2>1. UNCHANGED <<pushed, rx, air, out, sent, held>> /\ fPc' \in {fPc, "test"}
    BY <1>1 DEF ServerInit, nodeVars, resultVars
  <2> QED
    BY <2>1, OrderSame DEF Processing, Holding
<1>2. CASE SendMessage \/ CloseServer \/ Join
  BY <1>2, OrderSame DEF SendMessage, CloseServer, Join, Woken, Processing, Holding, nodeVars, resultVars
<1>3. CASE ServerStep
  <2>1. CASE ServerSetup \/ ServerTest \/ ServerTransmit \/ ServerNotify
    BY <2>1, OrderSame DEF ServerSetup, ServerTest, ServerTransmit, ServerNotify, Woken, Processing, Holding,
       nodeVars, resultVars
  <2> QED
    BY <1>3, <2>1, ReceiveOrder, NothingOrder DEF ServerStep
<1>4. CASE ForwarderTest \/ ReadTest \/ ReadBlock \/ ReadWakesSpuriously
  BY <1>4, OrderSame DEF ForwarderTest, ReadTest, ReadBlock, ReadWakesSpuriously, Woken, Processing, Holding,
     nodeVars, resultVars
<1>5. CASE Discard
  BY <1>5, HeldSameOrDropped DEF Discard, Finish, Processing, Holding, resultVars
<1>6. CASE IsManaged \/ VerifySignature \/ IsGateway
  <2>1. packet' = packet
    BY <1>6 DEF IsManaged, VerifySignature, IsGateway, packet
  <2> QED
    BY <1>6, <2>1, HeldSameOrDropped DEF IsManaged, VerifySignature, IsGateway, Proceed, Processing, Holding,
       nodeVars, resultVars
<1>7. CASE RecordChanges
  BY <1>7, OrderSame DEF RecordChanges, nodeVars, threadVars, resultVars
<1>8. CASE UNCHANGED gatewayVars
  BY <1>8, OrderSame DEF gatewayVars, nodeVars, threadVars, resultVars
<1> QED
  BY <1>1, <1>2, <1>3, <1>4, <1>5, <1>6, <1>7, <1>8, PopOrder, PushOrder, NodesOrder
  DEF GatewayNext, ForwarderStep, ProcessPacket

\* No packet is pushed twice, and the packets of a node are pushed in the order
\* it made them: neither the queue nor a spurious wake-up of its reader reorders.
THEOREM PushesOrdered == GatewaySpec => []PushesInOrder
<1>1. OrderInv => PushesInOrder
  BY DEF OrderInv, PushedOrder
<1> QED
  BY <1>1, OrderInit, OrderStep, GatewayInvHolds, PTL DEF GatewaySpec

-----------------------------------------------------------------------------
(* The places of the packets                                               *)

\* The parts of Places(n).
OutAt(n) == {c \in Node : out[c] # NoPacket /\ out[c].n = n}
QueueAt(n) == {i \in DOMAIN rx : rx[i].n = n}
AirAt(n) == air # NoPacket /\ air.n = n
HeldAt(n) == held # <<>> /\ packet.n = n
EndedAt(n) == n \in ended

Nowhere(n) == OutAt(n) = {} /\ QueueAt(n) = {} /\ ~ AirAt(n) /\ ~ HeldAt(n) /\ ~ EndedAt(n)

AtNode(n) == (\E c : OutAt(n) = {c}) /\ QueueAt(n) = {} /\ ~ AirAt(n) /\ ~ HeldAt(n) /\ ~ EndedAt(n)
Queued(n) == OutAt(n) = {} /\ (\E i : QueueAt(n) = {i}) /\ ~ AirAt(n) /\ ~ HeldAt(n) /\ ~ EndedAt(n)
InRadio(n) == OutAt(n) = {} /\ QueueAt(n) = {} /\ AirAt(n) /\ ~ HeldAt(n) /\ ~ EndedAt(n)
Handled(n) == OutAt(n) = {} /\ QueueAt(n) = {} /\ ~ AirAt(n) /\ HeldAt(n) /\ ~ EndedAt(n)
Over(n) == OutAt(n) = {} /\ QueueAt(n) = {} /\ ~ AirAt(n) /\ ~ HeldAt(n) /\ EndedAt(n)

Somewhere(n) == AtNode(n) \/ Queued(n) \/ InRadio(n) \/ Handled(n) \/ Over(n)

Located(n) == IF n <= sent THEN Somewhere(n) ELSE Nowhere(n)

\* A node makes a packet only when it has transmitted the one before.
PlaceInv ==
    /\ \A c \in Node : out[c] # NoPacket => node[c] = "transmit"
    /\ \A n \in 1..MaxPackets : Located(n)

LEMMA PlaceInit == GatewayInit => PlaceInv
<1> SUFFICES ASSUME GatewayInit PROVE PlaceInv
  OBVIOUS
<1>1. /\ rx = <<>> /\ held = <<>> /\ air = NoPacket /\ ended = {} /\ sent = 0
      /\ \A c \in Node : out[c] = NoPacket
  BY DEF GatewayInit, NodeInit
<1>2. ASSUME NEW n \in 1..MaxPackets PROVE Located(n)
  <2>1. ~ (n <= sent)
    BY <1>1
  <2>2. DOMAIN rx = {}
    BY <1>1
  <2>3. Nowhere(n)
    BY <1>1, <2>2 DEF Nowhere, OutAt, QueueAt, AirAt, HeldAt, EndedAt
  <2> QED
    BY <2>1, <2>3 DEF Located
<1> QED
  BY <1>1, <1>2 DEF PlaceInv

\* A number whose places are not affected.
LEMMA LocatedSame ==
    ASSUME NEW n, Located(n), n <= sent' <=> n <= sent,
           OutAt(n)' = OutAt(n), QueueAt(n)' = QueueAt(n), (AirAt(n)' <=> AirAt(n)),
           (HeldAt(n)' <=> HeldAt(n)), (EndedAt(n)' <=> EndedAt(n))
    PROVE  Located(n)'
<1>1. /\ Nowhere(n) => Nowhere(n)'
      /\ AtNode(n) => AtNode(n)'
      /\ Queued(n) => Queued(n)'
      /\ InRadio(n) => InRadio(n)'
      /\ Handled(n) => Handled(n)'
      /\ Over(n) => Over(n)'
  BY DEF Nowhere, AtNode, Queued, InRadio, Handled, Over
<1> QED
  BY <1>1 DEF Located, Somewhere

\* Steps that move no packet.
LEMMA PlaceSame ==
    ASSUME GatewayInv, PlaceInv, UNCHANGED <<out, rx, air, sent, ended>>,
           \A c \in Node : out[c] # NoPacket => node'[c] = node[c],
           held' # <<>> <=> held # <<>>, held # <<>> => packet' = packet
    PROVE  PlaceInv'
<1>1. ASSUME NEW n \in 1..MaxPackets PROVE Located(n)'
  <2>1. /\ OutAt(n)' = OutAt(n) /\ QueueAt(n)' = QueueAt(n) /\ (AirAt(n)' <=> AirAt(n))
        /\ (HeldAt(n)' <=> HeldAt(n)) /\ (EndedAt(n)' <=> EndedAt(n))
    BY DEF OutAt, QueueAt, AirAt, HeldAt, EndedAt
  <2> QED
    BY <2>1, LocatedSame DEF PlaceInv
<1> QED
  BY <1>1 DEF PlaceInv

LEMMA SignPlace ==
    ASSUME GatewayInv, PlaceInv, NEW c \in Node, NEW p, node[c] = "ready", p.n = sent + 1,
           p # NoPacket, out' = [out EXCEPT ![c] = p], sent' = sent + 1,
           node' = [node EXCEPT ![c] = "transmit"], UNCHANGED <<rx, held, air, ended>>
    PROVE  PlaceInv'
<1>0. sent \in Int /\ out[c] = NoPacket
  BY DEF GatewayInv, NodesInv, PlaceInv
<1>1. /\ out'[c] = p /\ node'[c] = "transmit"
      /\ \A d \in Node \ {c} : out'[d] = out[d] /\ node'[d] = node[d]
  BY DEF GatewayInv, NodesInv
<1>2. ASSUME NEW n \in 1..MaxPackets PROVE Located(n)'
  <2>1. /\ QueueAt(n)' = QueueAt(n) /\ (AirAt(n)' <=> AirAt(n))
        /\ (HeldAt(n)' <=> HeldAt(n)) /\ (EndedAt(n)' <=> EndedAt(n))
    BY DEF QueueAt, AirAt, HeldAt, EndedAt, packet
  <2>2. CASE n = p.n
    <3>1. Nowhere(n) /\ n <= sent'
      BY <1>0, <2>2 DEF PlaceInv, Located
    <3>2. OutAt(n)' = {c}
      BY <1>1, <2>2, <3>1 DEF Nowhere, OutAt
    <3>3. AtNode(n)'
      BY <2>1, <3>1, <3>2 DEF Nowhere, AtNode
    <3> QED
      BY <3>1, <3>3 DEF Located, Somewhere
  <2>3. CASE n # p.n
    <3>1. OutAt(n)' = OutAt(n)
      BY <1>0, <1>1, <2>3 DEF OutAt
    <3>2. n <= sent' <=> n <= sent
      BY <1>0, <2>3
    <3> QED
      BY <2>1, <3>1, <3>2, LocatedSame DEF PlaceInv
  <2> QED
    BY <2>2, <2>3
<1> QED
  BY <1>1, <1>2 DEF PlaceInv

LEMMA ForeignPlace ==
    ASSUME GatewayInv, PlaceInv, NEW p, p.n = sent + 1, p # NoPacket, air = NoPacket, air' = p,
           sent' = sent + 1, UNCHANGED <<rx, held, out, ended, node>>
    PROVE  PlaceInv'
<1>0. sent \in Int
  BY DEF GatewayInv, NodesInv
<1>1. ASSUME NEW n \in 1..MaxPackets PROVE Located(n)'
  <2>1. /\ OutAt(n)' = OutAt(n) /\ QueueAt(n)' = QueueAt(n)
        /\ (HeldAt(n)' <=> HeldAt(n)) /\ (EndedAt(n)' <=> EndedAt(n))
    BY DEF OutAt, QueueAt, HeldAt, EndedAt, packet
  <2>2. CASE n = p.n
    <3>1. Nowhere(n) /\ n <= sent' /\ AirAt(n)'
      BY <1>0, <2>2 DEF PlaceInv, Located, AirAt
    <3>2. InRadio(n)'
      BY <2>1, <3>1 DEF Nowhere, InRadio
    <3> QED
      BY <3>1, <3>2 DEF Located, Somewhere
  <2>3. CASE n # p.n
    <3>1. (AirAt(n)' <=> AirAt(n))
      BY <2>3 DEF AirAt
    <3>2. n <= sent' <=> n <= sent
      BY <1>0, <2>3
    <3> QED
      BY <2>1, <3>1, <3>2, LocatedSame DEF PlaceInv
  <2> QED
    BY <2>2, <2>3
<1> QED
  BY <1>1 DEF PlaceInv

\* The packet was at its node and is in the radio or lost.
LEMMA TransmitPlace ==
    ASSUME GatewayInv, PlaceInv, NEW c \in Node, out[c] # NoPacket, TransmitData(c),
           UNCHANGED <<rx, held>>
    PROVE  PlaceInv'
<1>1. /\ out'[c] = NoPacket /\ sent' = sent
      /\ \A d \in Node \ {c} : out'[d] = out[d] /\ node'[d] = node[d]
  BY DEF GatewayInv, NodesInv, TransmitData
<1>2. out[c].n \in 1..MaxPackets
  BY DEF GatewayInv, NodesInv, Sound, Packet
<1>3. ASSUME NEW n \in 1..MaxPackets PROVE Located(n)'
  <2>1. QueueAt(n)' = QueueAt(n) /\ (HeldAt(n)' <=> HeldAt(n))
    BY DEF QueueAt, HeldAt, packet
  <2>2. CASE n = out[c].n
    <3>1. c \in OutAt(n)
      BY <2>2 DEF OutAt
    <3>2. AtNode(n) /\ n <= sent'
      BY <1>1, <3>1 DEF PlaceInv, Located, Somewhere, Nowhere, Queued, InRadio, Handled, Over
    <3>3. OutAt(n) = {c}
      BY <3>1, <3>2 DEF AtNode
    <3>4. OutAt(n)' = {}
      BY <1>1, <3>3 DEF OutAt
    <3>5. CASE air = NoPacket /\ air' = out[c] /\ UNCHANGED ended
      <4>1. AirAt(n)' /\ (EndedAt(n)' <=> EndedAt(n))
        BY <2>2, <3>5 DEF AirAt, EndedAt
      <4>2. InRadio(n)'
        BY <2>1, <3>2, <3>4, <4>1 DEF AtNode, InRadio
      <4> QED
        BY <3>2, <4>2 DEF Located, Somewhere
    <3>6. CASE ended' = ended \union {out[c].n} /\ UNCHANGED air
      <4>1. EndedAt(n)' /\ (AirAt(n)' <=> AirAt(n))
        BY <2>2, <3>6 DEF AirAt, EndedAt
      <4>2. Over(n)'
        BY <2>1, <3>2, <3>4, <4>1 DEF AtNode, Over
      <4> QED
        BY <3>2, <4>2 DEF Located, Somewhere
    <3> QED
      BY <3>5, <3>6 DEF TransmitData
  <2>3. CASE n # out[c].n
    <3>1. OutAt(n)' = OutAt(n)
      BY <1>1, <2>3 DEF OutAt
    <3>2. (AirAt(n)' <=> AirAt(n)) /\ (EndedAt(n)' <=> EndedAt(n))
      BY <2>3 DEF AirAt, EndedAt, TransmitData
    <3> QED
      BY <1>1, <2>1, <3>1, <3>2, LocatedSame DEF PlaceInv
  <2> QED
    BY <2>2, <2>3
<1> QED
  BY <1>1, <1>3 DEF PlaceInv

LEMMA NodesPlace ==
    ASSUME GatewayInv, PlaceInv, NodesStep
    PROVE  PlaceInv'
<1>0. UNCHANGED <<rx, held>>
  BY DEF NodesStep, threadVars
<1>1. ASSUME NEW c \in Node, NodeStep(c) PROVE PlaceInv'
  <2>1. CASE UNCHANGED <<sent, out, air, ended>> /\ node[c] # "transmit"
    <3>1. \A d \in Node : out[d] # NoPacket => d # c
      BY <2>1 DEF PlaceInv
    <3>2. node' = node \/ \E to \in NodeState : node' = [node EXCEPT ![c] = to]
      BY <1>1, <2>1 DEF NodeStep, LoadConfig, SetupRadio, SketchSetup, SendSensorData, SketchLoop,
         SendData, SignPacketFails, SignPacket, TransmitData, NodeState
    <3>3. \A d \in Node \ {c} : node'[d] = node[d]
      BY <3>2 DEF GatewayInv, NodesInv
    <3>4. packet' = packet
      BY <1>0 DEF packet
    <3> QED
      BY <1>0, <2>1, <3>1, <3>3, <3>4, PlaceSame
  <2>2. CASE TransmitData(c)
    <3>1. out[c] # NoPacket
      <4>1. out[c] \in Packet
        BY <2>2 DEF TransmitData, GatewayInv, NodesInv, Sound
      <4>2. "n" \in DOMAIN out[c]
        BY <4>1 DEF Packet
      <4> QED
        BY <4>2 DEF NoPacket
    <3> QED
      BY <1>0, <2>2, <3>1, TransmitPlace
  <2>3. ASSUME NEW length \in Length, node[c] = "ready", SignPacket(c, Uint8(length), length)
        PROVE  PlaceInv'
    <3>1. PICK p : p = [n |-> sent + 1, signer |-> c, length |-> length,
                        len |-> PacketLen(Uint8(length)), first |-> TRUE]
      OBVIOUS
    <3>2. p.n = sent + 1 /\ p # NoPacket
      BY <3>1 DEF NoPacket
    <3>3. /\ out' = [out EXCEPT ![c] = p] /\ sent' = sent + 1 /\ UNCHANGED <<air, ended>>
          /\ node' = [node EXCEPT ![c] = "transmit"]
      BY <2>3, <3>1 DEF SignPacket
    <3> QED
      BY <1>0, <2>3, <3>2, <3>3, SignPlace
  <2> QED
    BY <1>1, <2>1, <2>2, <2>3 DEF NodeStep, LoadConfig, SetupRadio, SketchSetup, SendSensorData,
       SketchLoop, SendData, SignPacketFails
<1>2. CASE ForeignPacket
  <2>1. PICK p : p.n = sent + 1 /\ p # NoPacket /\ air' = p
    <3>1. PICK len \in {0, 255} :
             air' = [n |-> sent + 1, signer |-> NoNode, length |-> 0, len |-> len, first |-> len = 0]
      BY <1>2 DEF ForeignPacket
    <3> QED
      BY <3>1 DEF NoPacket
  <2> QED
    BY <1>0, <1>2, <2>1, ForeignPlace DEF ForeignPacket
<1> QED
  BY <1>1, <1>2 DEF NodesStep

LEMMA ReceivePlace ==
    ASSUME GatewayInv, PlaceInv, ServerReceive
    PROVE  PlaceInv'
<1>0. /\ air # NoPacket /\ air' = NoPacket /\ rx' = Append(rx, air)
      /\ UNCHANGED <<held, node, out, sent, ended>>
  BY DEF ServerReceive
<1>1. /\ Len(rx) \in Nat /\ DOMAIN rx = 1..Len(rx) /\ DOMAIN rx' = 1..(Len(rx) + 1)
      /\ rx'[Len(rx) + 1] = air /\ \A i \in DOMAIN rx : rx'[i] = rx[i]
  <2>1. rx \in Seq(Packet) /\ air \in Packet
    BY <1>0 DEF GatewayInv, ServerInv, NodesInv, Sound
  <2> QED
    BY <1>0, <2>1, AppendProperties
<1>2. ASSUME NEW n \in 1..MaxPackets PROVE Located(n)'
  <2>1. OutAt(n)' = OutAt(n) /\ (HeldAt(n)' <=> HeldAt(n)) /\ (EndedAt(n)' <=> EndedAt(n)) /\ ~ AirAt(n)'
    BY <1>0 DEF OutAt, HeldAt, EndedAt, AirAt, packet
  <2>2. CASE n = air.n
    <3>1. AirAt(n)
      BY <1>0, <2>2 DEF AirAt
    <3>2. InRadio(n) /\ n <= sent'
      BY <1>0, <3>1 DEF PlaceInv, Located, Somewhere, Nowhere, AtNode, Queued, Handled, Over
    <3>3. QueueAt(n)' = {Len(rx) + 1}
      <4>1. \A i \in DOMAIN rx : rx[i].n # n
        BY <3>2 DEF InRadio, QueueAt
      <4>2. \A i \in DOMAIN rx' : rx'[i].n = n <=> i = Len(rx) + 1
        BY <1>1, <2>2, <4>1
      <4> QED
        BY <1>1, <4>2 DEF QueueAt
    <3>4. Queued(n)'
      BY <2>1, <3>2, <3>3 DEF InRadio, Queued
    <3> QED
      BY <3>2, <3>4 DEF Located, Somewhere
  <2>3. CASE n # air.n
    <3>1. QueueAt(n)' = QueueAt(n)
      BY <1>1, <2>3 DEF QueueAt
    <3>2. ~ AirAt(n)
      BY <2>3 DEF AirAt
    <3> QED
      BY <1>0, <2>1, <3>1, <3>2, LocatedSame DEF PlaceInv
  <2> QED
    BY <2>2, <2>3
<1> QED
  BY <1>0, <1>2 DEF PlaceInv

LEMMA NothingPlace ==
    ASSUME GatewayInv, PlaceInv, ServerReceivesNothing
    PROVE  PlaceInv'
<1>0. UNCHANGED <<held, node, out, sent, rx>> /\ packet' = packet
  BY DEF ServerReceivesNothing, packet
<1>1. CASE UNCHANGED <<air, ended>>
  BY <1>0, <1>1, PlaceSame
<1>2. CASE air # NoPacket /\ air' = NoPacket /\ ended' = ended \union {air.n}
  <2>1. ASSUME NEW n \in 1..MaxPackets PROVE Located(n)'
    <3>1. OutAt(n)' = OutAt(n) /\ (HeldAt(n)' <=> HeldAt(n)) /\ QueueAt(n)' = QueueAt(n) /\ ~ AirAt(n)'
      BY <1>0, <1>2 DEF OutAt, HeldAt, QueueAt, AirAt
    <3>2. CASE n = air.n
      <4>1. AirAt(n) /\ EndedAt(n)'
        BY <1>2, <3>2 DEF AirAt, EndedAt
      <4>2. InRadio(n) /\ n <= sent'
        BY <1>0, <4>1 DEF PlaceInv, Located, Somewhere, Nowhere, AtNode, Queued, Handled, Over
      <4>3. Over(n)'
        BY <3>1, <4>1, <4>2 DEF InRadio, Over
      <4> QED
        BY <4>2, <4>3 DEF Located, Somewhere
    <3>3. CASE n # air.n
      <4>1. ~ AirAt(n) /\ (EndedAt(n)' <=> EndedAt(n))
        BY <1>2, <3>3 DEF AirAt, EndedAt
      <4> QED
        BY <1>0, <3>1, <4>1, LocatedSame DEF PlaceInv
    <3> QED
      BY <3>2, <3>3
  <2> QED
    BY <1>0, <2>1 DEF PlaceInv
<1> QED
  BY <1>1, <1>2 DEF ServerReceivesNothing

\* The rest of the queue moves up.
LEMMA PopPlace ==
    ASSUME GatewayInv, PlaceInv, ReadPop
    PROVE  PlaceInv'
<1>0. /\ fPc = "pop" /\ held' = <<Head(rx), epoch>> /\ rx' = Tail(rx)
      /\ UNCHANGED <<air, out, sent, ended, node>>
  BY DEF ReadPop, nodeVars
<1>1. rx \in Seq(Packet) /\ rx # <<>> /\ held = <<>>
  BY <1>0 DEF GatewayInv, ServerInv, ForwarderInv, Holding
<1>2. /\ Len(rx) \in Nat \ {0} /\ DOMAIN rx = 1..Len(rx) /\ Head(rx) = rx[1]
      /\ DOMAIN rx' = 1..(Len(rx) - 1)
      /\ \A i \in DOMAIN rx' : rx'[i] = rx[i + 1]
  BY <1>0, <1>1
<1>3. packet' = rx[1] /\ held' # <<>> /\ 1 \in DOMAIN rx
  BY <1>0, <1>2 DEF packet
<1>4. ASSUME NEW n \in 1..MaxPackets PROVE Located(n)'
  <2>1. /\ OutAt(n)' = OutAt(n) /\ (EndedAt(n)' <=> EndedAt(n)) /\ (AirAt(n)' <=> AirAt(n))
        /\ ~ HeldAt(n) /\ (HeldAt(n)' <=> n = rx[1].n)
    BY <1>0, <1>1, <1>3 DEF OutAt, HeldAt, EndedAt, AirAt
  <2>2. \A i \in Int : i \in QueueAt(n)' <=> i >= 1 /\ i + 1 \in QueueAt(n)
    BY <1>2 DEF QueueAt
  <2>3. QueueAt(n) \subseteq Int /\ QueueAt(n)' \subseteq Int
    BY <1>2 DEF QueueAt
  <2>4. CASE n = rx[1].n
    <3>1. 1 \in QueueAt(n)
      BY <1>3, <2>4 DEF QueueAt
    <3>2. Queued(n) /\ n <= sent'
      BY <1>0, <3>1 DEF PlaceInv, Located, Somewhere, Nowhere, AtNode, InRadio, Handled, Over
    <3>3. QueueAt(n) = {1}
      BY <3>1, <3>2 DEF Queued
    <3>4. QueueAt(n)' = {}
      BY <2>2, <2>3, <3>3
    <3>5. Handled(n)'
      BY <2>1, <2>4, <3>2, <3>4 DEF Queued, Handled
    <3> QED
      BY <3>2, <3>5 DEF Located, Somewhere
  <2>5. CASE n # rx[1].n /\ QueueAt(n) = {}
    <3>1. QueueAt(n)' = {}
      BY <2>2, <2>3, <2>5
    <3> QED
      BY <1>0, <2>1, <2>5, <3>1, LocatedSame DEF PlaceInv
  <2>6. CASE n # rx[1].n /\ QueueAt(n) # {}
    <3>1. Queued(n) /\ n <= sent'
      BY <1>0, <2>6 DEF PlaceInv, Located, Somewhere, Nowhere, AtNode, InRadio, Handled, Over
    <3>2. PICK i : QueueAt(n) = {i}
      BY <3>1 DEF Queued
    <3>3. i \in Int /\ i > 1
      BY <1>2, <2>6, <3>2 DEF QueueAt
    <3>4. QueueAt(n)' = {i - 1}
      BY <2>2, <2>3, <3>2, <3>3
    <3>5. Queued(n)'
      BY <2>1, <2>6, <3>1, <3>4 DEF Queued
    <3> QED
      BY <3>1, <3>5 DEF Located, Somewhere
  <2> QED
    BY <2>4, <2>5, <2>6
<1> QED
  BY <1>0, <1>4 DEF PlaceInv

LEMMA FinishPlace ==
    ASSUME GatewayInv, PlaceInv, fPc \in Holding, Finish
    PROVE  PlaceInv'
<1>0. /\ held # <<>> /\ held' = <<>> /\ ended' = ended \union {packet.n}
      /\ UNCHANGED <<air, out, sent, rx, node>>
  <2>1. held \in Packet \X (0..MaxEpoch)
    BY DEF GatewayInv, ForwarderInv
  <2>2. held # <<>>
    BY <2>1
  <2> QED
    BY <2>2 DEF Finish
<1>1. ASSUME NEW n \in 1..MaxPackets PROVE Located(n)'
  <2>1. OutAt(n)' = OutAt(n) /\ (AirAt(n)' <=> AirAt(n)) /\ QueueAt(n)' = QueueAt(n) /\ ~ HeldAt(n)'
    BY <1>0 DEF OutAt, AirAt, QueueAt, HeldAt
  <2>2. CASE n = packet.n
    <3>1. HeldAt(n) /\ EndedAt(n)'
      BY <1>0, <2>2 DEF HeldAt, EndedAt
    <3>2. Handled(n) /\ n <= sent'
      BY <1>0, <3>1 DEF PlaceInv, Located, Somewhere, Nowhere, AtNode, Queued, InRadio, Over
    <3>3. Over(n)'
      BY <2>1, <3>1, <3>2 DEF Handled, Over
    <3> QED
      BY <3>2, <3>3 DEF Located, Somewhere
  <2>3. CASE n # packet.n
    <3>1. ~ HeldAt(n) /\ (EndedAt(n)' <=> EndedAt(n))
      BY <1>0, <2>3 DEF HeldAt, EndedAt
    <3> QED
      BY <1>0, <2>1, <3>1, LocatedSame DEF PlaceInv
  <2> QED
    BY <2>2, <2>3
<1> QED
  BY <1>0, <1>1 DEF PlaceInv

LEMMA PlaceStep == GatewayInv /\ PlaceInv /\ [GatewayNext]_gatewayVars => PlaceInv'
<1> SUFFICES ASSUME GatewayInv, PlaceInv, [GatewayNext]_gatewayVars PROVE PlaceInv'
  OBVIOUS
<1>1. CASE UNCHANGED <<nodeVars, rx, held>>
  <2>1. UNCHANGED <<node, out, rx, air, sent, ended, held>> /\ packet' = packet
    BY <1>1 DEF nodeVars, packet
  <2> QED
    BY <2>1, PlaceSame
<1>2. CASE Discard
  BY <1>2, FinishPlace DEF Discard, Holding
<1>3. CASE PushData
  <2>1. CASE Finish
    BY <1>3, <2>1, FinishPlace DEF PushData, Holding
  <2> QED
    BY <1>1, <1>3, <2>1 DEF PushData
<1>4. CASE VerifySignature
  <2>1. fPc = "verify" /\ held' = <<packet, epoch>> /\ UNCHANGED <<node, out, rx, air, sent, ended>>
    BY <1>4 DEF VerifySignature, Proceed, nodeVars
  <2>2. packet' = packet /\ held' # <<>>
    BY <2>1 DEF packet
  <2>3. held # <<>>
    <3>1. held \in Packet \X (0..MaxEpoch)
      BY <2>1 DEF GatewayInv, ForwarderInv, Holding
    <3> QED
      BY <3>1
  <2> QED
    BY <2>1, <2>2, <2>3, PlaceSame
<1>5. CASE (NodesSetUp /\ ServerInit) \/ SendMessage \/ CloseServer \/ Join \/ ReadWakesSpuriously
  BY <1>1, <1>5 DEF ServerInit, SendMessage, CloseServer, Join, ReadWakesSpuriously
<1>6. CASE ServerSetup \/ ServerTest \/ ServerTransmit \/ ServerNotify
  BY <1>1, <1>6 DEF ServerSetup, ServerTest, ServerTransmit, ServerNotify
<1>7. CASE ForwarderTest \/ ReadTest \/ ReadBlock \/ IsManaged \/ IsGateway
  BY <1>1, <1>7 DEF ForwarderTest, ReadTest, ReadBlock, IsManaged, IsGateway, Proceed
<1>8. CASE RecordChanges \/ UNCHANGED gatewayVars
  BY <1>1, <1>8 DEF RecordChanges, gatewayVars, threadVars
<1> QED
  BY <1>2, <1>3, <1>4, <1>5, <1>6, <1>7, <1>8, ReceivePlace, NothingPlace, PopPlace, NodesPlace
  DEF GatewayNext, ServerStep, ForwarderStep, ProcessPacket

LEMMA PlacesCounted ==
    ASSUME NEW n, Located(n)
    PROVE  Cardinality(Places(n)) = IF n <= sent THEN 1 ELSE 0
<1>1. Places(n) = {<<"out", c>> : c \in OutAt(n)} \union {<<"rx", i>> : i \in QueueAt(n)}
                  \union {place \in {"air", "held", "ended"} \X {0} :
                            \/ place[1] = "air" /\ AirAt(n)
                            \/ place[1] = "held" /\ HeldAt(n)
                            \/ place[1] = "ended" /\ EndedAt(n)}
  BY DEF Places, OutAt, QueueAt, AirAt, HeldAt, EndedAt
<1>2. Nowhere(n) => Places(n) = {}
  BY <1>1 DEF Nowhere
<1>3. AtNode(n) => \E place : Places(n) = {place}
  <2>1. ASSUME NEW c, OutAt(n) = {c}, AtNode(n) PROVE Places(n) = {<<"out", c>>}
    BY <1>1, <2>1 DEF AtNode
  <2> QED
    BY <2>1 DEF AtNode
<1>4. Queued(n) => \E place : Places(n) = {place}
  <2>1. ASSUME NEW i, QueueAt(n) = {i}, Queued(n) PROVE Places(n) = {<<"rx", i>>}
    BY <1>1, <2>1 DEF Queued
  <2> QED
    BY <2>1 DEF Queued
<1>5. InRadio(n) => Places(n) = {<<"air", 0>>}
  BY <1>1 DEF InRadio
<1>6. Handled(n) => Places(n) = {<<"held", 0>>}
  BY <1>1 DEF Handled
<1>7. Over(n) => Places(n) = {<<"ended", 0>>}
  BY <1>1 DEF Over
<1>8. Somewhere(n) => \E place : Places(n) = {place}
  BY <1>3, <1>4, <1>5, <1>6, <1>7 DEF Somewhere
<1> QED
  BY <1>2, <1>8, FS_EmptySet, FS_Singleton DEF Located

\* From its node to its end a packet is in exactly one place: no thread loses or
\* duplicates one, wherever the gateway stops and whatever the registry says.
THEOREM PacketsKept == GatewaySpec => []PacketsConserved
<1>1. PlaceInv => PacketsConserved
  BY PlacesCounted DEF PlaceInv, PacketsConserved
<1> QED
  BY <1>1, PlaceInit, PlaceStep, GatewayInvHolds, PTL DEF GatewaySpec

-----------------------------------------------------------------------------
(* The uplink                                                              *)

\* The expressions LoraTrx puts for the variables of Uplink.
Meaning(p) == [n |-> p.n, signer |-> p.signer, length |-> p.length]
Under == {Meaning(p) : p \in OnItsWay}
Told == [i \in DOMAIN pushed |->
            [n |-> pushed[i].n, signer |-> pushed[i].signer, bytes |-> pushed[i].bytes]]

InHand == held # <<>> /\ fPc # "hung"

LEMMA WayMembers ==
    ASSUME NEW p
    PROVE  p \in OnItsWay <=>
              /\ p # NoPacket
              /\ \/ \E c \in Node : p = out[c]
                 \/ p = air
                 \/ \E i \in DOMAIN rx : p = rx[i]
                 \/ InHand /\ p = packet
  BY DEF OnItsWay, InHand

\* A packet that is found in one place is in no other.
LEMMA Alone ==
    ASSUME PlaceInv, NEW n \in 1..MaxPackets
    PROVE  /\ \A c \in OutAt(n) : OutAt(n) = {c} /\ QueueAt(n) = {} /\ ~ AirAt(n) /\ ~ HeldAt(n)
           /\ \A i \in QueueAt(n) : OutAt(n) = {} /\ QueueAt(n) = {i} /\ ~ AirAt(n) /\ ~ HeldAt(n)
           /\ AirAt(n) => OutAt(n) = {} /\ QueueAt(n) = {} /\ ~ HeldAt(n)
           /\ HeldAt(n) => OutAt(n) = {} /\ QueueAt(n) = {} /\ ~ AirAt(n)
<1>1. Nowhere(n) \/ AtNode(n) \/ Queued(n) \/ InRadio(n) \/ Handled(n) \/ Over(n)
  BY DEF PlaceInv, Located, Somewhere
<1> QED
  BY <1>1 DEF Nowhere, AtNode, Queued, InRadio, Handled, Over

LEMMA WayType ==
    ASSUME GatewayInv, NEW p \in OnItsWay
    PROVE  p \in Packet /\ Sound(p)
<1>1. InHand => packet \in Packet /\ Sound(packet)
  BY DEF InHand, GatewayInv, ForwarderInv, Sound
<1>2. \A c \in Node : out[c] # NoPacket => Sound(out[c])
  BY DEF GatewayInv, NodesInv
<1>3. \A i \in DOMAIN rx : Sound(rx[i])
  BY DEF GatewayInv, ServerInv
<1>4. air # NoPacket => Sound(air)
  BY DEF GatewayInv, NodesInv
<1> QED
  BY <1>1, <1>2, <1>3, <1>4, WayMembers DEF Sound

\* A number stands for one packet.
LEMMA OneOfANumber ==
    ASSUME GatewayInv, PlaceInv, NEW p \in OnItsWay, NEW q \in OnItsWay, p.n = q.n
    PROVE  p = q
<1>1. p.n \in 1..MaxPackets
  BY WayType DEF Packet
<1>2. \A r \in OnItsWay : r.n = p.n =>
         \/ \E c \in OutAt(p.n) : r = out[c]
         \/ AirAt(p.n) /\ r = air
         \/ \E i \in QueueAt(p.n) : r = rx[i]
         \/ HeldAt(p.n) /\ r = packet
  BY WayMembers DEF OutAt, AirAt, QueueAt, HeldAt, InHand
<1>3. \/ \E c \in OutAt(p.n) : p = out[c]
      \/ AirAt(p.n) /\ p = air
      \/ \E i \in QueueAt(p.n) : p = rx[i]
      \/ HeldAt(p.n) /\ p = packet
  BY <1>2
<1>4. \/ \E c \in OutAt(p.n) : q = out[c]
      \/ AirAt(p.n) /\ q = air
      \/ \E i \in QueueAt(p.n) : q = rx[i]
      \/ HeldAt(p.n) /\ q = packet
  BY <1>2
<1> QED
  BY <1>1, <1>3, <1>4, Alone

\* A step of the packets' places that Uplink does not see.
LEMMA UplinkStutters ==
    ASSUME UNCHANGED <<sent, pushed>>, OnItsWay' = OnItsWay
    PROVE  UNCHANGED Promise!vars
<1>1. Under' = Under
  BY DEF Under
<1>2. Told' = Told
  BY DEF Told
<1> QED
  BY <1>1, <1>2 DEF Promise!vars, Under, Told, Meaning

\* A new packet.
LEMMA UplinkSigns ==
    ASSUME NEW p, UNCHANGED pushed, sent' = sent + 1, OnItsWay' = OnItsWay \union {p},
           p.n = sent + 1,
           \/ p.signer \in Node /\ p.length \in Length
           \/ p.signer = NoNode /\ p.length = 0
    PROVE  Promise!Next
<1>1. Under' = Under \union {Meaning(p)}
  BY DEF Under
<1>2. Told' = Told
  BY DEF Told
<1>3. Promise!Sign(p.signer, p.length)
  BY <1>1, <1>2 DEF Promise!Sign, Under, Told, Meaning
<1> QED
  BY <1>3 DEF Promise!Next

\* What is left under way when one packet no longer is.
LEMMA UnderWithout ==
    ASSUME GatewayInv, PlaceInv, NEW p \in OnItsWay, OnItsWay' = OnItsWay \ {p}
    PROVE  Meaning(p) \in Under /\ Under' = Under \ {Meaning(p)}
<1>1. \A q \in OnItsWay : Meaning(q) = Meaning(p) => q = p
  BY OneOfANumber DEF Meaning
<1>2. \A q \in OnItsWay' : Meaning(q) \in Under /\ Meaning(q) # Meaning(p)
  BY <1>1 DEF Under
<1>3. \A m \in Under : m # Meaning(p) => m \in Under'
  BY DEF Under
<1>4. \A m \in Under' : m \in Under /\ m # Meaning(p)
  BY <1>2 DEF Under
<1> QED
  BY <1>3, <1>4 DEF Under

LEMMA UplinkLoses ==
    ASSUME GatewayInv, PlaceInv, UNCHANGED <<sent, pushed>>,
           NEW p \in OnItsWay, OnItsWay' = OnItsWay \ {p}
    PROVE  Promise!Next
<1>1. Meaning(p) \in Under /\ Under' = Under \ {Meaning(p)}
  BY UnderWithout
<1>2. Told' = Told
  BY DEF Told
<1>3. Promise!Lose(Meaning(p))
  BY <1>1, <1>2 DEF Promise!Lose, Under, Told, Meaning
<1> QED
  BY <1>1, <1>3 DEF Promise!Next, Under, Meaning

\* The packet that is processed is the oldest its node has under way.
LEMMA HeldIsOldest ==
    ASSUME GatewayInv, OrderInv, InHand, NEW p \in OnItsWay, p.signer = packet.signer
    PROVE  packet.n <= p.n
<1>1. fPc \in Processing
  BY DEF InHand, GatewayInv, ForwarderInv, Processing, Holding
<1>2. packet.n \in Int
  BY <1>1 DEF GatewayInv, ForwarderInv, Processing, Sound, Packet
<1>3. p.n \in Int
  BY WayType DEF Packet
<1>4. p = packet \/ HeldBefore(p)
  BY WayMembers DEF OrderInv, OutOrder, AirOrder, QueueOrder
<1> QED
  BY <1>1, <1>2, <1>3, <1>4 DEF HeldBefore

\* The contract executes the push.
LEMMA UplinkPushes ==
    ASSUME GatewayInv, OrderInv, PlaceInv, fPc = "push", Permitted, packet \in OnItsWay,
           UNCHANGED sent, pushed' = Append(pushed, Pushed), OnItsWay' = OnItsWay \ {packet}
    PROVE  Promise!Next
<1>1. Meaning(packet) \in Under /\ Under' = Under \ {Meaning(packet)}
  BY UnderWithout
<1>2. InHand
  <2>1. held \in Packet \X (0..MaxEpoch)
    BY DEF GatewayInv, ForwarderInv, Holding
  <2>2. held # <<>>
    BY ONLY <2>1
  <2> QED
    BY <2>2 DEF InHand
<1>3. /\ packet \in Packet /\ packet.signer \in Node
      /\ SignedLen(packet.len) = packet.length % 256
  BY DEF GatewayInv, ForwarderInv, Holding, Sound, Packet, Uint8
<1>4. \A m \in Under : m.signer = packet.signer => packet.n <= m.n
  BY <1>2, HeldIsOldest DEF Under, Meaning
<1> DEFINE last == [n |-> packet.n, signer |-> packet.signer, bytes |-> packet.length % 256]
<1>5. Told' = Append(Told, last)
  <2> DEFINE R == [n : 1..MaxPackets, signer : Node, bytes : 0..DataCapacity]
  <2>1. /\ Len(pushed) \in Nat /\ DOMAIN pushed = 1..Len(pushed)
        /\ DOMAIN pushed' = 1..(Len(pushed) + 1)
        /\ pushed'[Len(pushed) + 1] = Pushed /\ \A i \in DOMAIN pushed : pushed'[i] = pushed[i]
        /\ \A i \in DOMAIN pushed : pushed[i] \in PushRecord
        /\ Pushed \in PushRecord
    <3>1. Pushed \in PushRecord /\ pushed \in Seq(PushRecord)
      BY PushedSound DEF PushSound, GatewayInv, ResultInv
    <3> QED
      BY <3>1, AppendProperties
  <2>2. Told'[Len(pushed) + 1] = last /\ \A i \in 1..Len(pushed) : Told'[i] = Told[i]
    BY <1>3, <2>1 DEF Told, Pushed
  <2>3. last \in R /\ Told \in [1..Len(pushed) -> R] /\ Told' \in [1..(Len(pushed) + 1) -> R]
    <3>1. last \in R
      BY <1>3, <2>1 DEF PushRecord, Pushed
    <3>2. Told \in [1..Len(pushed) -> R]
      BY <2>1 DEF Told, PushRecord
    <3>3. Told' \in [1..(Len(pushed) + 1) -> R]
      BY <2>1 DEF Told, PushRecord
    <3> QED
      BY <3>1, <3>2, <3>3
  <2> HIDE DEF last, R
  <2>4. /\ Told \in Seq(R) /\ Len(Told) = Len(pushed)
        /\ Told' \in Seq(R) /\ Len(Told') = Len(pushed) + 1
    BY <2>1, <2>3
  <2>5. /\ Append(Told, last) \in Seq(R) /\ Len(Append(Told, last)) = Len(pushed) + 1
        /\ Append(Told, last)[Len(pushed) + 1] = last
        /\ \A i \in 1..Len(pushed) : Append(Told, last)[i] = Told[i]
    BY <2>3, <2>4, AppendProperties
  <2>6. \A i \in 1..(Len(pushed) + 1) : Told'[i] = Append(Told, last)[i]
    BY <2>1, <2>2, <2>5
  <2> QED
    BY <2>4, <2>5, <2>6, SeqEqual
<1>6. PICK m : m = Meaning(packet)
  OBVIOUS
<1>7. Promise!Push(m)
  BY <1>1, <1>3, <1>4, <1>5, <1>6 DEF Promise!Push, Promise!Oldest, Under, Told, Meaning
<1> QED
  BY <1>1, <1>6, <1>7 DEF Promise!Next, Under, Meaning

\* The nodes and the other radios.
LEMMA NodesUplink ==
    ASSUME GatewayInv, PlaceInv, NodesStep
    PROVE  [Promise!Next]_(Promise!vars)
<1>0. UNCHANGED <<rx, held, fPc, pushed>> /\ packet' = packet
  BY DEF NodesStep, threadVars, resultVars, packet
<1>1. ASSUME NEW c \in Node, NodeStep(c) PROVE [Promise!Next]_(Promise!vars)
  <2>1. CASE UNCHANGED <<sent, out, air>>
    <3>1. OnItsWay' = OnItsWay
      BY <1>0, <2>1 DEF OnItsWay
    <3> QED
      BY <1>0, <2>1, <3>1, UplinkStutters
  <2>2. CASE TransmitData(c)
    <3>1. out[c] \in Packet /\ out[c] # NoPacket
      <4>1. out[c] \in Packet
        BY <2>2 DEF TransmitData, GatewayInv, NodesInv, Sound
      <4>2. "n" \in DOMAIN out[c]
        BY <4>1 DEF Packet
      <4> QED
        BY <4>1, <4>2 DEF NoPacket
    <3>2. sent' = sent /\ out'[c] = NoPacket /\ \A d \in Node \ {c} : out'[d] = out[d]
      BY <2>2 DEF GatewayInv, NodesInv, TransmitData
    <3>3. CASE air = NoPacket /\ air' = out[c]
      <4>1. \A p : p \in OnItsWay' <=> p \in OnItsWay
        BY <1>0, <3>1, <3>2, <3>3 DEF OnItsWay
      <4>2. OnItsWay' = OnItsWay
        BY <4>1
      <4> QED
        BY <1>0, <3>2, <4>2, UplinkStutters
    <3>4. CASE air' = air
      <4>1. out[c].n \in 1..MaxPackets /\ c \in OutAt(out[c].n)
        BY <3>1 DEF Packet, OutAt
      <4>2. /\ OutAt(out[c].n) = {c} /\ QueueAt(out[c].n) = {}
            /\ ~ AirAt(out[c].n) /\ ~ HeldAt(out[c].n)
        BY <4>1, Alone
      <4>3. /\ \A d \in Node \ {c} : out[d] # out[c]
            /\ \A i \in DOMAIN rx : rx[i] # out[c]
            /\ air # out[c] /\ (held # <<>> => packet # out[c])
        BY <3>1, <4>2 DEF OutAt, QueueAt, AirAt, HeldAt
      <4>4. \A p : p \in OnItsWay' <=> p \in OnItsWay /\ p # out[c]
        BY <1>0, <3>1, <3>2, <3>4, <4>3 DEF OnItsWay
      <4>5. out[c] \in OnItsWay /\ OnItsWay' = OnItsWay \ {out[c]}
        BY <3>1, <4>4, WayMembers
      <4> QED
        BY <1>0, <3>2, <4>5, UplinkLoses
    <3> QED
      BY <2>2, <3>3, <3>4 DEF TransmitData
  <2>3. ASSUME NEW length \in Length, node[c] = "ready", SignPacket(c, Uint8(length), length)
        PROVE  [Promise!Next]_(Promise!vars)
    <3>1. PICK p : p = [n |-> sent + 1, signer |-> c, length |-> length,
                        len |-> PacketLen(Uint8(length)), first |-> TRUE]
      OBVIOUS
    <3>2. p.n = sent + 1 /\ p.signer = c /\ p.length = length /\ p # NoPacket
      BY <3>1 DEF NoPacket
    <3>3. sent' = sent + 1 /\ air' = air /\ out' = [out EXCEPT ![c] = p]
      BY <2>3, <3>1 DEF SignPacket
    <3>4. out[c] = NoPacket
      BY <2>3 DEF PlaceInv
    <3>5. out'[c] = p /\ \A d \in Node \ {c} : out'[d] = out[d]
      BY <3>3 DEF GatewayInv, NodesInv
    <3>6. \A q : q \in OnItsWay' <=> q \in OnItsWay \/ q = p
      BY <1>0, <3>2, <3>3, <3>4, <3>5 DEF OnItsWay
    <3>7. OnItsWay' = OnItsWay \union {p}
      BY <3>6
    <3> QED
      BY <1>0, <3>2, <3>3, <3>7, UplinkSigns
  <2> QED
    BY <1>1, <2>1, <2>2, <2>3 DEF NodeStep, LoadConfig, SetupRadio, SketchSetup, SendSensorData,
       SketchLoop, SendData, SignPacketFails
<1>2. CASE ForeignPacket
  <2>1. PICK p : /\ p.n = sent + 1 /\ p.signer = NoNode /\ p.length = 0
                 /\ p # NoPacket /\ air' = p
    <3>1. PICK len \in {0, 255} :
             air' = [n |-> sent + 1, signer |-> NoNode, length |-> 0, len |-> len, first |-> len = 0]
      BY <1>2 DEF ForeignPacket
    <3> QED
      BY <3>1 DEF NoPacket
  <2>2. \A q : q \in OnItsWay' <=> q \in OnItsWay \/ q = p
    BY <1>0, <1>2, <2>1 DEF OnItsWay, ForeignPacket
  <2>3. OnItsWay' = OnItsWay \union {p} /\ sent' = sent + 1
    BY <1>2, <2>2 DEF ForeignPacket
  <2> QED
    BY <1>0, <2>1, <2>3, UplinkSigns
<1> QED
  BY <1>1, <1>2 DEF NodesStep

\* The radio's packet is queued or lost.
LEMMA RadioUplink ==
    ASSUME GatewayInv, PlaceInv, ServerReceive \/ ServerReceivesNothing
    PROVE  [Promise!Next]_(Promise!vars)
<1>0. UNCHANGED <<out, held, fPc, sent, pushed>> /\ packet' = packet
  BY DEF ServerReceive, ServerReceivesNothing, packet, resultVars
<1>1. CASE ServerReceive
  <2>1. air # NoPacket /\ air' = NoPacket /\ rx' = Append(rx, air)
    BY <1>1 DEF ServerReceive
  <2>2. rx \in Seq(Packet) /\ air \in Packet
    BY <2>1 DEF GatewayInv, ServerInv, NodesInv, Sound
  <2>3. /\ Len(rx) \in Nat /\ DOMAIN rx = 1..Len(rx) /\ DOMAIN rx' = 1..(Len(rx) + 1)
        /\ rx'[Len(rx) + 1] = air /\ \A i \in DOMAIN rx : rx'[i] = rx[i]
    BY <2>1, <2>2, AppendProperties
  <2>4. \A p : (\E i \in DOMAIN rx' : p = rx'[i]) <=> (\E i \in DOMAIN rx : p = rx[i]) \/ p = air
    BY <2>3
  <2>5. {rx'[i] : i \in DOMAIN rx'} = {rx[i] : i \in DOMAIN rx} \union {air}
    BY <2>4
  <2>6. OnItsWay' = OnItsWay
    BY <1>0, <2>1, <2>5 DEF OnItsWay
  <2> QED
    BY <1>0, <2>6, UplinkStutters
<1>2. CASE ServerReceivesNothing /\ air' = air
  <2>1. rx' = rx
    BY <1>2 DEF ServerReceivesNothing
  <2>2. OnItsWay' = OnItsWay
    BY <1>0, <1>2, <2>1 DEF OnItsWay
  <2> QED
    BY <1>0, <2>2, UplinkStutters
<1>3. CASE ServerReceivesNothing /\ air # NoPacket /\ air' = NoPacket
  <2>1. air.n \in 1..MaxPackets /\ AirAt(air.n) /\ rx' = rx
    BY <1>3 DEF ServerReceivesNothing, GatewayInv, NodesInv, Sound, Packet, AirAt
  <2>2. OutAt(air.n) = {} /\ QueueAt(air.n) = {} /\ ~ HeldAt(air.n)
    BY <2>1, Alone
  <2>3. /\ \A c \in Node : out[c] # air
        /\ \A i \in DOMAIN rx : rx[i] # air
        /\ held # <<>> => packet # air
    BY <1>3, <2>2 DEF OutAt, QueueAt, HeldAt
  <2>4. \A p : p \in OnItsWay' <=> p \in OnItsWay /\ p # air
    BY <1>0, <1>3, <2>1, <2>3 DEF OnItsWay
  <2>5. air \in OnItsWay /\ OnItsWay' = OnItsWay \ {air}
    BY <1>3, <2>4, WayMembers
  <2> QED
    BY <1>0, <2>5, UplinkLoses
<1> QED
  BY <1>1, <1>2, <1>3 DEF ServerReceivesNothing

\* The oldest packet of the queue is taken from it.
LEMMA PopUplink ==
    ASSUME GatewayInv, ReadPop
    PROVE  UNCHANGED Promise!vars
<1>0. /\ fPc = "pop" /\ held' = <<Head(rx), epoch>> /\ rx' = Tail(rx) /\ fPc' = "managed"
      /\ UNCHANGED <<air, out, sent, pushed>>
  BY DEF ReadPop, nodeVars, resultVars
<1>1. rx \in Seq(Packet) /\ rx # <<>> /\ held = <<>>
  BY <1>0 DEF GatewayInv, ServerInv, ForwarderInv, Holding
<1>2. /\ Len(rx) \in Nat \ {0} /\ DOMAIN rx = 1..Len(rx) /\ Head(rx) = rx[1]
      /\ DOMAIN rx' = 1..(Len(rx) - 1)
      /\ \A i \in DOMAIN rx' : rx'[i] = rx[i + 1]
  BY <1>0, <1>1
<1>3. packet' = rx[1] /\ held' # <<>>
  BY <1>0, <1>2 DEF packet
<1>4. \A p : (\E i \in DOMAIN rx : p = rx[i]) <=> (\E i \in DOMAIN rx' : p = rx'[i]) \/ p = rx[1]
  <2>1. ASSUME NEW i \in DOMAIN rx PROVE i = 1 \/ (i - 1 \in DOMAIN rx' /\ rx'[i - 1] = rx[i])
    BY <1>2
  <2>2. ASSUME NEW i \in DOMAIN rx' PROVE i + 1 \in DOMAIN rx /\ rx'[i] = rx[i + 1]
    BY <1>2
  <2> QED
    BY <1>2, <2>1, <2>2
<1>5. {rx[i] : i \in DOMAIN rx} = {rx'[i] : i \in DOMAIN rx'} \union {packet'}
  BY <1>3, <1>4
<1>6. OnItsWay' = OnItsWay
  BY <1>0, <1>1, <1>3, <1>5 DEF OnItsWay
<1> QED
  BY <1>0, <1>6, UplinkStutters

\* The packet in processPacket is given up.
LEMMA GivenUp ==
    ASSUME GatewayInv, PlaceInv, fPc \in Processing, UNCHANGED <<out, air, rx>>,
           held' = <<>> \/ fPc' = "hung"
    PROVE  packet \in OnItsWay /\ OnItsWay' = OnItsWay \ {packet}
<1>1. packet \in Packet
  BY DEF GatewayInv, ForwarderInv, Processing, Sound
<1>2. held # <<>>
  <2>1. held \in Packet \X (0..MaxEpoch)
    BY DEF GatewayInv, ForwarderInv, Processing
  <2> QED
    BY ONLY <2>1
<1>3. packet # NoPacket
  <2>1. "n" \in DOMAIN packet
    BY <1>1 DEF Packet
  <2> QED
    BY <2>1 DEF NoPacket
<1>4. packet.n \in 1..MaxPackets /\ HeldAt(packet.n)
  BY <1>1, <1>2 DEF Packet, HeldAt
<1>5. OutAt(packet.n) = {} /\ QueueAt(packet.n) = {} /\ ~ AirAt(packet.n)
  BY <1>4, Alone
<1>6. /\ \A c \in Node : out[c] # packet
      /\ \A i \in DOMAIN rx : rx[i] # packet
      /\ air # packet
  BY <1>3, <1>5 DEF OutAt, QueueAt, AirAt
<1>7. packet \in OnItsWay
  BY <1>2, <1>3, WayMembers DEF InHand, Processing
<1>8. \A p : p \in OnItsWay' <=> p \in OnItsWay /\ p # packet
  BY <1>2, <1>6 DEF OnItsWay, Processing
<1> QED
  BY <1>7, <1>8

LEMMA PushUplink ==
    ASSUME GatewayInv, OrderInv, PlaceInv, PushData
    PROVE  Promise!Next
<1>1. fPc = "push" /\ UNCHANGED <<out, air, rx, sent>> /\ (held' = <<>> \/ fPc' = "hung")
  BY DEF PushData, Finish, nodeVars
<1>2. packet \in OnItsWay /\ OnItsWay' = OnItsWay \ {packet}
  BY <1>1, GivenUp DEF Processing, Holding
<1>3. pushed' = pushed \/ (Permitted /\ pushed' = Append(pushed, Pushed))
  <2>1. PICK executed \in {Permitted, FALSE} :
           pushed' = IF executed THEN Append(pushed, Pushed) ELSE pushed
    BY DEF PushData
  <2>2. executed => Permitted
    OBVIOUS
  <2> QED
    BY <2>1, <2>2
<1> QED
  BY <1>1, <1>2, <1>3, UplinkLoses, UplinkPushes

\* Every other step of the gateway leaves each packet where it is.
LEMMA UplinkSame ==
    ASSUME UNCHANGED <<out, air, rx, sent, pushed>>, held' = <<>> <=> held = <<>>,
           fPc' = "hung" <=> fPc = "hung", packet' = packet
    PROVE  UNCHANGED Promise!vars
<1>1. OnItsWay' = OnItsWay
  BY DEF OnItsWay
<1> QED
  BY <1>1, UplinkStutters

LEMMA UplinkStep ==
    GatewayInv /\ OrderInv /\ PlaceInv /\ [GatewayNext]_gatewayVars => [Promise!Next]_(Promise!vars)
<1> SUFFICES ASSUME GatewayInv, OrderInv, PlaceInv, [GatewayNext]_gatewayVars
             PROVE  [Promise!Next]_(Promise!vars)
  OBVIOUS
<1>1. CASE (NodesSetUp /\ ServerInit) \/ SendMessage \/ CloseServer \/ Join
  <2>1. /\ UNCHANGED <<out, air, rx, sent, pushed, held>> /\ packet' = packet
        /\ fPc' = "hung" <=> fPc = "hung"
    BY <1>1 DEF ServerInit, SendMessage, CloseServer, Join, Woken, nodeVars, resultVars, packet,
       GatewayInv, ForwarderInv
  <2> QED
    BY <2>1, UplinkSame
<1>2. CASE ServerSetup \/ ServerTest \/ ServerTransmit \/ ServerNotify
  <2>1. /\ UNCHANGED <<out, air, rx, sent, pushed, held>> /\ packet' = packet
        /\ fPc' = "hung" <=> fPc = "hung"
    BY <1>2 DEF ServerSetup, ServerTest, ServerTransmit, ServerNotify, Woken, nodeVars, resultVars, packet
  <2> QED
    BY <2>1, UplinkSame
<1>3. CASE ForwarderTest \/ ReadTest \/ ReadBlock \/ ReadWakesSpuriously
  <2>1. /\ UNCHANGED <<out, air, rx, sent, pushed, held>> /\ packet' = packet
        /\ fPc' = "hung" <=> fPc = "hung"
    BY <1>3 DEF ForwarderTest, ReadTest, ReadBlock, ReadWakesSpuriously, Woken, nodeVars, resultVars, packet
  <2> QED
    BY <2>1, UplinkSame
<1>4. CASE Discard
  <2>1. /\ fPc \in Processing /\ UNCHANGED <<out, air, rx, sent, pushed>> /\ held' = <<>>
    BY <1>4 DEF Discard, Finish, Processing, Holding, resultVars
  <2>2. packet \in OnItsWay /\ OnItsWay' = OnItsWay \ {packet}
    BY <2>1, GivenUp
  <2> QED
    BY <2>1, <2>2, UplinkLoses
<1>5. CASE IsManaged \/ IsGateway
  <2>1. UNCHANGED <<out, air, rx, sent, pushed, held>> /\ packet' = packet
    BY <1>5 DEF IsManaged, IsGateway, Proceed, nodeVars, resultVars, packet
  <2>2. fPc' = "hung" <=> fPc = "hung"
    BY <1>5 DEF IsManaged, IsGateway, Proceed
  <2> QED
    BY <2>1, <2>2, UplinkSame
<1>6. CASE VerifySignature
  <2>1. fPc = "verify" /\ fPc' = "gateway" /\ held' = <<packet, epoch>>
    BY <1>6 DEF VerifySignature, Proceed
  <2>2. UNCHANGED <<out, air, rx, sent, pushed>>
    BY <1>6 DEF VerifySignature, Proceed, nodeVars, resultVars
  <2>3. packet' = packet /\ held' # <<>>
    BY <2>1 DEF packet
  <2>4. held \in Packet \X (0..MaxEpoch)
    BY <2>1 DEF GatewayInv, ForwarderInv, Holding
  <2>5. held # <<>>
    BY ONLY <2>4
  <2> QED
    BY <2>1, <2>2, <2>3, <2>5, UplinkSame
<1>7. CASE RecordChanges \/ UNCHANGED gatewayVars
  <2>1. UNCHANGED <<out, air, rx, sent, pushed, held, fPc>> /\ packet' = packet
    BY <1>7 DEF RecordChanges, gatewayVars, nodeVars, threadVars, resultVars, packet
  <2> QED
    BY <2>1, UplinkSame
<1> QED
  BY <1>1, <1>2, <1>3, <1>4, <1>5, <1>6, <1>7, NodesUplink, RadioUplink, PopUplink, PushUplink
  DEF GatewayNext, ServerStep, ForwarderStep, ProcessPacket

LEMMA UplinkInit == GatewayInit => Promise!Init
<1> SUFFICES ASSUME GatewayInit PROVE Promise!Init
  OBVIOUS
<1>1. /\ rx = <<>> /\ held = <<>> /\ air = NoPacket /\ sent = 0 /\ pushed = <<>>
      /\ \A c \in Node : out[c] = NoPacket
  BY DEF GatewayInit, NodeInit
<1>2. OnItsWay = {}
  BY <1>1 DEF OnItsWay
<1>3. Under = {} /\ Told = <<>>
  BY <1>1, <1>2 DEF Under, Told
<1> QED
  BY <1>1, <1>3 DEF Promise!Init, Under, Told, Meaning

\* The gateway with its radios, its two threads and its queue is a lossy link
\* that keeps the order of each node: nothing is pushed that no node signed,
\* nothing twice, nothing after a later packet of its node, and every push has
\* the bytes that node measured.
THEOREM IsUplink == GatewaySpec => ImplementsUplink
<1>1. GatewaySpec => [](GatewayInv /\ OrderInv /\ PlaceInv)
  BY OrderInit, OrderStep, PlaceInit, PlaceStep, GatewayInvHolds, PTL DEF GatewaySpec
<1> QED
  BY <1>1, UplinkInit, UplinkStep, PTL DEF GatewaySpec, ImplementsUplink, Promise!Spec

-----------------------------------------------------------------------------
(* The threads that wait                                                   *)

\* The forwarder has a step to take.
ForwarderMoves == fPc \notin {"off", "asleep", "stranded", "hung", "done"}

\* An empty queue is what the forwarder sleeps on, unless the server is about to
\* notify it.  The threads leave their loops, and close_server leaves its joins,
\* one after the other.
WaitInv ==
    /\ cPc = "off" <=> sPc = "off"
    /\ cPc = "off" <=> fPc = "off"
    /\ cPc = "off" => rx = <<>>
    /\ fPc = "asleep" => rx = <<>> \/ sPc = "notify"
    /\ "done" \in {sPc, fPc} \/ cPc \in {"join_server", "join_forwarder", "closed"} => halt
    /\ cPc \in {"join_forwarder", "closed"} => sPc = "done"
    /\ cPc = "closed" => fPc = "done"

LEMMA WaitInit == GatewayInit => WaitInv
  BY DEF GatewayInit, WaitInv

LEMMA WaitStep == GatewayInv /\ WaitInv /\ [GatewayNext]_gatewayVars => WaitInv'
<1> SUFFICES ASSUME GatewayInv, WaitInv, [GatewayNext]_gatewayVars PROVE WaitInv'
  OBVIOUS
<1>1. CASE NodesSetUp /\ ServerInit
  BY <1>1 DEF ServerInit, WaitInv
<1>2. CASE SendMessage \/ CloseServer \/ Join
  BY <1>2 DEF SendMessage, CloseServer, Join, Woken, WaitInv
<1>3. CASE ServerSetup \/ ServerTest \/ ServerTransmit
  BY <1>3 DEF ServerSetup, ServerTest, ServerTransmit, WaitInv
<1>4. CASE ServerReceive \/ ServerReceivesNothing \/ ServerNotify
  BY <1>4 DEF ServerReceive, ServerReceivesNothing, ServerNotify, Woken, WaitInv
<1>5. CASE ForwarderTest \/ ReadTest \/ ReadBlock \/ ReadWakesSpuriously
  BY <1>5 DEF ForwarderTest, ReadTest, ReadBlock, ReadWakesSpuriously, Woken, WaitInv
<1>6. CASE ReadPop \/ Discard
  BY <1>6 DEF ReadPop, Discard, Finish, WaitInv
<1>7. CASE IsManaged \/ VerifySignature \/ IsGateway
  BY <1>7 DEF IsManaged, VerifySignature, IsGateway, Proceed, WaitInv
<1>8. CASE PushData
  BY <1>8 DEF PushData, Finish, WaitInv
<1>9. CASE RecordChanges \/ NodesStep \/ UNCHANGED gatewayVars
  BY <1>9 DEF RecordChanges, NodesStep, gatewayVars, threadVars, WaitInv
<1> QED
  BY <1>1, <1>2, <1>3, <1>4, <1>5, <1>6, <1>7, <1>8, <1>9
  DEF GatewayNext, ServerStep, ForwarderStep, ProcessPacket

LEMMA WaitHolds == GatewaySpec => []WaitInv
  BY WaitInit, WaitStep, GatewayInvHolds, PTL DEF GatewaySpec

\* No packet is forgotten in rx_queue: as long as one is there the forwarder
\* runs or is about to be woken, unless it sleeps stranded, hangs in push_data
\* or has seen halt_server.
THEOREM NoPacketForgotten ==
    GatewaySpec => [](rx # <<>> => \/ ForwarderMoves
                                   \/ fPc = "asleep" /\ sPc = "notify"
                                   \/ fPc \in {"stranded", "hung"}
                                   \/ fPc = "done" /\ halt)
<1>1. WaitInv => (rx # <<>> => \/ ForwarderMoves
                               \/ fPc = "asleep" /\ sPc = "notify"
                               \/ fPc \in {"stranded", "hung"}
                               \/ fPc = "done" /\ halt)
  BY DEF WaitInv, ForwarderMoves
<1> QED
  BY <1>1, WaitHolds, PTL

\* close_server was called and joins a forwarder that sleeps.
CloseStuck == cPc = "join_forwarder" /\ fPc \in {"asleep", "stranded"}

\* The server has ended and close_server has notified before: only a spurious
\* wake-up lets close_server return from there.
THEOREM NobodyWakesForwarder ==
    GatewaySpec => [][CloseStuck => CloseStuck' \/ ReadWakesSpuriously]_gatewayVars
<1>1. ASSUME WaitInv, GatewayNext, CloseStuck, ~ ReadWakesSpuriously PROVE CloseStuck'
  <2>1. cPc = "join_forwarder" /\ fPc \in {"asleep", "stranded"} /\ sPc = "done"
    BY <1>1 DEF WaitInv, CloseStuck
  <2>2. CASE SendMessage \/ CloseServer \/ Join \/ (NodesSetUp /\ ServerInit)
    BY <2>1, <2>2 DEF SendMessage, CloseServer, Join, ServerInit
  <2>3. ~ ServerStep
    BY <2>1 DEF ServerStep, ServerSetup, ServerTest, ServerTransmit, ServerReceive, ServerReceivesNothing, ServerNotify
  <2>4. ~ ForwarderStep
    BY <2>1 DEF ForwarderStep, ForwarderTest, ReadTest, ReadBlock, ReadPop, ProcessPacket, Discard, IsManaged,
       VerifySignature, IsGateway, Proceed, PushData
  <2>5. CASE RecordChanges \/ NodesStep
    BY <2>1, <2>5 DEF RecordChanges, NodesStep, threadVars, CloseStuck
  <2> QED
    BY <1>1, <2>2, <2>3, <2>4, <2>5 DEF GatewayNext
<1> QED
  BY <1>1, WaitHolds, PTL DEF GatewaySpec

\* When close_server has returned the gateway is still: nothing is received,
\* processed, pushed or reported any more.
THEOREM ClosedIsStill ==
    GatewaySpec => [][cPc = "closed" => UNCHANGED <<threadVars, resultVars>>]_gatewayVars
<1>1. ASSUME WaitInv, GatewayNext, cPc = "closed" PROVE UNCHANGED <<threadVars, resultVars>>
  <2>1. cPc = "closed" /\ fPc = "done" /\ sPc = "done"
    BY <1>1 DEF WaitInv
  <2>2. ~ SendMessage /\ ~ CloseServer /\ ~ Join /\ ~ (NodesSetUp /\ ServerInit)
    BY <2>1 DEF SendMessage, CloseServer, Join, ServerInit
  <2>3. ~ ServerStep
    BY <2>1 DEF ServerStep, ServerSetup, ServerTest, ServerTransmit, ServerReceive, ServerReceivesNothing, ServerNotify
  <2>4. ~ ForwarderStep /\ ~ ReadWakesSpuriously
    BY <2>1 DEF ForwarderStep, ForwarderTest, ReadTest, ReadBlock, ReadPop, ProcessPacket, Discard, IsManaged,
       VerifySignature, IsGateway, Proceed, PushData, ReadWakesSpuriously, Woken
  <2>5. RecordChanges \/ NodesStep
    BY <1>1, <2>2, <2>3, <2>4 DEF GatewayNext
  <2> QED
    BY <2>5 DEF RecordChanges, NodesStep
<1> QED
  BY <1>1, WaitHolds, PTL DEF GatewaySpec

=============================================================================
