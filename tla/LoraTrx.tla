------------------------------ MODULE LoraTrx -------------------------------
(***************************************************************************)
(* The LoRa gateway, class LoraTrx of src/lora_trx.cpp, composed with the  *)
(* nodes (LoraNode) and with what the registry says of their device id.    *)
(*                                                                         *)
(* A server thread polls the radio and fills rx_queue.  A forwarder thread *)
(* takes packets from it, checks each against the contract and pushes its  *)
(* data there.  std::async is given a temporary future, which waits for    *)
(* the task where it is destroyed: packets are processed one at a time and *)
(* an exception of processPacket is dropped with its packet.               *)
(*                                                                         *)
(* rx_queue_mutex is left out: one thread only pushes and one only pops,   *)
(* each in a single critical section.  The test of readMessage is made     *)
(* without it, and the wait on rx_queue_condvar uses a mutex the notifier  *)
(* does not know.                                                          *)
(***************************************************************************)
EXTENDS LoraNode, FiniteSetsExt

CONSTANTS
    MaxEpoch,    \* bound: changes of the registry
    MaxMessages  \* bound: calls of sendMessage

ASSUME GatewayAssumption == MaxEpoch \in Nat /\ MaxMessages \in Nat

VARIABLES
    halt,     \* halt_server
    radioUp,  \* hardwareInitialized
    rx,       \* rx_queue
    tx,       \* the number of messages in tx_queue
    sPc,      \* the server thread
    fPc,      \* the forwarder thread
    held,     \* the packet it processes, and the registry's epoch when it
              \* found the packet's signature valid
    cPc,      \* the thread that calls server_init and close_server
    crashed,  \* the process has been terminated
    gateway,  \* the gateway's own registration
    holder,   \* the node the device id is registered for, if any
    signkey,  \* the node whose key is the id's sign key, if any
    epoch,    \* changes of the id's record so far
    pushed,   \* the pushes the contract executed
    claimed   \* numbers of the packets reported as successfully forwarded

threadVars  == <<halt, radioUp, rx, tx, sPc, fPc, held, cPc, crashed>>
recordVars  == <<gateway, holder, signkey, epoch>>
resultVars  == <<pushed, claimed>>
gatewayVars == <<nodeVars, threadVars, recordVars, resultVars>>

GatewayInit ==
    /\ NodeInit
    /\ halt = TRUE
    /\ radioUp = FALSE
    /\ rx = <<>>
    /\ tx = 0
    /\ sPc = "off"
    /\ fPc = "off"
    /\ held = <<>>
    /\ cPc = "off"
    /\ crashed = FALSE
    /\ gateway = "gateway"
    /\ \E c \in Node : holder = c /\ signkey = c
    /\ epoch = 0
    /\ pushed = <<>>
    /\ claimed = {}

-----------------------------------------------------------------------------
(* The owner of the gateway object                                         *)

\* The constructor only warns of a gateway that is not registered as one, but
\* an exception of the node's answer ends the program.
ServerInit ==
    /\ cPc = "off"
    /\ \/ /\ halt' = FALSE
          /\ sPc' = "setup"
          /\ fPc' = "test"
          /\ cPc' = "running"
          /\ UNCHANGED crashed
       \/ crashed' = TRUE /\ UNCHANGED <<halt, sPc, fPc, cPc>>
    /\ UNCHANGED <<radioUp, rx, tx, held, nodeVars, recordVars, resultVars>>

\* sendMessage, of a length it accepts.
SendMessage ==
    /\ cPc = "running"
    /\ tx < MaxMessages
    /\ tx' = tx + 1
    /\ UNCHANGED <<halt, radioUp, rx, sPc, fPc, held, cPc, crashed, nodeVars, recordVars, resultVars>>

Woken == IF fPc \in {"asleep", "stranded"} THEN "wait" ELSE fPc

\* Definitions named ...Mutant are faulty variants of the definition that
\* follows them; the specification never uses them.

\* Fault: leaves halt_server as it is.
CloseServerMutant ==
    /\ cPc = "running"
    /\ fPc' = Woken
    /\ cPc' = "join_server"
    /\ UNCHANGED <<halt, radioUp, rx, tx, sPc, held, crashed, nodeVars, recordVars, resultVars>>

\* close_server: halt_server = true and notify_all.
CloseServer ==
    /\ cPc = "running"
    /\ halt' = TRUE
    /\ fPc' = Woken
    /\ cPc' = "join_server"
    /\ UNCHANGED <<radioUp, rx, tx, sPc, held, crashed, nodeVars, recordVars, resultVars>>

\* Its two joins.
Join ==
    /\ \/ cPc = "join_server" /\ sPc = "done" /\ cPc' = "join_forwarder"
       \/ cPc = "join_forwarder" /\ fPc = "done" /\ cPc' = "closed"
    /\ UNCHANGED <<halt, radioUp, rx, tx, sPc, fPc, held, crashed, nodeVars, recordVars, resultVars>>

-----------------------------------------------------------------------------
(* The server thread                                                       *)

\* setup returns true when bcm2835_init fails.  get_my_device_id throws in this
\* thread when the gateway has no device id, and when its call fails.
ServerSetup ==
    /\ sPc = "setup"
    /\ \/ gateway # "none" /\ radioUp' = TRUE /\ sPc' = "loop" /\ UNCHANGED <<halt, crashed>>
       \/ crashed' = TRUE /\ UNCHANGED <<halt, radioUp, sPc>>
       \/ sPc' = "loop" /\ UNCHANGED <<halt, radioUp, crashed>>
       \/ sPc' = "loop" /\ halt' = TRUE /\ UNCHANGED <<radioUp, crashed>>
    /\ UNCHANGED <<rx, tx, fPc, held, cPc, nodeVars, recordVars, resultVars>>

\* The head of the loop.
ServerTest ==
    /\ sPc = "loop"
    /\ sPc' = IF halt THEN "done" ELSE IF tx > 0 THEN "transmit" ELSE "receive"
    /\ UNCHANGED <<halt, radioUp, rx, tx, fPc, held, cPc, crashed, nodeVars, recordVars, resultVars>>

\* A message of tx_queue is sent once, under the device id of the moment, if
\* get_my_device_id does not throw.
ServerTransmit ==
    /\ sPc = "transmit"
    /\ tx' = tx - 1
    /\ crashed' \in {TRUE, gateway = "none"}
    /\ sPc' = "receive"
    /\ UNCHANGED <<halt, radioUp, rx, fPc, held, cPc, nodeVars, recordVars, resultVars>>

\* Fault: the packet is put at the wrong end of the queue.
ServerReceiveMutant ==
    /\ sPc = "receive"
    /\ radioUp /\ air # NoPacket
    /\ air' = NoPacket
    /\ rx' = <<air>> \o rx
    /\ sPc' = "notify"
    /\ UNCHANGED <<halt, radioUp, tx, fPc, held, cPc, crashed, node, sent, out, ended, recordVars, resultVars>>

ServerReceive ==
    /\ sPc = "receive"
    /\ radioUp /\ air # NoPacket
    /\ air' = NoPacket
    /\ rx' = Append(rx, air)
    /\ sPc' = "notify"
    /\ UNCHANGED <<halt, radioUp, tx, fPc, held, cPc, crashed, node, sent, out, ended, recordVars, resultVars>>

\* Nothing is available, or rf95.recv fails.
ServerReceivesNothing ==
    /\ sPc = "receive"
    /\ IF radioUp /\ air # NoPacket
       THEN air' = NoPacket /\ ended' = ended \union {air.n}
       ELSE UNCHANGED <<air, ended>>
    /\ sPc' = "loop"
    /\ UNCHANGED <<halt, radioUp, rx, tx, fPc, held, cPc, crashed, node, sent, out, recordVars, resultVars>>

\* Fault: nobody is woken.
ServerNotifyMutant ==
    /\ sPc = "notify"
    /\ sPc' = "loop"
    /\ UNCHANGED <<halt, radioUp, rx, tx, fPc, held, cPc, crashed, nodeVars, recordVars, resultVars>>

ServerNotify ==
    /\ sPc = "notify"
    /\ fPc' = Woken
    /\ sPc' = "loop"
    /\ UNCHANGED <<halt, radioUp, rx, tx, held, cPc, crashed, nodeVars, recordVars, resultVars>>

\* serverThread
ServerStep ==
    \/ ServerSetup
    \/ ServerTest
    \/ ServerTransmit
    \/ ServerReceive
    \/ ServerReceivesNothing
    \/ ServerNotify

-----------------------------------------------------------------------------
(* The forwarder thread                                                    *)

\* The head of its loop.
ForwarderTest ==
    /\ fPc = "test"
    /\ fPc' = IF halt THEN "done" ELSE "wait"
    /\ UNCHANGED <<halt, radioUp, rx, tx, sPc, held, cPc, crashed, nodeVars, recordVars, resultVars>>

\* readMessage: the test of rx_queue.empty(), the wait it decides on and the
\* wake-up by a notification or by none.
ReadTest ==
    /\ fPc = "wait"
    /\ fPc' = IF rx = <<>> THEN "block" ELSE "pop"
    /\ UNCHANGED <<halt, radioUp, rx, tx, sPc, held, cPc, crashed, nodeVars, recordVars, resultVars>>

\* Stranded is asleep after the notification for a packet in the queue.
ReadBlock ==
    /\ fPc = "block"
    /\ fPc' = IF rx # <<>> /\ sPc # "notify" THEN "stranded" ELSE "asleep"
    /\ UNCHANGED <<halt, radioUp, rx, tx, sPc, held, cPc, crashed, nodeVars, recordVars, resultVars>>

ReadWakesSpuriously ==
    /\ fPc # Woken
    /\ fPc' = Woken
    /\ UNCHANGED <<halt, radioUp, rx, tx, sPc, held, cPc, crashed, nodeVars, recordVars, resultVars>>

\* Fault: front() without pop().
ReadPopMutant ==
    /\ fPc = "pop"
    /\ held' = <<Head(rx), epoch>>
    /\ fPc' = "managed"
    /\ UNCHANGED <<halt, radioUp, rx, tx, sPc, cPc, crashed, nodeVars, recordVars, resultVars>>

ReadPop ==
    /\ fPc = "pop"
    /\ held' = <<Head(rx), epoch>>
    /\ rx' = Tail(rx)
    /\ fPc' = "managed"
    /\ UNCHANGED <<halt, radioUp, tx, sPc, cPc, crashed, nodeVars, recordVars, resultVars>>

packet == held[1]

\* Fault: the packet is not given up.
FinishMutant ==
    /\ ended' = ended \union {packet.n}
    /\ fPc' = "test"
    /\ UNCHANGED <<halt, radioUp, rx, tx, sPc, held, cPc, crashed, node, sent, out, air, recordVars>>

\* processPacket leaves by a return or an exception.
Finish ==
    /\ ended' = ended \union {packet.n}
    /\ held' = <<>>
    /\ fPc' = "test"
    /\ UNCHANGED <<halt, radioUp, rx, tx, sPc, cPc, crashed, node, sent, out, air, recordVars>>

Proceed(from, to) ==
    /\ fPc = from
    /\ fPc' = to
    /\ UNCHANGED <<halt, radioUp, rx, tx, sPc, cPc, crashed, nodeVars, recordVars, resultVars>>

\* A packet too short to be one, of an id no LoRa device has, of a type other
\* than PACKET_TYPE_DATA_FIRST, or met by a failing call.
Discard ==
    /\ fPc \in {"managed", "verify", "gateway"}
    /\ Finish
    /\ UNCHANGED resultVars

\* The length, is_gateway_managed and the type.  The contract answers only who
\* is registered.
IsManaged ==
    /\ Proceed("managed", "verify")
    /\ SignedLen(packet.len) >= 0
    /\ gateway # "none" /\ holder # NoNode
    /\ packet.first
    /\ UNCHANGED held

\* Fault: any key that exists will do.
VerifySignatureMutant ==
    /\ Proceed("verify", "gateway")
    /\ gateway # "none" /\ signkey # NoNode
    /\ held' = <<packet, epoch>>

VerifySignature ==
    /\ Proceed("verify", "gateway")
    /\ gateway # "none" /\ signkey # NoNode /\ signkey = packet.signer
    /\ held' = <<packet, epoch>>

\* is_gateway(get_my_device_id())
IsGateway ==
    /\ gateway = "gateway"
    /\ Proceed("gateway", "push")
    /\ UNCHANGED held

Permitted == gateway = "gateway" /\ holder # NoNode

Pushed == [n        |-> packet.n,
           length   |-> packet.length,
           bytes    |-> SignedLen(packet.len),
           signer   |-> packet.signer,
           holder   |-> holder,
           verified |-> held[2],
           at       |-> epoch]

\* push_data executes the call or not, and its caller learns of it or not: see
\* ContractCall.  True is believable, false is ignored, an exception is caught,
\* and it may never return.
PushData ==
    /\ fPc = "push"
    /\ \E executed \in {Permitted, FALSE}, answer \in {"true", "false", "threw", "never"} :
          /\ answer = "true" => executed
          /\ pushed' = IF executed THEN Append(pushed, Pushed) ELSE pushed
          /\ claimed' = IF answer \in {"true", "false"} THEN claimed \union {packet.n} ELSE claimed
          /\ IF answer # "never"
             THEN Finish
             ELSE /\ fPc' = "hung"
                  /\ UNCHANGED <<halt, radioUp, rx, tx, sPc, held, cPc, crashed, nodeVars, recordVars>>

\* processPacket
ProcessPacket ==
    \/ Discard
    \/ IsManaged
    \/ VerifySignature
    \/ IsGateway
    \/ PushData

\* forwarderThread
ForwarderStep ==
    \/ ForwarderTest
    \/ ReadTest
    \/ ReadBlock
    \/ ReadPop
    \/ ProcessPacket

-----------------------------------------------------------------------------
(* External: the administrators                                            *)

\* The id's record is removed, and perhaps added again for another node, with
\* or without its key; or the gateway's own registration changes.
RecordChanges ==
    /\ epoch < MaxEpoch
    /\ epoch' = epoch + 1
    /\ \/ /\ holder' \in (Node \union {NoNode}) \ {holder}
          /\ signkey' \in {holder', NoNode}
          /\ UNCHANGED gateway
       \/ gateway' \in {"gateway", "device", "none"} /\ UNCHANGED <<holder, signkey>>
    /\ UNCHANGED <<nodeVars, threadVars, resultVars>>

\* Bound: the gateway starts after all nodes, which it meets for the first time
\* in a transmission.  A node that failed to start is one that never sends.
NodesSetUp == \A c \in Node : node[c] = "ready"

\* A radio that is not initialised receives nothing.
NodesStep ==
    /\ ForeignPacket \/ \E c \in Node : NodeStep(c)
    /\ radioUp \/ UNCHANGED air
    /\ UNCHANGED <<threadVars, recordVars, resultVars>>

GatewayNext ==
    /\ ~ crashed
    /\ \/ NodesSetUp /\ ServerInit
       \/ SendMessage
       \/ CloseServer
       \/ Join
       \/ ServerStep
       \/ ForwarderStep
       \/ ReadWakesSpuriously
       \/ RecordChanges
       \/ NodesStep

\* The threads of the gateway run, and joins return.  Nothing else has to happen.
GatewaySpec ==
    /\ GatewayInit
    /\ [][GatewayNext]_gatewayVars
    /\ WF_gatewayVars(~ crashed /\ ServerStep)
    /\ WF_gatewayVars(~ crashed /\ ForwarderStep)
    /\ WF_gatewayVars(~ crashed /\ Join)

-----------------------------------------------------------------------------
(* Properties                                                              *)

PushRecord == [n : 1..MaxPackets, length : Length, bytes : 0..DataCapacity, signer : Node,
               holder : Node, verified : 0..MaxEpoch, at : 0..MaxEpoch]

GatewayTypeOK ==
    /\ node \in [Node -> NodeState]
    /\ sent \in 0..MaxPackets
    /\ out \in [Node -> Packet \union {NoPacket}]
    /\ air \in Packet \union {NoPacket}
    /\ ended \subseteq 1..MaxPackets
    /\ halt \in BOOLEAN /\ radioUp \in BOOLEAN /\ crashed \in BOOLEAN
    /\ rx \in Seq(Packet)
    /\ tx \in 0..MaxMessages
    /\ sPc \in {"off", "setup", "loop", "transmit", "receive", "notify", "done"}
    /\ fPc \in {"off", "test", "wait", "block", "asleep", "stranded", "pop", "managed", "verify", "gateway", "push", "hung", "done"}
    /\ held \in (Packet \X (0..MaxEpoch)) \union {<<>>}
    /\ (held # <<>>) <=> fPc \in {"managed", "verify", "gateway", "push", "hung"}
    /\ cPc \in {"off", "running", "join_server", "join_forwarder", "closed"}
    /\ gateway \in {"gateway", "device", "none"}
    /\ holder \in Node \union {NoNode} /\ signkey \in {holder, NoNode}
    /\ epoch \in 0..MaxEpoch
    /\ pushed \in Seq(PushRecord)
    /\ claimed \subseteq 1..MaxPackets

\* The places where the packet of a number is.
Places(n) ==
    {<<"out", c>> : c \in {c \in Node : out[c] # NoPacket /\ out[c].n = n}}
    \union {<<"rx", i>> : i \in {i \in DOMAIN rx : rx[i].n = n}}
    \union {place \in {"air", "held", "ended"} \X {0} :
              \/ place[1] = "air" /\ air # NoPacket /\ air.n = n
              \/ place[1] = "held" /\ held # <<>> /\ packet.n = n
              \/ place[1] = "ended" /\ n \in ended}

\* A packet is in one place of its way from the node to its end: the two queues
\* and the two threads' buffers neither lose one nor keep a second reference.
PacketsConserved ==
    \A n \in 1..MaxPackets : Cardinality(Places(n)) = IF n <= sent THEN 1 ELSE 0

\* The packets of a node are pushed once, and in the order in which it sent them.
PushesInOrder ==
    \A i, j \in DOMAIN pushed : i < j /\ pushed[i].signer = pushed[j].signer
        => pushed[i].n < pushed[j].n

\* Data is pushed under the id of another device than the one that signed it
\* only when the id's record changed between verifySignature and push_data.
AttributionExplained ==
    \A i \in DOMAIN pushed : pushed[i].holder # pushed[i].signer
        => pushed[i].verified < pushed[i].at

\* The bytes pushed are the bytes sendData was given, by its uint8_t.
LengthsSurvive ==
    \A i \in DOMAIN pushed : pushed[i].bytes = Uint8(pushed[i].length)

\* The packets that can still be pushed: at their node, in the radio, in the
\* queue, and in processPacket as long as push_data has not been called.
OnItsWay ==
    ({out[c] : c \in Node} \union {air} \union {rx[i] : i \in DOMAIN rx}
        \union (IF held = <<>> \/ fPc = "hung" THEN {} ELSE {packet})) \ {NoPacket}

Promise ==
    INSTANCE Uplink WITH
        signed   <- sent,
        underWay <- {[n |-> p.n, signer |-> p.signer, length |-> p.length] : p \in OnItsWay},
        pushed   <- [i \in DOMAIN pushed |->
                        [n |-> pushed[i].n, signer |-> pushed[i].signer, bytes |-> pushed[i].bytes]]

\* The gateway and its nodes are a lossy link that keeps the order of each node:
\* every push is of the oldest packet under way of the node that signed it, and
\* has the bytes that node measured.
ImplementsUplink == Promise!Spec

\* A packet that was received is processed, unless the gateway stops, push_data
\* never returns, or the forwarder sleeps next to it because the notification
\* came between its test of the queue and its wait.
ReceivedSettled ==
    \A n \in 1..MaxPackets :
        (\E i \in DOMAIN rx : rx[i].n = n)
          ~> \/ n \in ended
             \/ halt \/ crashed \/ fPc = "hung"
             \/ fPc = "stranded"

\* close_server returns, unless the forwarder sleeps on its queue, where nobody
\* will look at halt_server for it, or is in a push_data that never returns.
CloseExplained ==
    cPc = "join_server"
      ~> \/ cPc = "closed"
         \/ cPc = "join_forwarder" /\ fPc \in {"asleep", "stranded", "hung"}
         \/ crashed

\* "Successfully forwarded LoRa packet data": the contract has it.
SuccessMeansPushed == \A n \in claimed : \E i \in DOMAIN pushed : pushed[i].n = n

=============================================================================
