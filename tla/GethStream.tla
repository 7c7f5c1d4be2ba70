----------------------------- MODULE GethStream -----------------------------
(***************************************************************************)
(* The stream between a listener thread and the node's IPC socket, as      *)
(* src/subscription_server.cpp and src/data_receiver.cpp use it: requests  *)
(* to subscribe one way; replies, errors and event logs the other, one     *)
(* message a line.                                                         *)
(*                                                                         *)
(* A read returns what has arrived, which need not end where a message     *)
(* ends.  So a message is two halves on the wire, <<m, 1>> and <<m, 2>>,   *)
(* the second with the newline; <<m, 3>> is a second half whose newline    *)
(* was cut off.  Message m is the m-th log, the reply 0 or an error.       *)
(***************************************************************************)
EXTENDS Integers, Sequences, SequencesExt

CONSTANTS
    Topic,      \* what one can subscribe to: a positive number
    MaxLogs,    \* bound: logs emitted
    MaxFaults   \* bound: connections closed or refused, requests answered by an error

ASSUME StreamAssumption ==
    /\ Topic \subseteq Nat \ {0}
    /\ MaxLogs \in Nat
    /\ MaxFaults \in Nat

VARIABLES
    sock,     \* the listener's socket: "closed", "open", or "eof" once the node closed it
    wire,     \* halves under way to the listener
    asked,    \* the request the node has not answered, 0 if none
    subs,     \* the topics subscribed in this connection
    conn,     \* connections made so far
    sentIn,   \* the connection each log was sent in, 0 if it was not sent
    emitted,  \* logs emitted so far
    faults,   \* faults so far
    dead      \* the listener thread ended with an exception: so did the process

streamVars == <<sock, wire, asked, subs, conn, sentIn, emitted, faults, dead>>

Reply   == 0
Failure == -1
Garbled == -2

Half == (Failure..MaxLogs) \X (1..3)

StreamInit ==
    /\ sock = "closed"
    /\ wire = <<>>
    /\ asked = 0
    /\ subs = {}
    /\ conn = 0
    /\ sentIn = [n \in 1..MaxLogs |-> 0]
    /\ emitted = 0
    /\ faults = 0
    /\ dead = FALSE

-----------------------------------------------------------------------------
(* Lines                                                                   *)

Whole(m) == << <<m, 1>>, <<m, 2>> >>

HasLine(buf) == \E i \in DOMAIN buf : buf[i][2] = 2

LineEnd(buf) == CHOOSE i \in DOMAIN buf : buf[i][2] = 2 /\ \A j \in 1..(i - 1) : buf[j][2] # 2

Line(buf) == SubSeq(buf, 1, LineEnd(buf))

\* What remains after its first line.
After(buf) == SubSeq(buf, LineEnd(buf) + 1, Len(buf))

\* What Json::parse makes of a line.
Parsed(line) ==
    IF Len(line) = 2 /\ line[1][1] = line[2][1] /\ line[1][2] = 1 THEN line[1][1] ELSE Garbled

\* boost::trim
Trimmed(buf) ==
    IF buf # <<>> /\ Last(buf)[2] = 2 THEN [buf EXCEPT ![Len(buf)][2] = 3] ELSE buf

LogsOn(buf) == {buf[i][1] : i \in DOMAIN buf} \ {Reply, Failure}

-----------------------------------------------------------------------------
(* The listener's side of the socket                                       *)

Connect ==
    /\ sock = "closed"
    /\ sock' = "open"
    /\ wire' = <<>>
    /\ subs' = {}
    /\ asked' = 0
    /\ conn' = conn + 1
    /\ UNCHANGED <<sentIn, emitted, faults, dead>>

\* The node refuses the connection.
Refused ==
    /\ sock = "closed"
    /\ faults < MaxFaults
    /\ faults' = faults + 1
    /\ dead' = TRUE
    /\ UNCHANGED <<sock, wire, asked, subs, conn, sentIn, emitted>>

Dies ==
    /\ dead' = TRUE
    /\ UNCHANGED <<sock, wire, asked, subs, conn, sentIn, emitted, faults>>

Request(topic) ==
    /\ sock = "open"
    /\ asked' = topic
    /\ UNCHANGED <<sock, wire, subs, conn, sentIn, emitted, faults, dead>>

\* socket.receive returns the first halves of what has arrived.
Receive(n) ==
    /\ n <= Len(wire)
    /\ wire' = SubSeq(wire, n + 1, Len(wire))
    /\ UNCHANGED <<sock, asked, subs, conn, sentIn, emitted, faults, dead>>

AtEnd == sock = "eof" /\ wire = <<>>

Close ==
    /\ sock' = "closed"
    /\ wire' = <<>>
    /\ asked' = 0
    /\ subs' = {}
    /\ UNCHANGED <<conn, sentIn, emitted, faults, dead>>

-----------------------------------------------------------------------------
(* The node                                                                *)

GethReplies ==
    /\ sock = "open" /\ asked # 0
    /\ asked' = 0
    /\ \/ wire' = wire \o Whole(Reply) /\ subs' = subs \union {asked} /\ UNCHANGED faults
       \/ wire' = wire \o Whole(Failure) /\ faults < MaxFaults /\ faults' = faults + 1 /\ UNCHANGED subs
    /\ UNCHANGED <<sock, conn, sentIn, emitted, dead>>

\* A log nobody is subscribed to is lost.
GethLogs ==
    /\ emitted < MaxLogs
    /\ emitted' = emitted + 1
    /\ \/ /\ sock = "open" /\ subs # {}
          /\ wire' = wire \o Whole(emitted')
          /\ sentIn' = [sentIn EXCEPT ![emitted'] = conn]
       \/ Topic \ subs # {} /\ UNCHANGED <<wire, sentIn>>
    /\ UNCHANGED <<sock, asked, subs, conn, faults, dead>>

\* The node closes the connection, perhaps within a message.
GethCloses ==
    /\ sock = "open"
    /\ faults < MaxFaults
    /\ faults' = faults + 1
    /\ sock' = "eof"
    /\ wire' \in {wire} \union {Front(w) : w \in {wire} \ {<<>>}}
    /\ UNCHANGED <<asked, subs, conn, sentIn, emitted, dead>>

GethStep == GethReplies \/ GethLogs \/ GethCloses

StreamTypeOK ==
    /\ sock \in {"closed", "open", "eof"}
    /\ wire \in Seq(Half)
    /\ asked \in Topic \union {0}
    /\ subs \subseteq Topic
    /\ conn \in Nat
    /\ sentIn \in [1..MaxLogs -> 0..conn]
    /\ emitted \in 0..MaxLogs
    /\ faults \in 0..MaxFaults
    /\ dead \in BOOLEAN

=============================================================================
