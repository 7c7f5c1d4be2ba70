---------------------------- MODULE DataReceiver ----------------------------
(***************************************************************************)
(* The data receiver, class DataReceiverManager of src/data_receiver.cpp,  *)
(* and the client loop that uses it, dataReceiver of src/client.cpp.       *)
(*                                                                         *)
(* The receiver thread subscribes to the updates addressed to its own      *)
(* device id and collects the ids of the devices that pushed data in       *)
(* receivedUpdates.  getReceivedChanges takes them from there, waiting on  *)
(* a condition variable with a mutex the receiver thread does not lock.    *)
(*                                                                         *)
(* Each log is an update by a device of its own; the topic of a log is the *)
(* id of the device that receives it.                                      *)
(***************************************************************************)
EXTENDS GethStream

CONSTANT MaxMoves   \* bound: changes of the receiver's own device id

ASSUME MovesAssumption == MaxMoves \in Nat

VARIABLES
    me,        \* the receiver's device id in the contract, 0 if none
    moves,     \* changes of it so far
    rPc,       \* the receiver thread, "off" in a process without one
    rNext,     \* where it goes on after the setup
    subId,     \* subscribedReceiverDeviceID
    replyBuf,  \* subscribeParse
    rBuf,      \* receiveParse
    incoming,  \* the update the thread is about to insert, 0 if none
    updates,   \* receivedUpdates
    setups,    \* setups completed
    uPc,       \* the client's thread
    tested,    \* setups completed when it last found an update
    got,       \* the updates it has been given
    mishap     \* what may have cost this connection an update

receiverVars == <<me, moves, rPc, rNext, subId, replyBuf, rBuf, incoming, updates, setups, uPc, tested, got, mishap>>
receiveVars  == <<streamVars, receiverVars>>
clientVars   == <<uPc, tested, got>>

\* The thread starts, or the process has none.
ReceiverInit(pc) ==
    /\ me \in Topic \union {0}
    /\ moves = 0
    /\ rPc = pc
    /\ rNext = "check"
    /\ subId = 0
    /\ replyBuf = <<>>
    /\ rBuf = <<>>
    /\ incoming = 0
    /\ updates = {}
    /\ setups = 0
    /\ uPc = "size"
    /\ tested = 0
    /\ got = {}
    /\ mishap = FALSE

-----------------------------------------------------------------------------
(* dataReceiverThreadSetup                                                 *)

\* get_my_device_id throws for a call of the node or of ethabi that fails, not
\* only where there is no device id.
OwnIdUnread ==
    /\ rPc = "id"
    /\ Dies
    /\ UNCHANGED receiverVars

\* It sleeps and asks again while it has no device id.
ReadOwnId ==
    /\ rPc = "id"
    /\ me # 0
    /\ subId' = me
    /\ rPc' = "connect"
    /\ replyBuf' = <<>>
    /\ UNCHANGED <<streamVars, me, moves, rNext, rBuf, incoming, updates, setups, clientVars, mishap>>

\* A restart of the setup finds the socket open already: to connect it fails.
OpenStream ==
    /\ rPc = "connect"
    /\ \/ Connect
       \/ Refused
       \/ sock # "closed" /\ Dies
    /\ rPc' = "request"
    /\ mishap' = FALSE
    /\ UNCHANGED <<me, moves, rNext, subId, replyBuf, rBuf, incoming, updates, setups, clientVars>>

RequestUpdates ==
    /\ rPc = "request"
    /\ Request(subId) \/ (sock = "eof" /\ Dies)
    /\ rPc' = "read"
    /\ UNCHANGED <<me, moves, rNext, subId, replyBuf, rBuf, incoming, updates, setups, clientVars, mishap>>

\* At the end of the stream receive throws or returns 0.
ReadReply ==
    /\ rPc = "read"
    /\ ~ HasLine(replyBuf)
    /\ \/ \E n \in 1..Len(wire) :
             Receive(n) /\ replyBuf' = replyBuf \o SubSeq(wire, 1, n) /\ UNCHANGED rPc
       \/ AtEnd /\ Dies /\ UNCHANGED <<replyBuf, rPc>>
       \/ AtEnd /\ rPc' = "id" /\ UNCHANGED <<streamVars, replyBuf>>
    /\ UNCHANGED <<me, moves, rNext, subId, rBuf, incoming, updates, setups, clientVars, mishap>>

\* Definitions named ...Mutant are faulty variants of the definition that
\* follows them; the specification never uses them.

\* The reply ends the setup and clears receivedUpdates.  What was read after it
\* is lost with subscribeParse.  No log comes before it: see AnswerFirst in
\* ListenersProofs.
SubscribeReply ==
    /\ updates' = {}
    /\ setups' = setups + 1
    /\ mishap' = (After(replyBuf) # <<>>)
    /\ rPc' = rNext
    /\ rNext' = "receive"
    /\ UNCHANGED streamVars

ParseReply ==
    /\ rPc = "read"
    /\ HasLine(replyBuf)
    /\ \/ Parsed(Line(replyBuf)) = Reply /\ SubscribeReply
       \/ Parsed(Line(replyBuf)) = Failure /\ Dies /\ UNCHANGED <<updates, setups, mishap, rPc, rNext>>
    /\ UNCHANGED <<me, moves, subId, replyBuf, rBuf, incoming, clientVars>>

-----------------------------------------------------------------------------
(* dataReceiverThread                                                      *)

SetUpAgain ==
    /\ Close
    /\ rBuf' = <<>>
    /\ rPc' = "id"

\* Before each message: get_my_device_id, which throws if there is none and where
\* the call fails.
CheckOwnId ==
    /\ rPc = "check"
    /\ \/ Dies /\ UNCHANGED <<rBuf, rPc, rNext>>
       \/ me \notin {0, subId} /\ SetUpAgain /\ rNext' = "receive"
       \/ me # 0 /\ me = subId /\ rPc' = "receive" /\ UNCHANGED <<streamVars, rBuf, rNext>>
    /\ UNCHANGED <<me, moves, subId, replyBuf, incoming, updates, setups, clientVars, mishap>>

ReceiveUpdates ==
    /\ rPc = "receive"
    /\ ~ HasLine(rBuf)
    /\ \/ \E n \in 1..Len(wire) :
             Receive(n) /\ rBuf' = rBuf \o SubSeq(wire, 1, n) /\ UNCHANGED rPc
       \/ AtEnd /\ Dies /\ UNCHANGED <<rBuf, rPc>>
       \/ AtEnd /\ SetUpAgain
    /\ UNCHANGED <<me, moves, rNext, subId, replyBuf, incoming, updates, setups, clientVars, mishap>>

\* A line that is no log is skipped; ethabi may fail on a log.
ParseUpdate ==
    /\ rPc = "receive"
    /\ HasLine(rBuf)
    /\ LET m == Parsed(Line(rBuf)) IN
          \/ m \in 1..MaxLogs /\ incoming' = m /\ rPc' = "insert" /\ UNCHANGED streamVars
          \/ m \in 1..MaxLogs /\ Dies /\ UNCHANGED <<incoming, rPc>>
          \/ m \notin 1..MaxLogs /\ rPc' = "check" /\ UNCHANGED <<streamVars, incoming>>
    /\ rBuf' = After(rBuf)
    /\ UNCHANGED <<me, moves, rNext, subId, replyBuf, updates, setups, clientVars, mishap>>

\* Fault: the set is replaced.
InsertUpdateMutant ==
    /\ rPc = "insert"
    /\ updates' = {incoming}
    /\ incoming' = 0
    /\ rPc' = "notify"
    /\ UNCHANGED <<streamVars, me, moves, rNext, subId, replyBuf, rBuf, setups, clientVars, mishap>>

InsertUpdate ==
    /\ rPc = "insert"
    /\ updates' = updates \union {incoming}
    /\ incoming' = 0
    /\ rPc' = "notify"
    /\ UNCHANGED <<streamVars, me, moves, rNext, subId, replyBuf, rBuf, setups, clientVars, mishap>>

\* Fault: nobody is woken.
NotifyUpdateMutant ==
    /\ rPc = "notify"
    /\ rPc' = "check"
    /\ UNCHANGED <<streamVars, me, moves, rNext, subId, replyBuf, rBuf, incoming, updates, setups, clientVars, mishap>>

NotifyUpdate ==
    /\ rPc = "notify"
    /\ uPc' = IF uPc \in {"asleep", "stranded"} THEN "test" ELSE uPc
    /\ rPc' = "check"
    /\ UNCHANGED <<streamVars, me, moves, rNext, subId, replyBuf, rBuf, incoming, updates, setups, tested, got, mishap>>

ReceiverStep ==
    \/ ReadOwnId
    \/ OpenStream
    \/ RequestUpdates
    \/ ReadReply
    \/ ParseReply
    \/ CheckOwnId
    \/ ReceiveUpdates
    \/ ParseUpdate
    \/ InsertUpdate
    \/ NotifyUpdate

-----------------------------------------------------------------------------
(* getReceivedChanges and its caller                                       *)

\* The set is copied and cleared, with its mutex held.
Take ==
    /\ got' = got \union updates
    /\ updates' = {}
    /\ uPc' = "size"
    /\ UNCHANGED <<streamVars, me, moves, rPc, rNext, subId, replyBuf, rBuf, incoming, setups, tested, mishap>>

\* receivedUpdates.size() with the mutex held, which stays locked if there are any.
SizeLocked ==
    /\ uPc = "size"
    /\ updates # {} /\ Take

SizeZero ==
    /\ uPc = "size"
    /\ updates = {}
    /\ uPc' = "test"
    /\ UNCHANGED <<streamVars, me, moves, rPc, rNext, subId, replyBuf, rBuf, incoming, updates, setups, tested, got, mishap>>

\* And without the mutex.
SizeUnlocked ==
    /\ uPc = "test"
    /\ uPc' = IF updates = {} THEN "block" ELSE "take"
    /\ tested' = setups
    /\ UNCHANGED <<streamVars, me, moves, rPc, rNext, subId, replyBuf, rBuf, incoming, updates, setups, got, mishap>>

\* Stranded is asleep after the notification for an update in the set.
WaitForUpdate ==
    /\ uPc = "block"
    /\ uPc' = IF updates # {} /\ rPc # "notify" THEN "stranded" ELSE "asleep"
    /\ UNCHANGED <<streamVars, me, moves, rPc, rNext, subId, replyBuf, rBuf, incoming, updates, setups, tested, got, mishap>>

\* The mutex is locked again.  The caller prints an error if the set is empty.
TakeUpdates ==
    /\ uPc = "take"
    /\ Take

ClientStep == SizeLocked \/ SizeZero \/ SizeUnlocked \/ WaitForUpdate \/ TakeUpdates

\* Fault: receivedUpdates is not tested again.
ClientWakesSpuriouslyMutant ==
    /\ uPc \in {"asleep", "stranded"}
    /\ uPc' = "take"
    /\ UNCHANGED <<streamVars, me, moves, rPc, rNext, subId, replyBuf, rBuf, incoming, updates, setups, tested, got, mishap>>

ClientWakesSpuriously ==
    /\ uPc \in {"asleep", "stranded"}
    /\ uPc' = "test"
    /\ UNCHANGED <<streamVars, me, moves, rPc, rNext, subId, replyBuf, rBuf, incoming, updates, setups, tested, got, mishap>>

\* External: the receiver is removed or added under another id.
OwnIdChanges ==
    /\ moves < MaxMoves
    /\ moves' = moves + 1
    /\ me' \in (Topic \union {0}) \ {me}
    /\ UNCHANGED <<streamVars, rPc, rNext, subId, replyBuf, rBuf, incoming, updates, setups, clientVars, mishap>>

-----------------------------------------------------------------------------
(* Properties                                                              *)

ReceiverTypeOK ==
    /\ me \in Topic \union {0} /\ moves \in 0..MaxMoves
    /\ rPc \in {"off", "id", "connect", "request", "read", "check", "receive", "insert", "notify"}
    /\ rNext \in {"check", "receive"}
    /\ subId \in Topic \union {0}
    /\ replyBuf \in Seq(Half) /\ rBuf \in Seq(Half)
    /\ incoming \in 0..MaxLogs
    /\ updates \subseteq 1..MaxLogs /\ got \subseteq 1..MaxLogs
    /\ setups \in Nat /\ tested \in 0..setups
    /\ uPc \in {"size", "test", "block", "asleep", "stranded", "take"}
    /\ mishap \in BOOLEAN

\* While a connection lasts, an update sent in it is on its way to the client or
\* with it, unless it was read together with the reply to the subscription.
UpdatesAccounted ==
    rPc # "off" /\ sock = "open" /\ ~ mishap /\ ~ dead =>
        \A n \in 1..MaxLogs : sentIn[n] = conn =>
            n \in LogsOn(wire) \union LogsOn(replyBuf) \union LogsOn(rBuf) \union {incoming} \union updates \union got

\* getReceivedChanges returns an empty set only if a setup cleared the set after
\* its last test: the receiver subscribed anew in between.
EmptyOnlyAfterClear == uPc = "take" /\ updates = {} => setups > tested

\* An update in the set is given to the client, unless a setup clears the set,
\* the process ends, or the client sleeps next to it because the notification
\* came between its test and its wait.
UpdateReported ==
    \A n \in 1..MaxLogs, k \in 0..(MaxFaults + MaxMoves + 1) :
        (n \in updates /\ setups = k)
          ~> (n \in got \/ setups > k \/ dead \/ uPc = "stranded")

=============================================================================
