--------------------------- MODULE EventListener ----------------------------
(***************************************************************************)
(* The listener thread of EventLogWaitManager, src/subscription_server.cpp:*)
(* it subscribes to each event of the contract, then hands every log it    *)
(* reads to setEventLog (module EventLogWait, which takes it from there).  *)
(*                                                                         *)
(* "goto restart" connects the socket a second time without closing it,    *)
(* which fails: wherever the setup restarts, the thread ends.              *)
(***************************************************************************)
EXTENDS GethStream

CONSTANT Events   \* contractLogSignatures.size(): the events are 1..Events

ASSUME EventsAssumption == Events \in Nat \ {0} /\ Topic = 1..Events

VARIABLES
    ePc,       \* the thread, "off" in a process without one
    made,      \* subscriptions made, the i of the setup's loop
    setupBuf,  \* subscribeParse
    buf,       \* receiveParse, which no setup clears
    handled,   \* the logs passed to setEventLog
    troubled,  \* the connection failed the setup: closed, or an error reply
    burst,     \* the last reply was read together with something after it
    torn,      \* the previous connection left a part of a line in buf
    undecoded  \* ethabi failed on a log of a subscription the thread knows

eventVars == <<ePc, made, setupBuf, buf, handled, troubled, burst, torn, undecoded>>
listenVars == <<streamVars, eventVars>>

\* The thread starts, or the process has none.
EventInit(pc) ==
    /\ ePc = pc
    /\ made = 0
    /\ setupBuf = <<>>
    /\ buf = <<>>
    /\ handled = <<>>
    /\ troubled = FALSE
    /\ burst = FALSE
    /\ torn = FALSE
    /\ undecoded = FALSE

-----------------------------------------------------------------------------
(* ipc_subscription_listener_setup                                         *)

SetupConnect ==
    /\ ePc = "connect"
    /\ \/ Connect /\ UNCHANGED troubled
       \/ Refused /\ troubled' = TRUE
    /\ ePc' = "request"
    /\ made' = 0
    /\ setupBuf' = <<>>
    /\ torn' = (buf # <<>>)
    /\ UNCHANGED <<buf, handled, burst, undecoded>>

SetupRequest ==
    /\ ePc = "request"
    /\ \/ Request(made + 1) /\ UNCHANGED troubled
       \/ sock = "eof" /\ Dies /\ troubled' = TRUE
    /\ ePc' = "read"
    /\ UNCHANGED <<made, setupBuf, buf, handled, burst, torn, undecoded>>

SetupReceive ==
    /\ ePc = "read"
    /\ ~ HasLine(setupBuf)
    /\ \/ \E n \in 1..Len(wire) : Receive(n) /\ setupBuf' = setupBuf \o SubSeq(wire, 1, n)
       \/ AtEnd /\ Dies /\ UNCHANGED setupBuf
    /\ troubled' = (troubled \/ AtEnd)
    /\ UNCHANGED <<ePc, made, buf, handled, burst, torn, undecoded>>

\* Definitions named ...Mutant are faulty variants of the definition that
\* follows them; the specification never uses them.

\* Fault: a log that arrives during the setup is dropped.
SetupLogMutant(m) ==
    /\ m \in 1..MaxLogs
    /\ ePc' = "read"
    /\ UNCHANGED <<streamVars, made, buf, troubled>>

\* A log that arrives between replies is kept for later.
SetupLog(m) ==
    /\ m \in 1..MaxLogs
    /\ buf' = buf \o Whole(m)
    /\ ePc' = "read"
    /\ UNCHANGED <<streamVars, made, troubled>>

\* Fault: a log is an unexpected response too.
SetupFailsMutant(m) ==
    /\ m # Reply
    /\ Dies
    /\ troubled' = (troubled \/ m = Failure)
    /\ UNCHANGED <<ePc, made, buf>>

\* An error, or a line that is not JSON.
SetupFails(m) ==
    /\ m \in {Failure, Garbled}
    /\ Dies
    /\ troubled' = (troubled \/ m = Failure)
    /\ UNCHANGED <<ePc, made, buf>>

SetupParse ==
    /\ ePc = "read"
    /\ HasLine(setupBuf)
    /\ LET m == Parsed(Line(setupBuf)) IN
          \/ /\ m = Reply
             /\ made' = made + 1
             /\ ePc' = IF made' < Events THEN "request" ELSE "leftover"
             /\ UNCHANGED <<streamVars, buf, troubled>>
          \/ SetupLog(m)
          \/ SetupFails(m)
    /\ setupBuf' = After(setupBuf)
    /\ UNCHANGED <<handled, burst, torn, undecoded>>

\* Fault: one reply too many is waited for.
SetupDoneMutant ==
    /\ ePc = "leftover"
    /\ Trimmed(setupBuf) = <<>>
    /\ ePc' = "read"
    /\ UNCHANGED <<streamVars, made, setupBuf, buf, handled, troubled, burst, torn, undecoded>>

SetupDone ==
    /\ ePc = "leftover"
    /\ Trimmed(setupBuf) = <<>>
    /\ ePc' = "main"
    /\ UNCHANGED <<streamVars, made, setupBuf, buf, handled, troubled, burst, torn, undecoded>>

\* What follows the last reply is trimmed and parsed up to a newline that it
\* may no longer have.  Then find_first_of returns npos: all of it is the
\* message, and all of it also remains.  Back in the loop with every
\* subscription made, the thread reads on and never leaves.
SetupLeftover ==
    /\ ePc = "leftover"
    /\ setupBuf # <<>>
    /\ LET rest == Trimmed(setupBuf)
           line == IF HasLine(rest) THEN Line(rest) ELSE rest
       IN  /\ SetupLog(Parsed(line)) \/ SetupFails(Parsed(line))
           /\ setupBuf' = IF HasLine(rest) THEN After(rest) ELSE rest
    /\ burst' = TRUE
    /\ UNCHANGED <<handled, torn, undecoded>>

-----------------------------------------------------------------------------
(* ipc_subscription_listener_thread                                        *)

ListenerReceive ==
    /\ ePc = "main"
    /\ ~ HasLine(buf)
    /\ \E n \in 1..Len(wire) : Receive(n) /\ buf' = buf \o SubSeq(wire, 1, n)
    /\ UNCHANGED <<ePc, made, setupBuf, handled, troubled, burst, torn, undecoded>>

\* The socket was closed: close it too and set up again.
ListenerReconnects ==
    /\ ePc = "main"
    /\ ~ HasLine(buf)
    /\ AtEnd
    /\ Close
    /\ ePc' = "connect"
    /\ UNCHANGED <<made, setupBuf, buf, handled, troubled, burst, torn, undecoded>>

\* Fault: a line that could not be parsed is handled as well.
ListenerHandlesAllMutant ==
    /\ ePc = "main"
    /\ HasLine(buf)
    /\ handled' = Append(handled, Parsed(Line(buf)))
    /\ buf' = After(buf)
    /\ UNCHANGED <<streamVars, ePc, made, setupBuf, troubled, burst, torn, undecoded>>

\* Fault: the line is not taken from the buffer.
ListenerHandlesMutant ==
    /\ ePc = "main"
    /\ HasLine(buf)
    /\ Len(handled) <= MaxLogs
    /\ LET m == Parsed(Line(buf)) IN
          handled' = IF m \in 1..MaxLogs THEN Append(handled, m) ELSE handled
    /\ UNCHANGED <<streamVars, ePc, made, setupBuf, buf, troubled, burst, torn, undecoded>>

\* subscriptionToEventName has what the last setup subscribed to: the logs of
\* this connection, as the node names a subscription once.
Known(m) == sentIn[m] = conn

\* setEventLog gets what ethabi decodes.  ethabi may fail, and fails without the
\* name of an event: after a log of a subscription that is not known the thread
\* closes the socket, sets up again and still decodes that log.
ListenerDecodes(m) ==
    \/ Known(m) /\ handled' = Append(handled, m) /\ UNCHANGED <<streamVars, undecoded>>
    \/ Dies /\ undecoded' = Known(m) /\ UNCHANGED handled

\* A line that is no log is skipped.
ListenerHandles ==
    /\ ePc = "main"
    /\ HasLine(buf)
    /\ LET m == Parsed(Line(buf)) IN
          IF m \in 1..MaxLogs THEN ListenerDecodes(m) ELSE UNCHANGED <<streamVars, handled, undecoded>>
    /\ buf' = After(buf)
    /\ UNCHANGED <<ePc, made, setupBuf, troubled, burst, torn>>

EventStep ==
    \/ SetupConnect
    \/ SetupRequest
    \/ SetupReceive
    \/ SetupParse
    \/ SetupDone
    \/ SetupLeftover
    \/ ListenerReceive
    \/ ListenerReconnects
    \/ ListenerHandles

-----------------------------------------------------------------------------
(* Properties                                                              *)

EventTypeOK ==
    /\ ePc \in {"off", "connect", "request", "read", "leftover", "main"}
    /\ made \in 0..Events
    /\ setupBuf \in Seq(Half) /\ buf \in Seq(Half)
    /\ handled \in Seq(1..MaxLogs)
    /\ troubled \in BOOLEAN /\ burst \in BOOLEAN /\ torn \in BOOLEAN /\ undecoded \in BOOLEAN

\* Logs reach setEventLog in the order in which the node emitted them, none
\* twice, whatever the reads cut and however often the thread reconnects.
HandledInOrder == \A i, j \in DOMAIN handled : i < j => handled[i] < handled[j]

Feed == INSTANCE LogFeed WITH handed <- handled

\* The listener is a feed of logs: whatever the reads cut, and however often the
\* thread connects again, setEventLog gets what was emitted, in that order and
\* nothing twice.
ImplementsFeed == Feed!Spec

\* The logs of this connection that are neither under way, nor in a buffer, nor
\* with setEventLog.
MissingLogs ==
    {n \in 1..MaxLogs : sentIn[n] = conn} \
        (LogsOn(wire) \union LogsOn(setupBuf) \union LogsOn(buf) \union Range(handled))

\* While its connection lasts the thread loses no log, with one exception: the
\* first one after a line the previous connection left unfinished in
\* receiveParse, to which it is glued.
LogsAccounted ==
    ePc # "off" /\ sock = "open" /\ ~ dead => Cardinality(MissingLogs) <= IF torn THEN 1 ELSE 0

\* The thread, and with it the process, ends for one of four reasons: during the
\* setup the connection is refused or closed, or a request is answered by an
\* error; something arrives together with the last reply; ethabi fails on a log.
\* No way in which the stream is cut into reads ends it, and it never meets a log
\* of a subscription it does not know, which would.
DeathExplained == ePc # "off" /\ dead => troubled \/ burst \/ undecoded

\* A log of this connection reaches setEventLog, unless the node closes the
\* connection, the thread ends, something arrived together with the last reply
\* (the thread never leaves the setup) or the log was glued to a torn line.
LogHandled ==
    \A n \in 1..MaxLogs :
        (ePc # "off" /\ sock = "open" /\ sentIn[n] = conn)
          ~> (n \in Range(handled) \/ sock # "open" \/ dead \/ burst \/ torn)

=============================================================================
