------------------------------ MODULE Mailbox ------------------------------
(***************************************************************************)
(* What EventLogWaitManager promises: a log that was set stays until one   *)
(* thread takes it, each log is taken once, and at most one thread at a    *)
(* time waits for a given log.                                             *)
(***************************************************************************)
CONSTANTS Thread, LogId, NoId

VARIABLES
    full,        \* the ids whose log was set and not taken
    waitingFor   \* the id each thread waits for, or NoId

vars == <<full, waitingFor>>

Free(id) == \A t \in Thread : waitingFor[t] # id

Init ==
    /\ full = {}
    /\ waitingFor = [t \in Thread |-> NoId]

Put(id) ==
    /\ full' = full \union {id}
    /\ UNCHANGED waitingFor

Wait(t, id) ==
    /\ waitingFor[t] = NoId
    /\ Free(id)
    /\ waitingFor' = [waitingFor EXCEPT ![t] = id]
    /\ UNCHANGED full

Take(t) ==
    /\ waitingFor[t] \in full
    /\ full' = full \ {waitingFor[t]}
    /\ waitingFor' = [waitingFor EXCEPT ![t] = NoId]

\* The log is there already.
TakeAtOnce(t, id) ==
    /\ waitingFor[t] = NoId
    /\ Free(id)
    /\ id \in full
    /\ full' = full \ {id}
    /\ UNCHANGED waitingFor

Next ==
    \/ \E id \in LogId : Put(id)
    \/ \E t \in Thread : Take(t) \/ \E id \in LogId : Wait(t, id) \/ TakeAtOnce(t, id)

Spec == Init /\ [][Next]_vars

=============================================================================
