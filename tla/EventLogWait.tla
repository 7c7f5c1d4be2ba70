---------------------------- MODULE EventLogWait ----------------------------
(***************************************************************************)
(* EventLogWaitManager of src/subscription_server.cpp: the listener thread *)
(* stores the event log of each transaction under the transaction hash     *)
(* (setEventLog), the thread that sent the transaction picks it up or      *)
(* waits for it on a condition variable (getEventLog).                     *)
(*                                                                         *)
(* A thread is between two steps wherever it can be preempted with an      *)
(* effect on others: before each mtx.lock(), inside each critical section, *)
(* and before and after the two reads that getEventLog does without mtx,   *)
(* the loop condition and cv.wait().  cv.wait() sleeps under a mutex the   *)
(* notifier never takes, so a notification in front of it is lost.         *)
(*                                                                         *)
(* The unlocked reads look the id up in an unordered_map that another      *)
(* thread may be changing, which is undefined behaviour: the read either   *)
(* yields the right entry or brings the process down.                      *)
(***************************************************************************)
EXTENDS Integers, Sequences, Functions

CONSTANTS
    Thread,     \* threads that call getEventLog
    LogId,      \* transaction hashes
    NoId,       \* no transaction
    Listener,   \* the listener thread
    Nobody,     \* holder of a free mutex
    MaxInbox    \* bound: logs received and not yet stored

ASSUME EventLogAssumption ==
    /\ NoId \notin LogId
    /\ Listener \notin Thread
    /\ Nobody \notin Thread \union {Listener}
    /\ MaxInbox \in Nat

VARIABLES
    mtx,          \* who holds EventLogWaitManager::mtx
    eventLogMap,  \* the entries, by transaction hash
    pc,           \* where in getEventLog each thread is
    want,         \* the logID it was called with
    outcome,      \* how its last call ended
    inbox,        \* logs the listener has read from the socket, in order
    setting,      \* the logID of the running setEventLog, or NoId
    crashed       \* the process is gone

waitVars == <<mtx, eventLogMap, pc, want, outcome, inbox, setting, crashed>>

-----------------------------------------------------------------------------

Entry == [hasWaitingThread : BOOLEAN, hasEventLog : BOOLEAN]

NewEntry == [hasWaitingThread |-> FALSE, hasEventLog |-> FALSE]

PC == {"idle",      \* not in getEventLog
       "lock",      \* at mtx.lock(), line 58
       "register",  \* in the first critical section
       "test",      \* at the loop condition, without mtx
       "block",     \* condition was false, about to wait
       "asleep",    \* in cv.wait()
       "relock",    \* at mtx.lock(), line 92
       "take"}      \* in the second critical section

Outcome == {"none", "log", "busy"}

\* The entry operator[] or emplace() leaves for an id.
EntryOf(id) == IF id \in DOMAIN eventLogMap THEN eventLogMap[id] ELSE NewEntry

HasLog(id) == EntryOf(id).hasEventLog

\* Definitions named ...Mutant are faulty variants of the definition that
\* follows them; the specification never uses them.

\* The map with e as the entry of id.
With(id, e) ==
    [x \in DOMAIN eventLogMap \union {id} |-> IF x = id THEN e ELSE eventLogMap[x]]

\* Fault: empties the slot of the map instead of erasing it.
WithoutMutant(id) == With(id, NoId)

Without(id) == Restrict(eventLogMap, DOMAIN eventLogMap \ {id})

\* t waits for want[t]: its entry says hasWaitingThread on its behalf.
Registered(t) == pc[t] \in {"test", "block", "asleep", "relock", "take"}

\* t sleeps although its log is there: the notification came too early.
Stranded(t) == pc[t] = "asleep" /\ HasLog(want[t])

Init ==
    /\ mtx = Nobody
    /\ eventLogMap = <<>>
    /\ pc = [t \in Thread |-> "idle"]
    /\ want = [t \in Thread |-> NoId]
    /\ outcome = [t \in Thread |-> "none"]
    /\ inbox = <<>>
    /\ setting = NoId
    /\ crashed = FALSE

Goto(t, from, to) ==
    /\ pc[t] = from
    /\ pc' = [pc EXCEPT ![t] = to]

Acquire(who) ==
    /\ mtx = Nobody
    /\ mtx' = who

-----------------------------------------------------------------------------
(* getEventLog                                                             *)

Call(t, id) ==
    /\ Goto(t, "idle", "lock")
    /\ want' = [want EXCEPT ![t] = id]
    /\ outcome' = [outcome EXCEPT ![t] = "none"]
    /\ UNCHANGED <<mtx, eventLogMap, inbox, setting, crashed>>

Lock(t) ==
    /\ Goto(t, "lock", "register")
    /\ Acquire(t)
    /\ UNCHANGED <<eventLogMap, want, outcome, inbox, setting, crashed>>

\* Fault: throws without unlocking.
RegisterBusyMutant(t) ==
    /\ Goto(t, "register", "idle")
    /\ EntryOf(want[t]).hasWaitingThread
    /\ outcome' = [outcome EXCEPT ![t] = "busy"]
    /\ UNCHANGED <<mtx, eventLogMap, want, inbox, setting, crashed>>

\* Another thread waits for this log: unlock and throw.
RegisterBusy(t) ==
    /\ Goto(t, "register", "idle")
    /\ EntryOf(want[t]).hasWaitingThread
    /\ outcome' = [outcome EXCEPT ![t] = "busy"]
    /\ mtx' = Nobody
    /\ UNCHANGED <<eventLogMap, want, inbox, setting, crashed>>

\* Fault: leaves the entry behind.
RegisterAndTakeMutant(t) ==
    /\ Goto(t, "register", "idle")
    /\ ~ EntryOf(want[t]).hasWaitingThread
    /\ HasLog(want[t])
    /\ outcome' = [outcome EXCEPT ![t] = "log"]
    /\ mtx' = Nobody
    /\ UNCHANGED <<eventLogMap, want, inbox, setting, crashed>>

\* The log is there already: take it in the same critical section.
RegisterAndTake(t) ==
    /\ Goto(t, "register", "idle")
    /\ ~ EntryOf(want[t]).hasWaitingThread
    /\ HasLog(want[t])
    /\ eventLogMap' = Without(want[t])
    /\ outcome' = [outcome EXCEPT ![t] = "log"]
    /\ mtx' = Nobody
    /\ UNCHANGED <<want, inbox, setting, crashed>>

\* Fault: does not ask whether another thread waits.
RegisterAndWaitMutant(t) ==
    /\ Goto(t, "register", "test")
    /\ ~ HasLog(want[t])
    /\ eventLogMap' = With(want[t], [NewEntry EXCEPT !.hasWaitingThread = TRUE])
    /\ mtx' = Nobody
    /\ UNCHANGED <<want, outcome, inbox, setting, crashed>>

\* Fault: makes a new entry also where the log is there already.
RegisterAndForgetMutant(t) ==
    /\ Goto(t, "register", "test")
    /\ ~ EntryOf(want[t]).hasWaitingThread
    /\ eventLogMap' = With(want[t], [NewEntry EXCEPT !.hasWaitingThread = TRUE])
    /\ mtx' = Nobody
    /\ UNCHANGED <<want, outcome, inbox, setting, crashed>>

\* Leave an entry that says so and wait for the log.
RegisterAndWait(t) ==
    /\ Goto(t, "register", "test")
    /\ ~ EntryOf(want[t]).hasWaitingThread
    /\ ~ HasLog(want[t])
    /\ eventLogMap' = With(want[t], [NewEntry EXCEPT !.hasWaitingThread = TRUE])
    /\ mtx' = Nobody
    /\ UNCHANGED <<want, outcome, inbox, setting, crashed>>

Register(t) == RegisterBusy(t) \/ RegisterAndTake(t) \/ RegisterAndWait(t)

Test(t) ==
    /\ Goto(t, "test", IF HasLog(want[t]) THEN "relock" ELSE "block")
    /\ UNCHANGED <<mtx, eventLogMap, want, outcome, inbox, setting, crashed>>

Block(t) ==
    /\ Goto(t, "block", "asleep")
    /\ UNCHANGED <<mtx, eventLogMap, want, outcome, inbox, setting, crashed>>

\* Fault: waits once instead of in a loop, so any wake-up counts as the log.
WakeSpuriouslyMutant(t) ==
    /\ Goto(t, "asleep", "relock")
    /\ UNCHANGED <<mtx, eventLogMap, want, outcome, inbox, setting, crashed>>

\* A condition variable may wake a thread nobody notified.
WakeSpuriously(t) ==
    /\ Goto(t, "asleep", "test")
    /\ UNCHANGED <<mtx, eventLogMap, want, outcome, inbox, setting, crashed>>

Relock(t) ==
    /\ Goto(t, "relock", "take")
    /\ Acquire(t)
    /\ UNCHANGED <<eventLogMap, want, outcome, inbox, setting, crashed>>

\* Fault: leaves the entry behind.
TakeMutant(t) ==
    /\ Goto(t, "take", "idle")
    /\ outcome' = [outcome EXCEPT ![t] = "log"]
    /\ mtx' = Nobody
    /\ UNCHANGED <<eventLogMap, want, inbox, setting, crashed>>

Take(t) ==
    /\ Goto(t, "take", "idle")
    /\ eventLogMap' = Without(want[t])
    /\ outcome' = [outcome EXCEPT ![t] = "log"]
    /\ mtx' = Nobody
    /\ UNCHANGED <<want, inbox, setting, crashed>>

\* Some thread is inserting into or erasing from the map.
MapChanging ==
    \/ \E t \in Thread : pc[t] = "take"
    \/ \E t \in Thread : pc[t] = "register" /\ ~ EntryOf(want[t]).hasWaitingThread
    \/ mtx = Listener /\ setting \notin DOMAIN eventLogMap

\* The unlocked lookup meets a change of the map.
RaceCrash(t) ==
    /\ pc[t] \in {"test", "block"}
    /\ MapChanging
    /\ crashed' = TRUE
    /\ UNCHANGED <<mtx, eventLogMap, pc, want, outcome, inbox, setting>>

-----------------------------------------------------------------------------
(* The listener thread                                                     *)

\* External: the node reports the log of a transaction.
Deliver(id) ==
    /\ Len(inbox) < MaxInbox
    /\ inbox' = Append(inbox, id)
    /\ UNCHANGED <<mtx, eventLogMap, pc, want, outcome, setting, crashed>>

NextLog ==
    /\ setting = NoId
    /\ inbox # <<>>
    /\ setting' = Head(inbox)
    /\ inbox' = Tail(inbox)
    /\ UNCHANGED <<mtx, eventLogMap, pc, want, outcome, crashed>>

SetLock ==
    /\ setting # NoId
    /\ Acquire(Listener)
    /\ UNCHANGED <<eventLogMap, pc, want, outcome, inbox, setting, crashed>>

\* The threads notify_all() wakes.
Sleepers(id) == {t \in Thread : pc[t] = "asleep" /\ want[t] = id}

\* Fault: notifies nobody.
SetEventLogSilentMutant ==
    /\ mtx = Listener
    /\ eventLogMap' = With(setting, [EntryOf(setting) EXCEPT !.hasEventLog = TRUE])
    /\ mtx' = Nobody
    /\ setting' = NoId
    /\ UNCHANGED <<pc, want, outcome, inbox, crashed>>

SetEventLog ==
    /\ mtx = Listener
    /\ eventLogMap' = With(setting, [EntryOf(setting) EXCEPT !.hasEventLog = TRUE])
    /\ pc' = [t \in Thread |->
                IF EntryOf(setting).hasWaitingThread /\ t \in Sleepers(setting)
                THEN "test" ELSE pc[t]]
    /\ mtx' = Nobody
    /\ setting' = NoId
    /\ UNCHANGED <<want, outcome, inbox, crashed>>

-----------------------------------------------------------------------------

\* What a thread does on its own once it has called getEventLog.
ThreadStep(t) ==
    \/ Lock(t)
    \/ Register(t)
    \/ Test(t)
    \/ Block(t)
    \/ Relock(t)
    \/ Take(t)

ListenerStep == NextLog \/ SetLock \/ SetEventLog

Next ==
    /\ ~ crashed
    /\ \/ \E t \in Thread :
            \/ \E id \in LogId : Call(t, id)
            \/ ThreadStep(t)
            \/ WakeSpuriously(t)
            \/ RaceCrash(t)
       \/ \E id \in LogId : Deliver(id)
       \/ ListenerStep

\* Threads run: each that can step does so in the end.  Nothing makes a
\* condition variable wake up on its own, a thread call, or a log arrive.
Fairness ==
    /\ \A t \in Thread : WF_waitVars(~ crashed /\ ThreadStep(t))
    /\ WF_waitVars(~ crashed /\ ListenerStep)

Spec == Init /\ [][Next]_waitVars

FairSpec == Spec /\ Fairness

-----------------------------------------------------------------------------
(* Properties                                                              *)

TypeOK ==
    /\ mtx \in Thread \union {Listener, Nobody}
    /\ DOMAIN eventLogMap \subseteq LogId
    /\ \A id \in DOMAIN eventLogMap : eventLogMap[id] \in Entry
    /\ pc \in [Thread -> PC]
    /\ want \in [Thread -> LogId \union {NoId}]
    /\ outcome \in [Thread -> Outcome]
    /\ inbox \in Seq(LogId)
    /\ setting \in LogId \union {NoId}
    /\ crashed \in BOOLEAN

\* The flag hasWaitingThread is exact: an entry carries it when one thread, and
\* only one, waits for that log.  So the entry a sleeping thread reads without
\* the mutex is never erased under it.
WaiterFlagExact ==
    \A id \in LogId :
        LET waiters == {t \in Thread : Registered(t) /\ want[t] = id}
        IN  IF EntryOf(id).hasWaitingThread
            THEN \E t \in Thread : waiters = {t}
            ELSE waiters = {}

\* A thread that passed the loop finds the log when it holds the mutex again:
\* the copy of *eventLog never dereferences an unset pointer.
TakeFindsLog == \A t \in Thread : pc[t] \in {"relock", "take"} => HasLog(want[t])

\* A thread ends up asleep next to its own log in one way only: the log is
\* set between its test of hasEventLog and its cv.wait().
StrandedOnlyInWindow ==
    [][\A t \in Thread : ~ Stranded(t) /\ Stranded(t)' => pc[t] = "block"]_waitVars

\* Every critical section is left, also by the call that finds another thread
\* waiting for its log and throws.
MutexReleased == (mtx # Nobody) ~> (mtx = Nobody \/ crashed)

Abstract ==
    INSTANCE Mailbox WITH
        full <- {id \in DOMAIN eventLogMap : eventLogMap[id].hasEventLog},
        waitingFor <- [t \in Thread |-> IF Registered(t) THEN want[t] ELSE NoId]

\* The manager is a mailbox: logs are kept until taken, and taken once, by the
\* one thread that waits for them.
ImplementsMailbox == Abstract!Spec

=============================================================================
