-------------------------- MODULE ContractCallProofs --------------------------
(***************************************************************************)
(* Proofs about ContractCall for any number of calls, hashes and retries:  *)
(* a call that returns true was executed, and every entry of the log map   *)
(* is accounted for.                                                       *)
(***************************************************************************)
EXTENDS ContractCall, EventLogWaitProofs

USE CallAssumption, EventLogAssumption

-----------------------------------------------------------------------------
(* The invariant                                                           *)

CallType ==
    /\ stage \in [Thread -> Stage]
    /\ retries \in [Thread -> 0..(MaxRetries + 1)]
    /\ result \in [Thread -> {"none", "true", "false", "threw"}]
    /\ slot \in [LogId -> Slot]
    /\ tx \in [LogId -> Fate]
    /\ open \subseteq Slot
    /\ lostLogs \subseteq LogId

\* The stage of a call, where its thread is in getEventLog, what that returned
\* and what is known of its transaction belong together.
CallSound(t) ==
    /\ pc[t] # "idle" => stage[t] = "await" /\ want[t] = t /\ outcome[t] = "none"
    /\ stage[t] = "await" /\ pc[t] = "idle" => outcome[t] = "log"
    /\ stage[t] \in {"preflight", "send", "receipt"} => outcome[t] = "none"
    /\ stage[t] \in {"preflight", "send"} => tx[t] = "unsent"
    /\ stage[t] = "await" => HasReceipt(t)
    /\ stage[t] # "done" => retries[t] <= MaxRetries
    /\ result[t] = "true" => outcome[t] = "log"
    /\ stage[t] = "done" => outcome[t] = "log" \/ result[t] \in {"false", "threw"}

\* The transaction succeeded and the node delivered its log.
Reported(id) == tx[id] = "ok" /\ id \notin lostLogs

\* The log of id has been read and not yet stored.
Coming(id) == setting = id \/ \E i \in DOMAIN inbox : inbox[i] = id

\* The call it belongs to has it.
Taken(id) == id \in Thread /\ outcome[id] = "log"

\* The log of a transaction that succeeded, unless the node could not deliver it,
\* is on its way, in its entry or taken, and never in two of these places; there
\* are no other logs.
LogsOnce ==
    /\ \A id \in LogId : Coming(id) => Reported(id) /\ ~ HasLog(id)
    /\ \A id \in LogId : HasLog(id) => Reported(id)
    /\ \A t \in Thread : outcome[t] = "log" => Reported(t) /\ ~ HasLog(t) /\ ~ Coming(t)
    /\ \A i, j \in DOMAIN inbox : inbox[i] = inbox[j] => i = j
    /\ \A i \in DOMAIN inbox : inbox[i] # setting
    /\ \A id \in LogId : Reported(id) => Coming(id) \/ HasLog(id) \/ Taken(id)

\* An entry is made by its waiter or for its log.
EntriesUsed ==
    \A id \in DOMAIN eventLogMap : eventLogMap[id].hasEventLog \/ eventLogMap[id].hasWaitingThread

LostSucceeded == \A id \in lostLogs : tx[id] = "ok"

CallFacts ==
    /\ CallType
    /\ \A t \in Thread : CallSound(t)
    /\ LogsOnce
    /\ EntriesUsed
    /\ LostSucceeded

CallInvariant == WaitInv /\ CallFacts

LEMMA CallFactsInit == CallInit => CallFacts
<1> SUFFICES ASSUME CallInit PROVE CallFacts
  OBVIOUS
<1>1. CallType
  BY DEF CallInit, CallType, Stage, Fate
<1>2. ASSUME NEW t \in Thread PROVE CallSound(t)
  BY <1>2 DEF CallInit, Init, CallSound
<1>3. inbox = <<>> /\ setting = NoId /\ DOMAIN eventLogMap = {}
  BY DEF CallInit, Init
<1>4. ASSUME NEW id \in LogId PROVE ~ Coming(id) /\ ~ HasLog(id)
  <2>1. ~ HasLog(id)
    BY <1>3 DEF HasLog, EntryOf, NewEntry
  <2>2. setting # id
    BY <1>3
  <2>3. DOMAIN inbox = {}
    BY <1>3
  <2> QED
    BY <2>1, <2>2, <2>3 DEF Coming
<1>5. \A t \in Thread : outcome[t] = "none"
  BY DEF CallInit, Init
<1>6. LogsOnce
  <2>1. \A id \in LogId : ~ Reported(id)
    BY DEF CallInit, Reported
  <2> QED
    BY <1>3, <1>4, <1>5, <2>1 DEF LogsOnce
<1> QED
  BY <1>1, <1>2, <1>3, <1>6 DEF CallFacts, EntriesUsed, LostSucceeded, CallInit

-----------------------------------------------------------------------------
(* Steps of the calls and of the node                                      *)

\* A step that stores, moves and takes no log keeps the logs where they are, if
\* no transaction succeeds.
LEMMA LogsKept ==
    ASSUME LogsOnce, EntriesUsed, UNCHANGED <<inbox, setting, eventLogMap>>,
           \A id \in LogId : Reported(id) <=> Reported(id)',
           \A t \in Thread : outcome'[t] = "log" <=> outcome[t] = "log"
    PROVE  LogsOnce' /\ EntriesUsed'
<1>1. \A id : (Coming(id)' <=> Coming(id)) /\ (HasLog(id)' <=> HasLog(id))
  BY DEF Coming, HasLog, EntryOf
<1>2. EntriesUsed'
  BY DEF EntriesUsed
<1> QED
  BY <1>1, <1>2 DEF LogsOnce, Taken

\* A transaction is sent, once: no log of it can be known yet.
LEMMA Sent ==
    ASSUME CallFacts, NEW id \in LogId, tx[id] = "unsent", tx' = [tx EXCEPT ![id] = "pending"],
           UNCHANGED lostLogs
    PROVE  /\ \A x \in LogId : Reported(x) <=> Reported(x)'
           /\ LostSucceeded'
           /\ tx' \in [LogId -> Fate]
           /\ \A x \in LogId \ {id} : tx'[x] = tx[x]
  BY DEF CallFacts, CallType, Reported, LostSucceeded, Fate

LEMMA AdvanceEffect ==
    ASSUME CallType, NEW t \in Thread, NEW from, NEW to \in Stage, Advance(t, from, to)
    PROVE  /\ stage[t] = from /\ stage'[t] = to
           /\ \A u \in Thread \ {t} : stage'[u] = stage[u]
           /\ stage' \in [Thread -> Stage]
  BY DEF Advance, CallType

LEMMA ReturnEffect ==
    ASSUME CallType, NEW t \in Thread, NEW from, NEW value \in {"true", "false", "threw"},
           Return(t, from, value)
    PROVE  /\ stage[t] = from /\ stage'[t] = "done"
           /\ \A u \in Thread \ {t} : stage'[u] = stage[u]
           /\ stage' \in [Thread -> Stage]
           /\ result'[t] = value
           /\ \A u \in Thread \ {t} : result'[u] = result[u]
           /\ result' \in [Thread -> {"none", "true", "false", "threw"}]
<1>1. Advance(t, from, "done") /\ "done" \in Stage
  BY DEF Return, Stage
<1> QED
  BY <1>1, AdvanceEffect DEF Return, CallType

\* A step of one call in front of getEventLog, or behind it.
LEMMA CallStepFacts ==
    ASSUME CallInvariant, NEW t \in Thread, CallStep(t) \/ IpcFails(t)
    PROVE  CallFacts'
<1>0. CallFacts /\ CallType /\ TypeOK /\ LogsOnce /\ EntriesUsed /\ LostSucceeded /\ CallSound(t)
  BY DEF CallInvariant, CallFacts, WaitInv
<1>a. Stage = {"preflight", "send", "receipt", "await", "done"}
  BY DEF Stage
<1>b. ASSUME UNCHANGED <<inbox, setting, eventLogMap, tx, lostLogs>>,
             \A u \in Thread : outcome'[u] = "log" <=> outcome[u] = "log"
      PROVE  LogsOnce' /\ EntriesUsed' /\ LostSucceeded'
  <2>1. \A id \in LogId : Reported(id) <=> Reported(id)'
    BY <1>b DEF Reported
  <2>2. LostSucceeded'
    BY <1>0, <1>b DEF LostSucceeded
  <2> QED
    BY <1>0, <1>b, <2>1, <2>2, LogsKept
<1>c. ASSUME stage[t] = "send", tx' = [tx EXCEPT ![t] = "pending"], UNCHANGED <<waitVars, lostLogs>>
      PROVE  /\ LogsOnce' /\ EntriesUsed' /\ LostSucceeded'
             /\ tx' \in [LogId -> Fate]
             /\ \A x \in LogId \ {t} : tx'[x] = tx[x]
  <2>1. tx[t] = "unsent" /\ t \in LogId
    BY <1>0, <1>c DEF CallSound, HasReceipt
  <2>2. UNCHANGED <<inbox, setting, eventLogMap, outcome>>
    BY <1>c DEF waitVars
  <2> QED
    BY <1>0, <1>c, <2>1, <2>2, Sent, LogsKept
<1>d. ASSUME NEW u \in Thread \ {t}, stage'[u] = stage[u], result'[u] = result[u],
             retries'[u] = retries[u], tx'[u] = tx[u], pc'[u] = pc[u], want'[u] = want[u],
             outcome'[u] = outcome[u]
      PROVE  CallSound(u)'
  <2>1. CallSound(u)
    BY DEF CallInvariant, CallFacts
  <2> QED
    BY <1>d, <2>1 DEF CallSound, HasReceipt
<1>1. CASE PreflightPasses(t)
  <2>1. /\ stage[t] = "preflight" /\ stage'[t] = "send"
        /\ \A u \in Thread \ {t} : stage'[u] = stage[u]
        /\ stage' \in [Thread -> Stage]
    BY <1>0, <1>1, <1>a, AdvanceEffect DEF PreflightPasses
  <2>2. UNCHANGED <<retries, result, chainVars, waitVars>>
    BY <1>1 DEF PreflightPasses
  <2>3. CallSound(t)'
    BY <1>0, <2>1, <2>2 DEF CallSound, HasReceipt, chainVars, waitVars
  <2>4. \A u \in Thread : CallSound(u)'
    BY <1>d, <2>1, <2>2, <2>3 DEF chainVars, waitVars
  <2> QED
    BY <1>0, <1>b, <2>1, <2>2, <2>4 DEF CallFacts, CallType, chainVars, waitVars
<1>2. CASE PreflightFails(t) \/ SendRejected(t)
  <2>1. PICK from \in {"preflight", "send"} :
            Return(t, from, "false") /\ UNCHANGED <<retries, chainVars, waitVars>>
    BY <1>2 DEF PreflightFails, SendRejected
  <2>2. /\ stage[t] = from /\ stage'[t] = "done"
        /\ \A u \in Thread \ {t} : stage'[u] = stage[u] /\ result'[u] = result[u]
        /\ stage' \in [Thread -> Stage]
        /\ result'[t] = "false"
        /\ result' \in [Thread -> {"none", "true", "false", "threw"}]
    BY <1>0, <2>1, ReturnEffect
  <2>3. CallSound(t)'
    BY <1>0, <2>1, <2>2 DEF CallSound, HasReceipt, chainVars, waitVars
  <2>4. \A u \in Thread : CallSound(u)'
    BY <1>d, <2>1, <2>2, <2>3 DEF chainVars, waitVars
  <2> QED
    BY <1>0, <1>b, <2>1, <2>2, <2>4 DEF CallFacts, CallType, chainVars, waitVars
<1>3. CASE SendAccepted(t)
  <2>1. /\ stage[t] = "send" /\ stage'[t] = "receipt"
        /\ \A u \in Thread \ {t} : stage'[u] = stage[u]
        /\ stage' \in [Thread -> Stage]
    BY <1>0, <1>3, <1>a, AdvanceEffect DEF SendAccepted
  <2>2. UNCHANGED <<retries, result, slot, open, lostLogs, waitVars>> /\ tx' = [tx EXCEPT ![t] = "pending"]
    BY <1>3 DEF SendAccepted
  <2>3. CallSound(t)'
    BY <1>0, <2>1, <2>2 DEF CallSound, HasReceipt, waitVars
  <2>4. \A u \in Thread : CallSound(u)'
    BY <1>c, <1>d, <2>1, <2>2, <2>3 DEF waitVars
  <2> QED
    BY <1>0, <1>c, <2>1, <2>2, <2>4 DEF CallFacts, CallType
<1>4. CASE IpcFails(t)
  <2>1. PICK from \in {"preflight", "send", "receipt"} : Return(t, from, "threw")
    BY <1>4 DEF IpcFails
  <2>2. /\ stage[t] = from /\ stage'[t] = "done"
        /\ \A u \in Thread \ {t} : stage'[u] = stage[u] /\ result'[u] = result[u]
        /\ stage' \in [Thread -> Stage]
        /\ result'[t] = "threw"
        /\ result' \in [Thread -> {"none", "true", "false", "threw"}]
    BY <1>0, <2>1, ReturnEffect
  <2>3. UNCHANGED <<retries, slot, open, lostLogs, waitVars>>
    BY <1>4 DEF IpcFails
  <2>4. tx' = tx \/ (stage[t] = "send" /\ tx' = [tx EXCEPT ![t] = "pending"])
    BY <1>4 DEF IpcFails
  <2>5. /\ LogsOnce' /\ EntriesUsed' /\ LostSucceeded'
        /\ tx' \in [LogId -> Fate]
        /\ \A x \in LogId \ {t} : tx'[x] = tx[x]
    <3>1. CASE tx' = tx
      BY <1>0, <1>b, <2>3, <3>1 DEF CallType, waitVars
    <3>2. CASE stage[t] = "send" /\ tx' = [tx EXCEPT ![t] = "pending"]
      BY <1>c, <2>3, <3>2
    <3> QED
      BY <2>4, <3>1, <3>2
  <2>6. CallSound(t)'
    BY <1>0, <2>2, <2>3 DEF CallSound, HasReceipt, waitVars
  <2>7. \A u \in Thread : CallSound(u)'
    BY <1>d, <2>2, <2>3, <2>5, <2>6 DEF waitVars
  <2> QED
    BY <1>0, <2>2, <2>3, <2>5, <2>7 DEF CallFacts, CallType
<1>5. CASE ReceiptFound(t)
  <2>1. /\ stage[t] = "receipt" /\ stage'[t] = "await"
        /\ \A u \in Thread \ {t} : stage'[u] = stage[u]
        /\ stage' \in [Thread -> Stage]
    BY <1>0, <1>5, <1>a, AdvanceEffect DEF ReceiptFound
  <2>2. UNCHANGED <<retries, result, chainVars, eventLogMap, inbox, setting>>
    BY <1>5 DEF ReceiptFound, Call
  <2>3. /\ pc'[t] = "lock" /\ want'[t] = t /\ outcome'[t] = "none"
        /\ \A u \in Thread \ {t} : pc'[u] = pc[u] /\ want'[u] = want[u] /\ outcome'[u] = outcome[u]
    BY <1>0, <1>5 DEF ReceiptFound, Call, Goto, TypeOK
  <2>4. CallSound(t)'
    <3>1. HasReceipt(t)
      BY <1>5 DEF ReceiptFound
    <3> QED
      BY <1>0, <2>1, <2>2, <2>3, <3>1 DEF CallSound, HasReceipt, chainVars
  <2>5. \A u \in Thread : CallSound(u)'
    BY <1>d, <2>1, <2>2, <2>3, <2>4 DEF chainVars
  <2>6. \A u \in Thread : outcome'[u] = "log" <=> outcome[u] = "log"
    BY <1>0, <2>1, <2>3 DEF CallSound, HasReceipt
  <2> QED
    BY <1>0, <1>b, <2>1, <2>2, <2>5, <2>6 DEF CallFacts, CallType, chainVars
<1>6. CASE ReceiptMissing(t)
  <2>1. stage[t] = "receipt"
    BY <1>6 DEF ReceiptMissing, Return, Advance
  <2>2. /\ retries'[t] = retries[t] + 1
        /\ retries' \in [Thread -> 0..(MaxRetries + 1)]
        /\ \A u \in Thread \ {t} : retries'[u] = retries[u]
    <3>1. retries[t] <= MaxRetries /\ retries[t] \in Nat
      BY <1>0, <2>1 DEF CallSound, HasReceipt, CallType
    <3> QED
      BY <1>0, <1>6, <3>1 DEF ReceiptMissing, CallType
  <2>3. UNCHANGED <<chainVars, waitVars>>
    BY <1>6 DEF ReceiptMissing
  <2>4. /\ stage' \in [Thread -> Stage]
        /\ result' \in [Thread -> {"none", "true", "false", "threw"}]
        /\ \A u \in Thread \ {t} : stage'[u] = stage[u] /\ result'[u] = result[u]
        /\ \/ stage'[t] = "receipt" /\ retries'[t] <= MaxRetries /\ result'[t] = result[t]
           \/ stage'[t] = "done" /\ result'[t] = "false"
    <3>1. CASE retries'[t] <= MaxRetries
      BY <1>0, <1>6, <2>1, <3>1 DEF ReceiptMissing, CallType
    <3>2. CASE ~ (retries'[t] <= MaxRetries)
      BY <1>0, <1>6, <3>2, ReturnEffect DEF ReceiptMissing
    <3> QED
      BY <3>1, <3>2
  <2>5. CallSound(t)'
    BY <1>0, <2>1, <2>2, <2>3, <2>4 DEF CallSound, HasReceipt, chainVars, waitVars
  <2>6. \A u \in Thread : CallSound(u)'
    BY <1>d, <2>2, <2>3, <2>4, <2>5 DEF chainVars, waitVars
  <2> QED
    BY <1>0, <1>b, <2>2, <2>3, <2>4, <2>6 DEF CallFacts, CallType, chainVars, waitVars
<1>7. CASE LogReturned(t)
  <2>1. pc[t] = "idle" /\ UNCHANGED <<retries, chainVars, waitVars>>
    BY <1>7 DEF LogReturned
  <2>2. PICK value \in {"true", "threw"} :
            Return(t, "await", value) /\ value = IF outcome[t] = "log" THEN "true" ELSE "threw"
    BY <1>7 DEF LogReturned
  <2>3. /\ stage[t] = "await" /\ stage'[t] = "done"
        /\ \A u \in Thread \ {t} : stage'[u] = stage[u] /\ result'[u] = result[u]
        /\ stage' \in [Thread -> Stage]
        /\ result'[t] = value
        /\ result' \in [Thread -> {"none", "true", "false", "threw"}]
    BY <1>0, <2>2, ReturnEffect
  <2>4. CallSound(t)'
    BY <1>0, <2>1, <2>2, <2>3 DEF CallSound, HasReceipt, chainVars, waitVars
  <2>5. \A u \in Thread : CallSound(u)'
    BY <1>d, <2>1, <2>3, <2>4 DEF chainVars, waitVars
  <2> QED
    BY <1>0, <1>b, <2>1, <2>3, <2>5 DEF CallFacts, CallType, chainVars, waitVars
<1> QED
  BY <1>1, <1>2, <1>3, <1>4, <1>5, <1>6, <1>7 DEF CallStep

\* Another process sends, or a transaction fails.
LEMMA ChainStepFacts ==
    ASSUME CallInvariant, NEW id \in LogId, ForeignSend(id) \/ MineReverted(id)
    PROVE  CallFacts'
<1>0. CallType /\ LogsOnce /\ EntriesUsed /\ LostSucceeded
  BY DEF CallInvariant, CallFacts
<1>1. UNCHANGED <<callVars, slot, open, lostLogs, waitVars>>
  BY DEF ForeignSend, MineReverted
<1>2. /\ tx[id] \in {"unsent", "pending"}
      /\ tx' \in [LogId -> Fate]
      /\ \A x \in LogId \ {id} : tx'[x] = tx[x]
      /\ id \in Thread => tx[id] = "pending"
  BY <1>0 DEF ForeignSend, MineReverted, CallType, Fate
<1>3. \A x \in LogId : Reported(x) <=> Reported(x)'
  BY <1>1, <1>2 DEF Reported, ForeignSend, MineReverted
<1>4. LostSucceeded'
  BY <1>0, <1>1, <1>2 DEF LostSucceeded, CallType
<1>5. LogsOnce' /\ EntriesUsed'
  BY <1>0, <1>1, <1>3, LogsKept DEF waitVars
<1>6. ASSUME NEW t \in Thread PROVE CallSound(t)'
  <2>1. CallSound(t)
    BY DEF CallInvariant, CallFacts
  <2>2. stage[t] \in {"preflight", "send"} => t # id
    BY <1>2, <2>1 DEF CallSound, HasReceipt
  <2> QED
    BY <1>1, <1>2, <2>1, <2>2 DEF CallSound, HasReceipt, callVars, waitVars
<1> QED
  BY <1>0, <1>1, <1>2, <1>4, <1>5, <1>6 DEF CallFacts, CallType, callVars

\* A transaction succeeds.  Nobody can have its log yet, and from now on it is
\* either on its way or lost.
LEMMA MineOkFacts ==
    ASSUME CallInvariant, NEW id \in LogId, MineOk(id)
    PROVE  CallFacts'
<1>0. CallType /\ LogsOnce /\ EntriesUsed /\ LostSucceeded /\ TypeOK
  BY DEF CallInvariant, CallFacts, WaitInv
<1>1. tx[id] = "pending" /\ UNCHANGED <<callVars, slot>> /\ open' \subseteq Slot
  BY <1>0 DEF MineOk, CallType
<1>2. tx' = [tx EXCEPT ![id] = "ok"]
  BY DEF MineOk
<1>3. tx' \in [LogId -> Fate] /\ tx'[id] = "ok" /\ \A x \in LogId \ {id} : tx'[x] = tx[x]
  BY <1>0, <1>2 DEF CallType, Fate
<1>4. ~ Reported(id) /\ id \notin lostLogs
  BY <1>0, <1>1 DEF Reported, LostSucceeded
<1>5. ASSUME NEW t \in Thread, UNCHANGED <<pc, want, outcome>> PROVE CallSound(t)'
  <2>1. CallSound(t)
    BY DEF CallInvariant, CallFacts
  <2>2. stage[t] \in {"preflight", "send"} => t # id
    BY <1>1, <2>1 DEF CallSound, HasReceipt
  <2> QED
    BY <1>1, <1>3, <1>5, <2>1, <2>2 DEF CallSound, HasReceipt, callVars
<1>6. CASE Deliver(id) /\ UNCHANGED lostLogs
  <2>1. UNCHANGED <<eventLogMap, pc, want, outcome, setting, lostLogs>> /\ inbox' = Append(inbox, id)
    BY <1>6 DEF Deliver
  <2>2. /\ Len(inbox') = Len(inbox) + 1
        /\ \A i \in 1..Len(inbox) : inbox'[i] = inbox[i]
        /\ inbox'[Len(inbox) + 1] = id
        /\ DOMAIN inbox = 1..Len(inbox) /\ DOMAIN inbox' = 1..(Len(inbox) + 1)
        /\ Len(inbox) \in Nat
    BY <1>0, <2>1, AppendProperties DEF TypeOK
  <2>3. ~ Coming(id) /\ ~ HasLog(id) /\ \A t \in Thread : outcome[t] = "log" => t # id
    BY <1>0, <1>4 DEF LogsOnce
  <2>4. \A x \in LogId : /\ (HasLog(x)' <=> HasLog(x))
                         /\ (Coming(x)' <=> Coming(x) \/ x = id)
                         /\ (Reported(x)' <=> Reported(x) \/ x = id)
    <3>1. ASSUME NEW x \in LogId PROVE HasLog(x)' <=> HasLog(x)
      BY <2>1 DEF HasLog, EntryOf
    <3>2. ASSUME NEW x \in LogId PROVE Coming(x)' <=> Coming(x) \/ x = id
      BY <2>1, <2>2 DEF Coming
    <3>3. ASSUME NEW x \in LogId PROVE Reported(x)' <=> Reported(x) \/ x = id
      BY <1>3, <1>4, <2>1 DEF Reported
    <3> QED
      BY <3>1, <3>2, <3>3
  <2>5. LogsOnce'
    <3>1. \A x \in LogId : Coming(x)' => Reported(x)' /\ ~ HasLog(x)'
      BY <1>0, <2>3, <2>4 DEF LogsOnce
    <3>2. \A x \in LogId : HasLog(x)' => Reported(x)'
      BY <1>0, <2>4 DEF LogsOnce
    <3>3. \A t \in Thread : outcome'[t] = "log" => Reported(t)' /\ ~ HasLog(t)' /\ ~ Coming(t)'
      BY <1>0, <2>1, <2>3, <2>4 DEF LogsOnce
    <3>4. id # setting /\ \A i \in DOMAIN inbox : inbox[i] # id
      BY <2>3 DEF Coming
    <3>5. \A i, j \in DOMAIN inbox' : inbox'[i] = inbox'[j] => i = j
      BY <1>0, <2>2, <3>4 DEF LogsOnce
    <3>6. \A i \in DOMAIN inbox' : inbox'[i] # setting'
      BY <1>0, <2>1, <2>2, <3>4 DEF LogsOnce
    <3>7. \A x \in LogId : Reported(x)' => Coming(x)' \/ HasLog(x)' \/ Taken(x)'
      BY <1>0, <2>1, <2>4 DEF LogsOnce, Taken
    <3> QED
      BY <3>1, <3>2, <3>3, <3>5, <3>6, <3>7 DEF LogsOnce
  <2>6. EntriesUsed' /\ LostSucceeded'
    BY <1>0, <1>3, <2>1 DEF EntriesUsed, LostSucceeded, CallType
  <2>7. \A t \in Thread : CallSound(t)'
    BY <1>5, <2>1
  <2> QED
    BY <1>0, <1>1, <1>3, <2>1, <2>5, <2>6, <2>7 DEF CallFacts, CallType, callVars
<1>7. CASE lostLogs' = lostLogs \union {id} /\ UNCHANGED waitVars
  <2>1. \A x \in LogId : Reported(x) <=> Reported(x)'
    BY <1>3, <1>4, <1>7 DEF Reported
  <2>2. LogsOnce' /\ EntriesUsed'
    BY <1>0, <1>7, <2>1, LogsKept DEF waitVars
  <2>3. LostSucceeded'
    BY <1>0, <1>3, <1>7 DEF LostSucceeded, CallType
  <2>4. \A t \in Thread : CallSound(t)'
    BY <1>5, <1>7 DEF waitVars
  <2>5. lostLogs' \subseteq LogId
    BY <1>0, <1>7 DEF CallType
  <2> QED
    BY <1>0, <1>1, <1>3, <2>2, <2>3, <2>4, <2>5 DEF CallFacts, CallType, callVars
<1> QED
  BY <1>6, <1>7 DEF MineOk

-----------------------------------------------------------------------------
(* Steps of the event log manager                                          *)

\* A step of a thread that keeps its place inside getEventLog, or of the
\* listener between two logs, changes nothing for the calls.
LEMMA InsideFacts ==
    ASSUME CallInvariant, UNCHANGED <<callVars, chainVars, want, outcome, inbox, setting, eventLogMap>>,
           \A t \in Thread : pc[t] = "idle" <=> pc'[t] = "idle"
    PROVE  CallFacts'
<1>0. CallType /\ LogsOnce /\ EntriesUsed /\ LostSucceeded
  BY DEF CallInvariant, CallFacts
<1>1. LogsOnce' /\ EntriesUsed'
  BY <1>0, LogsKept DEF Reported, chainVars
<1>2. ASSUME NEW t \in Thread PROVE CallSound(t)'
  <2>1. CallSound(t)
    BY DEF CallInvariant, CallFacts
  <2> QED
    BY <2>1 DEF CallSound, HasReceipt, callVars, chainVars
<1> QED
  BY <1>0, <1>1, <1>2 DEF CallFacts, CallType, LostSucceeded, callVars, chainVars

\* A thread takes its log: the entry goes, and with it the only copy.
LEMMA TakenFacts ==
    ASSUME CallInvariant, NEW t \in Thread, NEW from \in {"register", "take"}, Goto(t, from, "idle"),
           HasLog(want[t]), eventLogMap' = Without(want[t]), outcome' = [outcome EXCEPT ![t] = "log"],
           UNCHANGED <<callVars, chainVars, want, inbox, setting>>
    PROVE  CallFacts'
<1>0. CallType /\ LogsOnce /\ EntriesUsed /\ LostSucceeded /\ TypeOK /\ CallSound(t)
  BY DEF CallInvariant, CallFacts, WaitInv
<1>1. /\ pc[t] = from /\ pc'[t] = "idle"
      /\ \A u \in Thread \ {t} : pc'[u] = pc[u]
  BY <1>0, GotoEffect
<1>2. stage[t] = "await" /\ want[t] = t /\ t \in LogId
  BY <1>0, <1>1 DEF CallSound, HasReceipt
<1>3. /\ EntryOf(t)' = NewEntry
      /\ \A x : x # t => EntryOf(x)' = EntryOf(x)
      /\ DOMAIN eventLogMap' = DOMAIN eventLogMap \ {t}
      /\ \A x \in DOMAIN eventLogMap \ {t} : eventLogMap'[x] = eventLogMap[x]
  BY <1>2, EntryOfErase
<1>4. outcome'[t] = "log" /\ \A u \in Thread \ {t} : outcome'[u] = outcome[u]
  BY <1>0 DEF TypeOK
<1>5. \A x \in LogId : /\ (HasLog(x)' <=> HasLog(x) /\ x # t)
                       /\ (Coming(x)' <=> Coming(x))
                       /\ (Reported(x)' <=> Reported(x))
  BY <1>3 DEF HasLog, Coming, Reported, NewEntry, chainVars
<1>6. HasLog(t) /\ Reported(t) /\ ~ Coming(t)
  BY <1>0, <1>2 DEF LogsOnce
<1>7. LogsOnce'
  <2>1. \A x \in LogId : Coming(x)' => Reported(x)' /\ ~ HasLog(x)'
    BY <1>0, <1>5 DEF LogsOnce
  <2>2. \A x \in LogId : HasLog(x)' => Reported(x)'
    BY <1>0, <1>5 DEF LogsOnce
  <2>3. \A u \in Thread : outcome'[u] = "log" => Reported(u)' /\ ~ HasLog(u)' /\ ~ Coming(u)'
    BY <1>0, <1>2, <1>4, <1>5, <1>6 DEF LogsOnce
  <2>4. \A x \in LogId : Reported(x)' => Coming(x)' \/ HasLog(x)' \/ Taken(x)'
    BY <1>0, <1>4, <1>5 DEF LogsOnce, Taken
  <2> QED
    BY <1>0, <2>1, <2>2, <2>3, <2>4 DEF LogsOnce
<1>8. EntriesUsed'
  BY <1>0, <1>3 DEF EntriesUsed
<1>9. ASSUME NEW u \in Thread PROVE CallSound(u)'
  <2>1. CallSound(u)
    BY DEF CallInvariant, CallFacts
  <2>2. CASE u = t
    BY <1>1, <1>2, <1>4, <2>1, <2>2 DEF CallSound, HasReceipt, callVars, chainVars
  <2>3. CASE u # t
    BY <1>1, <1>4, <2>1, <2>3 DEF CallSound, HasReceipt, callVars, chainVars
  <2> QED
    BY <2>2, <2>3
<1> QED
  BY <1>0, <1>7, <1>8, <1>9 DEF CallFacts, CallType, LostSucceeded, callVars, chainVars

\* A thread leaves its flag for a log that is not there.
LEMMA RegisteredFacts ==
    ASSUME CallInvariant, NEW t \in Thread, RegisterAndWait(t), UNCHANGED <<callVars, chainVars>>
    PROVE  CallFacts'
<1>0. CallType /\ LogsOnce /\ EntriesUsed /\ LostSucceeded /\ TypeOK
  BY DEF CallInvariant, CallFacts, WaitInv
<1>1. /\ pc[t] = "register" /\ pc'[t] = "test"
      /\ \A u \in Thread \ {t} : pc'[u] = pc[u]
  BY <1>0, GotoEffect DEF RegisterAndWait
<1>2. ~ HasLog(want[t]) /\ UNCHANGED <<want, outcome, inbox, setting>>
  BY DEF RegisterAndWait
<1> DEFINE e == [NewEntry EXCEPT !.hasWaitingThread = TRUE]
<1>3. e.hasWaitingThread /\ ~ e.hasEventLog
  BY DEF NewEntry
<1>4. eventLogMap' = With(want[t], e)
  BY DEF RegisterAndWait
<1>5. /\ EntryOf(want[t])' = e
      /\ \A x : x # want[t] => EntryOf(x)' = EntryOf(x)
      /\ DOMAIN eventLogMap' = DOMAIN eventLogMap \union {want[t]}
      /\ eventLogMap'[want[t]] = e
      /\ \A x \in DOMAIN eventLogMap \ {want[t]} : eventLogMap'[x] = eventLogMap[x]
  <2>1. want'[t] = want[t]
    BY <1>2
  <2> HIDE DEF e
  <2> QED
    BY <1>4, <2>1, EntryOfPut
<1>6. \A x \in LogId : /\ (HasLog(x)' <=> HasLog(x))
                       /\ (Coming(x)' <=> Coming(x))
                       /\ (Reported(x)' <=> Reported(x))
  <2> HIDE DEF e
  <2> QED
    BY <1>2, <1>3, <1>5 DEF HasLog, Coming, Reported, chainVars
<1>7. LogsOnce'
  BY <1>0, <1>2, <1>6 DEF LogsOnce, Taken
<1>8. EntriesUsed'
  <2> HIDE DEF e
  <2> QED
    BY <1>0, <1>3, <1>5 DEF EntriesUsed
<1>9. ASSUME NEW u \in Thread PROVE CallSound(u)'
  <2>1. CallSound(u)
    BY DEF CallInvariant, CallFacts
  <2> QED
    BY <1>1, <1>2, <2>1 DEF CallSound, HasReceipt, callVars, chainVars
<1> QED
  BY <1>0, <1>7, <1>8, <1>9 DEF CallFacts, CallType, LostSucceeded, callVars, chainVars

\* Nobody is ever told that another thread waits for its log: each hash has one
\* thread that asks for it.
LEMMA NeverBusy ==
    ASSUME CallInvariant, NEW t \in Thread
    PROVE  ~ RegisterBusy(t)
<1> SUFFICES ASSUME RegisterBusy(t) PROVE FALSE
  OBVIOUS
<1>1. pc[t] = "register" /\ EntryOf(want[t]).hasWaitingThread
  BY DEF RegisterBusy, Goto
<1>2. want[t] = t /\ t \in LogId
  BY <1>1 DEF CallInvariant, CallFacts, CallSound
<1>3. PICK u \in Thread : Registered(u) /\ want[u] = t
  BY <1>1, <1>2 DEF CallInvariant, WaitInv, WaiterFlagExact
<1>4. pc[u] # "idle" /\ u # t
  BY <1>1, <1>3 DEF Registered
<1>5. want[u] = u
  BY <1>4 DEF CallInvariant, CallFacts, CallSound
<1> QED
  BY <1>3, <1>4, <1>5

\* The listener takes the next log from those it has read.
LEMMA NextLogFacts ==
    ASSUME CallInvariant, NextLog, UNCHANGED <<callVars, chainVars>>
    PROVE  CallFacts'
<1>0. CallType /\ LogsOnce /\ EntriesUsed /\ LostSucceeded /\ TypeOK
  BY DEF CallInvariant, CallFacts, WaitInv
<1>1. /\ setting = NoId /\ inbox # <<>>
      /\ setting' = Head(inbox) /\ inbox' = Tail(inbox)
      /\ UNCHANGED <<eventLogMap, pc, want, outcome>>
  BY DEF NextLog
<1>2. inbox \in Seq(LogId)
  BY <1>0 DEF TypeOK
<1>3. /\ Len(inbox) \in Nat \ {0} /\ DOMAIN inbox = 1..Len(inbox)
      /\ DOMAIN inbox' = 1..(Len(inbox) - 1)
      /\ \A i \in 1..(Len(inbox) - 1) : inbox'[i] = inbox[i + 1]
      /\ setting' = inbox[1]
      /\ \A i \in DOMAIN inbox : inbox[i] \in LogId
  BY <1>1, <1>2
<1>4. ASSUME NEW x \in LogId PROVE Coming(x)' <=> Coming(x)
  <2>1. x # setting
    BY <1>1
  <2>2. ASSUME NEW i \in DOMAIN inbox, inbox[i] = x PROVE Coming(x)'
    <3>1. CASE i = 1
      BY <1>3, <2>2, <3>1 DEF Coming
    <3>2. CASE i # 1
      <4>1. i - 1 \in DOMAIN inbox' /\ inbox'[i - 1] = x
        BY <1>3, <2>2, <3>2
      <4> QED
        BY <4>1 DEF Coming
    <3> QED
      BY <3>1, <3>2
  <2>3. ASSUME Coming(x)' PROVE \E i \in DOMAIN inbox : inbox[i] = x
    <3>1. CASE setting' = x
      <4>1. 1 \in DOMAIN inbox /\ inbox[1] = x
        BY <1>3, <3>1
      <4> QED
        BY <4>1
    <3>2. CASE \E i \in DOMAIN inbox' : inbox'[i] = x
      BY <1>3, <3>2
    <3> QED
      BY <2>3, <3>1, <3>2 DEF Coming
  <2> QED
    BY <2>1, <2>2, <2>3 DEF Coming
<1>5. \A x \in LogId : (HasLog(x)' <=> HasLog(x)) /\ (Reported(x)' <=> Reported(x))
  BY <1>1 DEF HasLog, EntryOf, Reported, chainVars
<1>6. /\ \A i, j \in DOMAIN inbox' : inbox'[i] = inbox'[j] => i = j
      /\ \A i \in DOMAIN inbox' : inbox'[i] # setting'
  <2>1. \A i, j \in DOMAIN inbox : inbox[i] = inbox[j] => i = j
    BY <1>0 DEF LogsOnce
  <2>2. ASSUME NEW i \in DOMAIN inbox'
        PROVE  i + 1 \in DOMAIN inbox /\ inbox'[i] = inbox[i + 1] /\ i + 1 # 1 /\ i \in Int
    BY <1>3
  <2>3. ASSUME NEW i \in DOMAIN inbox', NEW j \in DOMAIN inbox', inbox'[i] = inbox'[j] PROVE i = j
    <3>1. inbox[i + 1] = inbox[j + 1]
      BY <2>2, <2>3
    <3>2. i + 1 = j + 1
      BY <2>1, <2>2, <3>1
    <3> QED
      BY <2>2, <3>2
  <2>4. ASSUME NEW i \in DOMAIN inbox' PROVE inbox'[i] # setting'
    <3>1. 1 \in DOMAIN inbox
      BY <1>3
    <3> QED
      BY <1>3, <2>1, <2>2, <3>1
  <2> QED
    BY <2>3, <2>4
<1>7. LogsOnce'
  <2>1. \A x \in LogId : Coming(x)' => Reported(x)' /\ ~ HasLog(x)'
    BY <1>0, <1>4, <1>5 DEF LogsOnce
  <2>2. \A x \in LogId : HasLog(x)' => Reported(x)'
    BY <1>0, <1>5 DEF LogsOnce
  <2>3. \A t \in Thread : outcome'[t] = "log" => Reported(t)' /\ ~ HasLog(t)' /\ ~ Coming(t)'
    BY <1>0, <1>1, <1>4, <1>5 DEF LogsOnce
  <2>4. \A x \in LogId : Reported(x)' => Coming(x)' \/ HasLog(x)' \/ Taken(x)'
    BY <1>0, <1>1, <1>4, <1>5 DEF LogsOnce, Taken
  <2> QED
    BY <1>6, <2>1, <2>2, <2>3, <2>4 DEF LogsOnce
<1>8. ASSUME NEW t \in Thread PROVE CallSound(t)'
  <2>1. CallSound(t)
    BY DEF CallInvariant, CallFacts
  <2> QED
    BY <1>1, <2>1 DEF CallSound, HasReceipt, callVars, chainVars
<1> QED
  BY <1>0, <1>1, <1>7, <1>8 DEF CallFacts, CallType, EntriesUsed, LostSucceeded, callVars, chainVars

\* The listener stores a log.
LEMMA SetEventLogFacts ==
    ASSUME CallInvariant, SetEventLog, UNCHANGED <<callVars, chainVars>>
    PROVE  CallFacts'
<1>0. CallType /\ LogsOnce /\ EntriesUsed /\ LostSucceeded /\ TypeOK
  BY DEF CallInvariant, CallFacts, WaitInv
<1>1. setting \in LogId /\ setting' = NoId /\ UNCHANGED <<want, outcome, inbox>>
  BY <1>0 DEF SetEventLog, CallInvariant, WaitInv, Bookkeeping, TypeOK
<1> DEFINE e == [EntryOf(setting) EXCEPT !.hasEventLog = TRUE]
<1>2. e.hasEventLog
  BY <1>0, EntryOfType DEF Entry
<1>3. eventLogMap' = With(setting, e)
  BY DEF SetEventLog
<1>4. PICK id \in LogId : id = setting
  BY <1>1
<1>5. /\ EntryOf(id)' = e
      /\ \A x : x # id => EntryOf(x)' = EntryOf(x)
      /\ DOMAIN eventLogMap' = DOMAIN eventLogMap \union {id}
      /\ eventLogMap'[id] = e
      /\ \A x \in DOMAIN eventLogMap \ {id} : eventLogMap'[x] = eventLogMap[x]
  <2> HIDE DEF e
  <2> QED
    BY <1>3, <1>4, EntryOfPut
<1>6. \A x \in LogId : (HasLog(x)' <=> HasLog(x) \/ x = id) /\ (Reported(x)' <=> Reported(x))
  <2> HIDE DEF e
  <2> QED
    BY <1>2, <1>5 DEF HasLog, Reported, chainVars
<1>7. \A x \in LogId : Coming(x)' <=> Coming(x) /\ x # id
  <2>1. ASSUME NEW x \in LogId PROVE Coming(x)' <=> \E i \in DOMAIN inbox : inbox[i] = x
    BY <1>1, <2>1 DEF Coming
  <2>2. \A i \in DOMAIN inbox : inbox[i] # id
    BY <1>0, <1>4 DEF LogsOnce
  <2>3. ASSUME NEW x \in LogId
        PROVE  Coming(x) /\ x # id <=> \E i \in DOMAIN inbox : inbox[i] = x
    BY <1>4, <2>2, <2>3 DEF Coming
  <2> QED
    BY <2>1, <2>3
<1>8. Coming(id)
  BY <1>4 DEF Coming
<1>9. LogsOnce'
  <2>1. \A x \in LogId : Coming(x)' => Reported(x)' /\ ~ HasLog(x)'
    BY <1>0, <1>6, <1>7 DEF LogsOnce
  <2>2. \A x \in LogId : HasLog(x)' => Reported(x)'
    BY <1>0, <1>6, <1>8 DEF LogsOnce
  <2>3. \A t \in Thread : outcome'[t] = "log" => Reported(t)' /\ ~ HasLog(t)' /\ ~ Coming(t)'
    BY <1>0, <1>1, <1>6, <1>7, <1>8 DEF LogsOnce
  <2>4. \A i \in DOMAIN inbox : inbox[i] \in LogId
    BY <1>0 DEF TypeOK
  <2>5. \A i \in DOMAIN inbox' : inbox'[i] # setting'
    BY <1>1, <2>4
  <2>6. \A i, j \in DOMAIN inbox' : inbox'[i] = inbox'[j] => i = j
    BY <1>0, <1>1 DEF LogsOnce
  <2>7. \A x \in LogId : Reported(x)' => Coming(x)' \/ HasLog(x)' \/ Taken(x)'
    BY <1>0, <1>1, <1>6, <1>7 DEF LogsOnce, Taken
  <2> QED
    BY <2>1, <2>2, <2>3, <2>5, <2>6, <2>7 DEF LogsOnce
<1>10. EntriesUsed'
  <2> HIDE DEF e
  <2> QED
    BY <1>0, <1>2, <1>5 DEF EntriesUsed
<1>11. \A t \in Thread : pc[t] = "idle" <=> pc'[t] = "idle"
  BY DEF SetEventLog, Sleepers
<1>12. ASSUME NEW t \in Thread PROVE CallSound(t)'
  <2>1. CallSound(t)
    BY DEF CallInvariant, CallFacts
  <2> QED
    BY <1>1, <1>11, <2>1 DEF CallSound, HasReceipt, callVars, chainVars
<1> QED
  BY <1>0, <1>9, <1>10, <1>12 DEF CallFacts, CallType, LostSucceeded, callVars, chainVars

-----------------------------------------------------------------------------
(* Every step                                                              *)

LEMMA ManagerStepFacts ==
    ASSUME CallInvariant, ManagerStep
    PROVE  CallFacts'
<1>0. UNCHANGED <<callVars, chainVars>> /\ TypeOK
  BY DEF ManagerStep, CallInvariant, WaitInv
<1>1. ASSUME NEW t \in Thread, ThreadStep(t) \/ WakeSpuriously(t) \/ RaceCrash(t) PROVE CallFacts'
  <2>1. CASE RegisterBusy(t)
    BY <2>1, NeverBusy
  <2>2. CASE RegisterAndTake(t)
    BY <1>0, <2>2, TakenFacts DEF RegisterAndTake
  <2>3. CASE RegisterAndWait(t)
    BY <1>0, <2>3, RegisteredFacts
  <2>4. CASE Take(t)
    <3>1. pc[t] = "take"
      BY <2>4 DEF Take, Goto
    <3>2. HasLog(want[t])
      BY <3>1 DEF CallInvariant, WaitInv, TakeFindsLog
    <3> QED
      BY <1>0, <2>4, <3>2, TakenFacts DEF Take
  <2>5. ASSUME UNCHANGED <<want, outcome, inbox, setting, eventLogMap>>,
               NEW from \in PC \ {"idle"}, NEW to \in PC \ {"idle"}, Goto(t, from, to)
        PROVE  CallFacts'
    <3>1. \A u \in Thread : pc[u] = "idle" <=> pc'[u] = "idle"
      BY <1>0, <2>5, GotoEffect
    <3> QED
      BY <1>0, <2>5, <3>1, InsideFacts
  <2>6. CASE Lock(t)
    BY <2>5, <2>6 DEF Lock, PC
  <2>7. CASE Test(t)
    <3>1. PICK to \in {"relock", "block"} : Goto(t, "test", to)
      BY <2>7 DEF Test
    <3> QED
      BY <2>5, <2>7, <3>1 DEF Test, PC
  <2>8. CASE Block(t)
    BY <2>5, <2>8 DEF Block, PC
  <2>9. CASE Relock(t)
    BY <2>5, <2>9 DEF Relock, PC
  <2>10. CASE WakeSpuriously(t)
    BY <2>5, <2>10 DEF WakeSpuriously, PC
  <2>11. CASE RaceCrash(t)
    BY <1>0, <2>11, InsideFacts DEF RaceCrash
  <2> QED
    BY <1>1, <2>1, <2>2, <2>3, <2>4, <2>6, <2>7, <2>8, <2>9, <2>10, <2>11 DEF ThreadStep, Register
<1>2. CASE NextLog
  BY <1>0, <1>2, NextLogFacts
<1>3. CASE SetLock
  BY <1>0, <1>3, InsideFacts DEF SetLock
<1>4. CASE SetEventLog
  BY <1>0, <1>4, SetEventLogFacts
<1> QED
  BY <1>1, <1>2, <1>3, <1>4 DEF ManagerStep, ListenerStep

\* Seen from the event log manager, a call is a caller like any other and a
\* mined transaction is a log the node delivers.
LEMMA WaitInvKept ==
    ASSUME WaitInv, [CallNext]_allVars
    PROVE  WaitInv'
<1>0. TypeOK /\ Bookkeeping
  BY DEF WaitInv
<1>1. CASE UNCHANGED waitVars
  BY <1>1, WaitInvStep
<1>2. CASE ListenerDies
  BY <1>0, <1>2, AsideInv DEF ListenerDies, TypeOK, Bookkeeping
<1>3. CASE ~ crashed /\ ManagerStep
  BY <1>3, WaitInvStep DEF ManagerStep, Next
<1>4. ASSUME ~ crashed, NEW t \in Thread, CallStep(t) \/ IpcFails(t) PROVE WaitInv'
  <2>1. CASE ReceiptFound(t)
    <3>1. t \in LogId /\ Call(t, t)
      BY <2>1 DEF ReceiptFound
    <3> QED
      BY <3>1, CallInv
  <2> QED
    BY <1>1, <1>4, <2>1 DEF CallStep, IpcFails, PreflightPasses, PreflightFails, SendAccepted, SendRejected,
       ReceiptMissing, LogReturned
<1>5. ASSUME ~ crashed, NEW id \in LogId, ForeignSend(id) \/ MineOk(id) \/ MineReverted(id) PROVE WaitInv'
  <2>1. CASE Deliver(id)
    BY <1>5, <2>1, WaitInvStep DEF Next
  <2> QED
    BY <1>1, <1>5, <2>1 DEF ForeignSend, MineOk, MineReverted
<1> QED
  BY <1>1, <1>2, <1>3, <1>4, <1>5 DEF CallNext, allVars

LEMMA CallInvariantStep == CallInvariant /\ [CallNext]_allVars => CallInvariant'
<1> SUFFICES ASSUME CallInvariant, [CallNext]_allVars PROVE CallInvariant'
  OBVIOUS
<1>1. WaitInv'
  BY WaitInvKept DEF CallInvariant
<1>2. CallFacts'
  <2>1. CASE UNCHANGED allVars
    BY <2>1, InsideFacts DEF allVars, waitVars
  <2>2. CASE ListenerDies
    BY <2>2, InsideFacts DEF ListenerDies
  <2> QED
    BY <2>1, <2>2, CallStepFacts, ManagerStepFacts, ChainStepFacts, MineOkFacts DEF CallNext
<1> QED
  BY <1>1, <1>2 DEF CallInvariant

LEMMA CallInvariantHolds == CallSpec => []CallInvariant
<1>1. CallInit => CallInvariant
  BY CallFactsInit, WaitInvInit DEF CallInit, CallInvariant
<1> QED
  BY <1>1, CallInvariantStep, PTL DEF CallSpec

-----------------------------------------------------------------------------
(* The theorems                                                            *)

\* Every stage, counter, fate and entry is one the code knows; no call asks for
\* more than MaxRetries + 1 receipts.
THEOREM CallTypeCorrect == CallSpec => []CallTypeOK
<1>1. CallInvariant => CallTypeOK
  BY DEF CallInvariant, CallFacts, CallType, WaitInv, CallTypeOK
<1> QED
  BY <1>1, CallInvariantHolds, PTL

\* A call that returned true got the log of its own transaction, which is on the
\* chain and succeeded, although contract_helper accepts any receipt.
THEOREM TrueIsExecuted == CallSpec => []TrueMeansExecuted
<1>1. CallInvariant => TrueMeansExecuted
  BY DEF CallInvariant, CallFacts, CallSound, LogsOnce, Reported, TrueMeansExecuted
<1> QED
  BY <1>1, CallInvariantHolds, PTL

\* An entry of eventLogMap without a waiter is the log of a transaction that
\* succeeded, whose sender has not asked yet, gave up, or is another process: no
\* call that returned its log leaves an entry behind.
THEOREM EntriesExplained == CallSpec => []EntriesAccounted
<1>1. ASSUME CallInvariant PROVE EntriesAccounted
  <2> SUFFICES ASSUME NEW id \in DOMAIN eventLogMap, ~ eventLogMap[id].hasWaitingThread
               PROVE  /\ eventLogMap[id].hasEventLog
                      /\ tx[id] = "ok"
                      /\ id \in Thread =>
                            \/ stage[id] = "receipt"
                            \/ stage[id] = "await" /\ pc[id] \in {"lock", "register"}
                            \/ result[id] \in {"false", "threw"}
    BY DEF EntriesAccounted
  <2>1. TypeOK /\ CallType /\ LogsOnce /\ EntriesUsed /\ WaiterFlagExact
    BY <1>1 DEF CallInvariant, CallFacts, WaitInv
  <2>2. eventLogMap[id].hasEventLog /\ id \in LogId
    BY <2>1 DEF EntriesUsed, TypeOK
  <2>3. HasLog(id) /\ ~ EntryOf(id).hasWaitingThread
    BY <2>2 DEF HasLog, EntryOf
  <2>4. tx[id] = "ok"
    BY <2>1, <2>2, <2>3 DEF LogsOnce, Reported
  <2>5. ASSUME id \in Thread
        PROVE  \/ stage[id] = "receipt"
               \/ stage[id] = "await" /\ pc[id] \in {"lock", "register"}
               \/ result[id] \in {"false", "threw"}
    <3>1. CallSound(id) /\ stage[id] \in Stage /\ pc[id] \in PC
      BY <1>1, <2>1, <2>5 DEF CallInvariant, CallFacts, CallType, TypeOK
    <3>2. outcome[id] # "log"
      BY <2>1, <2>3, <2>5 DEF LogsOnce
    <3>3. Registered(id) => want[id] # id
      BY <2>1, <2>2, <2>3, <2>5 DEF WaiterFlagExact
    <3> QED
      BY <2>4, <3>1, <3>2, <3>3 DEF CallSound, HasReceipt, Stage, PC, Registered
  <2> QED
    BY <2>2, <2>4, <2>5
<1> QED
  BY <1>1, CallInvariantHolds, PTL

-----------------------------------------------------------------------------
(* Calls that do not return                                                *)

\* Every step is one of the manager's, or ends the process.
LEMMA ManagerNext ==
    ASSUME [CallNext]_allVars
    PROVE  [Next]_waitVars \/ UNCHANGED <<pc, mtx>>
<1>1. ASSUME NEW t \in Thread, ~ crashed, CallStep(t) \/ IpcFails(t) PROVE [Next]_waitVars
  <2>1. CASE ReceiptFound(t)
    BY <1>1, <2>1 DEF ReceiptFound, Next
  <2> QED
    BY <1>1, <2>1 DEF CallStep, IpcFails, PreflightPasses, PreflightFails, SendAccepted, SendRejected,
       ReceiptMissing, LogReturned
<1>2. ASSUME NEW id \in LogId, ~ crashed, ForeignSend(id) \/ MineOk(id) \/ MineReverted(id) PROVE [Next]_waitVars
  BY <1>2 DEF ForeignSend, MineOk, MineReverted, Next
<1>3. ASSUME ManagerStep, ~ crashed PROVE Next
  BY <1>3 DEF ManagerStep, Next
<1>4. ASSUME ListenerDies PROVE UNCHANGED <<pc, mtx>>
  BY <1>4 DEF ListenerDies
<1> QED
  BY <1>1, <1>2, <1>3, <1>4 DEF CallNext, allVars

LEMMA HolderKept == CallInvariant /\ HolderInside /\ [CallNext]_allVars => HolderInside'
<1> SUFFICES ASSUME CallInvariant, HolderInside, [CallNext]_allVars PROVE HolderInside'
  OBVIOUS
<1>1. TypeOK
  BY DEF CallInvariant, WaitInv
<1>2. CASE UNCHANGED <<pc, mtx>>
  BY <1>2 DEF HolderInside, Inside
<1> QED
  BY <1>1, <1>2, ManagerNext, HolderStep

LEMMA HolderHolds == CallSpec => []HolderInside
<1>1. CallInit => HolderInside
  BY DEF CallInit, Init, HolderInside, Inside
<1> QED
  BY <1>1, HolderKept, CallInvariantHolds, PTL DEF CallSpec

\* When nothing moves any more, a call that has not returned sleeps, and the
\* transaction reverted, its log was lost, or its notification came in the window
\* before cv.wait(): neither a mutex nor a log that is somewhere else holds it.
THEOREM QuietCallsExplained == CallSpec => []QuietExplained
<1>1. ASSUME CallInvariant, HolderInside PROVE QuietExplained
  <2> SUFFICES ASSUME ~ ListenerCanRun, \A u \in Thread : ~ CanRun(u),
                      NEW t \in Thread, stage[t] # "done", tx[t] # "reverted", t \notin lostLogs
               PROVE  Stranded(t)
    BY DEF QuietExplained
  <2>0. LogsOnce /\ TypeOK /\ CallSound(t) /\ t \in LogId
    BY <1>1 DEF CallInvariant, CallFacts, WaitInv
  <2>1. ASSUME NEW u \in Thread, mtx = u PROVE FALSE
    <3>1. Inside(u) /\ CallSound(u)
      BY <1>1, <2>1 DEF HolderInside, CallInvariant, CallFacts
    <3>2. stage[u] = "await"
      BY <3>1 DEF Inside, CallSound
    <3> QED
      BY <3>1, <3>2 DEF CanRun, Inside
  <2>2. mtx # Listener
    BY <1>1 DEF CallInvariant, WaitInv, Bookkeeping, ListenerCanRun
  <2>3. mtx = Nobody
    BY <2>0, <2>1, <2>2 DEF TypeOK
  <2>4. setting = NoId /\ inbox = <<>>
    BY <2>3 DEF ListenerCanRun
  <2>5. pc[t] = "asleep"
    BY <2>3 DEF CanRun
  <2>6. stage[t] = "await" /\ want[t] = t /\ outcome[t] = "none" /\ HasReceipt(t)
    BY <2>0, <2>5 DEF CallSound
  <2>7. Reported(t)
    BY <2>6 DEF HasReceipt, Reported
  <2>8. ~ Coming(t) /\ ~ Taken(t)
    <3>1. DOMAIN inbox = {} /\ t # NoId
      BY <2>0, <2>4
    <3> QED
      BY <2>4, <2>6, <3>1 DEF Coming, Taken
  <2>9. HasLog(t)
    BY <2>0, <2>7, <2>8 DEF LogsOnce
  <2> QED
    BY <2>5, <2>6, <2>9 DEF Stranded
<1> QED
  BY <1>1, CallInvariantHolds, HolderHolds, PTL

\* The log of id is in one place: among those the listener has read, in the
\* running setEventLog, in the map, or with the call it belongs to.
InOnePlace(id) ==
    /\ Coming(id) \/ HasLog(id) \/ Taken(id)
    /\ ~ (Coming(id) /\ HasLog(id)) /\ ~ (Coming(id) /\ Taken(id)) /\ ~ (HasLog(id) /\ Taken(id))
    /\ \A i, j \in DOMAIN inbox : inbox[i] = id /\ inbox[j] = id => i = j
    /\ \A i \in DOMAIN inbox : ~ (inbox[i] = id /\ setting = id)

\* Each log the node delivered is in one place, and no other log is anywhere.
LogsConserved == \A id \in LogId :
    IF Reported(id) THEN InOnePlace(id) ELSE ~ Coming(id) /\ ~ HasLog(id) /\ ~ Taken(id)

\* From the node to the call that sent it, a log the node delivered is neither
\* lost nor doubled, whatever the listener and the calls do in between; and what
\* has no log is never taken to have one.
THEOREM LogsInOnePlace == CallSpec => []LogsConserved
<1>1. ASSUME CallInvariant PROVE LogsConserved
  <2> SUFFICES ASSUME NEW id \in LogId
               PROVE  IF Reported(id) THEN InOnePlace(id) ELSE ~ Coming(id) /\ ~ HasLog(id) /\ ~ Taken(id)
    BY DEF LogsConserved
  <2>1. LogsOnce
    BY <1>1 DEF CallInvariant, CallFacts
  <2>2. Taken(id) => Reported(id) /\ ~ HasLog(id) /\ ~ Coming(id)
    BY <2>1 DEF LogsOnce, Taken
  <2>3. /\ Coming(id) => Reported(id) /\ ~ HasLog(id)
        /\ HasLog(id) => Reported(id)
        /\ Reported(id) => Coming(id) \/ HasLog(id) \/ Taken(id)
        /\ \A i, j \in DOMAIN inbox : inbox[i] = id /\ inbox[j] = id => i = j
        /\ \A i \in DOMAIN inbox : ~ (inbox[i] = id /\ setting = id)
    BY <2>1 DEF LogsOnce
  <2> QED
    BY <2>2, <2>3 DEF InOnePlace
<1> QED
  BY <1>1, CallInvariantHolds, PTL

-----------------------------------------------------------------------------
(* Calls for the same slot                                                 *)

\* The slots that serve one call only have served it.
SlotsServed ==
    /\ CallType
    /\ \A id \in LogId : tx[id] = "ok" /\ slot[id] \in OnceSlot => slot[id] \notin open
    /\ \A id, other \in LogId :
          tx[id] = "ok" /\ tx[other] = "ok" /\ slot[id] = slot[other] /\ slot[id] \in OnceSlot => id = other

LEMMA SlotsServedStep == CallInvariant /\ CallInvariant' /\ SlotsServed /\ [CallNext]_allVars => SlotsServed'
<1> SUFFICES ASSUME CallInvariant, CallInvariant', SlotsServed, [CallNext]_allVars PROVE SlotsServed'
  OBVIOUS
<1>0. CallType'
  BY DEF CallInvariant, CallFacts
<1>1. ASSUME UNCHANGED <<slot, open>>, \A id \in LogId : tx'[id] = "ok" => tx[id] = "ok"
      PROVE  SlotsServed'
  BY <1>0, <1>1 DEF SlotsServed
<1>2. ASSUME NEW id \in LogId, tx' = [tx EXCEPT ![id] = "pending"] \/ tx' = [tx EXCEPT ![id] = "reverted"]
      PROVE  \A x \in LogId : tx'[x] = "ok" => tx[x] = "ok"
  BY <1>2 DEF SlotsServed, CallType
<1>3. ASSUME NEW t \in Thread, CallStep(t) \/ IpcFails(t) PROVE SlotsServed'
  <2>1. t \in LogId /\ UNCHANGED <<slot, open>> /\ (tx' = tx \/ tx' = [tx EXCEPT ![t] = "pending"])
    BY <1>3 DEF CallStep, IpcFails, PreflightPasses, PreflightFails, SendAccepted, SendRejected, ReceiptFound,
       ReceiptMissing, LogReturned, chainVars
  <2> QED
    BY <1>1, <1>2, <2>1
<1>4. ASSUME NEW id \in LogId, ForeignSend(id) \/ MineReverted(id) PROVE SlotsServed'
  BY <1>1, <1>2, <1>4 DEF ForeignSend, MineReverted
<1>5. ASSUME NEW id \in LogId, MineOk(id) PROVE SlotsServed'
  <2>1. /\ tx[id] = "pending" /\ slot[id] \in open /\ slot' = slot
        /\ open' = open \ ({slot[id]} \intersect OnceSlot)
        /\ tx' = [tx EXCEPT ![id] = "ok"]
    BY <1>5 DEF MineOk
  <2>2. tx'[id] = "ok" /\ \A x \in LogId \ {id} : tx'[x] = tx[x]
    BY <2>1 DEF SlotsServed, CallType
  <2>3. \A x \in LogId \ {id} : tx[x] = "ok" /\ slot[x] \in OnceSlot => slot[x] # slot[id]
    BY <2>1 DEF SlotsServed
  <2>4. \A x \in LogId : tx'[x] = "ok" /\ slot'[x] \in OnceSlot => slot'[x] \notin open'
    BY <2>1, <2>2 DEF SlotsServed
  <2>5. ASSUME NEW x \in LogId, NEW y \in LogId, tx'[x] = "ok", tx'[y] = "ok", slot[x] = slot[y], slot[x] \in OnceSlot
        PROVE  x = y
    <3>1. CASE x # id /\ y # id
      BY <2>2, <2>5, <3>1 DEF SlotsServed
    <3>2. CASE x = id \/ y = id
      BY <2>2, <2>3, <2>5, <3>2
    <3> QED
      BY <3>1, <3>2
  <2> QED
    BY <1>0, <2>1, <2>4, <2>5 DEF SlotsServed
<1>6. CASE ManagerStep \/ ListenerDies \/ UNCHANGED allVars
  BY <1>1, <1>6 DEF ManagerStep, ListenerDies, allVars, chainVars
<1> QED
  BY <1>3, <1>4, <1>5, <1>6 DEF CallNext

\* Two calls that return true for a slot that serves one call are the same.
OneWinner ==
    \A t, u \in Thread :
        result[t] = "true" /\ result[u] = "true" /\ slot[t] = slot[u] /\ slot[t] \in OnceSlot => t = u

\* Of the calls that race for something the contract gives once (the address to
\* register, the id to remove), at most one returns true, although each of them
\* may have passed its eth_call.
THEOREM AtMostOneWinner == CallSpec => []OneWinner
<1>1. CallInit => SlotsServed
  <2> SUFFICES ASSUME CallInit PROVE SlotsServed
    OBVIOUS
  <2>1. CallType
    BY CallFactsInit DEF CallFacts
  <2>2. \A id \in LogId : tx[id] # "ok"
    BY DEF CallInit
  <2> QED
    BY <2>1, <2>2 DEF SlotsServed
<1>2. ASSUME CallInvariant, SlotsServed PROVE OneWinner
  <2>1. ASSUME NEW t \in Thread, result[t] = "true" PROVE t \in LogId /\ tx[t] = "ok"
    <3>1. outcome[t] = "log"
      BY <1>2, <2>1 DEF CallInvariant, CallFacts, CallSound
    <3> QED
      BY <1>2, <3>1 DEF CallInvariant, CallFacts, LogsOnce, Reported
  <2> QED
    BY <1>2, <2>1 DEF SlotsServed, OneWinner
<1> QED
  BY <1>1, <1>2, SlotsServedStep, CallInvariantHolds, PTL DEF CallSpec

=============================================================================
