---------------------------- MODULE ContractCall ----------------------------
(***************************************************************************)
(* One call of a contract mutator, EthInterface::contract_helper of        *)
(* src/eth_interface.cpp, by each of several threads:                      *)
(*                                                                         *)
(*   eth_call to see whether the call would revert now,                    *)
(*   eth_sendTransaction,                                                  *)
(*   eth_getTransactionReceipt until there is a receipt or too many tries, *)
(*   getEventLog of the transaction's hash (module EventLogWait).          *)
(*                                                                         *)
(* Each thread makes one call, so a thread's transaction hash is the       *)
(* thread itself.  The hashes that are no threads belong to transactions   *)
(* other processes send from the same account: the subscription filters    *)
(* on the account, so their logs arrive here as well.                      *)
(*                                                                         *)
(* The contract is reduced to what decides whether a call reverts: each    *)
(* call needs its slot to be open, and a call on a slot of OnceSlot        *)
(* closes it (an address to register, an id to remove, an administrator    *)
(* to authorise).  A reverted transaction has a receipt and no log.        *)
(***************************************************************************)
EXTENDS EventLogWait

CONSTANTS
    Slot,        \* what calls need from the contract
    OnceSlot,    \* the slots that serve one call only
    MaxRetries   \* ETH_GET_TRANSRECEIPT_MAX_RETRIES

ASSUME CallAssumption ==
    /\ Thread \subseteq LogId
    /\ OnceSlot \subseteq Slot
    /\ MaxRetries \in Nat

VARIABLES
    stage,    \* how far each thread's call is
    retries,  \* receipts it has asked for
    result,   \* how the call ended
    slot,     \* the slot each transaction needs; never changes
    tx,       \* the fate of each transaction
    open,     \* the slots that still accept a call
    lostLogs  \* transactions whose log the node could not deliver

callVars  == <<stage, retries, result>>
chainVars == <<slot, tx, open, lostLogs>>
allVars   == <<waitVars, callVars, chainVars>>

Stage == {"preflight", "send", "receipt", "await", "done"}

Fate == {"unsent", "pending", "ok", "reverted"}

CallInit ==
    /\ Init
    /\ stage = [t \in Thread |-> "preflight"]
    /\ retries = [t \in Thread |-> 0]
    /\ result = [t \in Thread |-> "none"]
    /\ slot \in [LogId -> Slot]
    /\ tx = [id \in LogId |-> "unsent"]
    /\ open = Slot
    /\ lostLogs = {}

-----------------------------------------------------------------------------
(* contract_helper and callMutatorContract                                 *)

Advance(t, from, to) ==
    /\ stage[t] = from
    /\ stage' = [stage EXCEPT ![t] = to]

Return(t, from, value) ==
    /\ Advance(t, from, "done")
    /\ result' = [result EXCEPT ![t] = value]

\* The eth_call succeeds against the latest block.
PreflightPasses(t) ==
    /\ Advance(t, "preflight", "send")
    /\ slot[t] \in open
    /\ UNCHANGED <<retries, result, chainVars, waitVars>>

\* CallFailedException: callMutatorContract returns false.
PreflightFails(t) ==
    /\ Return(t, "preflight", "false")
    /\ slot[t] \notin open
    /\ UNCHANGED <<retries, chainVars, waitVars>>

SendAccepted(t) ==
    /\ Advance(t, "send", "receipt")
    /\ tx' = [tx EXCEPT ![t] = "pending"]
    /\ UNCHANGED <<retries, result, slot, open, lostLogs, waitVars>>

\* The node's answer has no "result": TransactionFailedException.
SendRejected(t) ==
    /\ Return(t, "send", "false")
    /\ UNCHANGED <<retries, chainVars, waitVars>>

\* The request to the node fails and ResourceRequestFailedException leaves
\* callMutatorContract.  A transaction may have been accepted all the same.
IpcFails(t) ==
    /\ \E at \in {"preflight", "send", "receipt"} : Return(t, at, "threw")
    /\ tx' \in {tx} \union (IF stage[t] = "send" THEN {[tx EXCEPT ![t] = "pending"]} ELSE {})
    /\ UNCHANGED <<retries, slot, open, lostLogs, waitVars>>

\* Definitions named ...Mutant are faulty variants of the definition that
\* follows them; the specification never uses them.

HasReceipt(t) == tx[t] \in {"ok", "reverted"}

\* Fault: the call is over as soon as there is a receipt.
ReceiptFoundMutant(t) ==
    /\ HasReceipt(t)
    /\ Return(t, "receipt", "true")
    /\ UNCHANGED <<retries, chainVars, waitVars>>

\* A receipt is enough, whatever its status: go on to getEventLog.
ReceiptFound(t) ==
    /\ HasReceipt(t)
    /\ Advance(t, "receipt", "await")
    /\ Call(t, t)
    /\ UNCHANGED <<retries, result, chainVars>>

\* Fault: retries is not counted.
ReceiptMissingForeverMutant(t) ==
    /\ ~ HasReceipt(t)
    /\ stage[t] = "receipt"
    /\ UNCHANGED <<callVars, chainVars, waitVars>>

\* Fault: one try too many.
ReceiptMissingMutant(t) ==
    /\ ~ HasReceipt(t)
    /\ retries' = [retries EXCEPT ![t] = @ + 1]
    /\ IF retries[t] <= MaxRetries
       THEN stage[t] = "receipt" /\ UNCHANGED <<stage, result>>
       ELSE Return(t, "receipt", "false")
    /\ UNCHANGED <<chainVars, waitVars>>

\* No receipt yet: retries++, and TransactionFailedException after the last.
ReceiptMissing(t) ==
    /\ ~ HasReceipt(t)
    /\ retries' = [retries EXCEPT ![t] = @ + 1]
    /\ IF retries'[t] <= MaxRetries
       THEN stage[t] = "receipt" /\ UNCHANGED <<stage, result>>
       ELSE Return(t, "receipt", "false")
    /\ UNCHANGED <<chainVars, waitVars>>

\* getEventLog has returned.
LogReturned(t) ==
    /\ pc[t] = "idle"
    /\ Return(t, "await", IF outcome[t] = "log" THEN "true" ELSE "threw")
    /\ UNCHANGED <<retries, chainVars, waitVars>>

\* A step of a call whose requests are answered.
CallStep(t) ==
    \/ PreflightPasses(t)
    \/ PreflightFails(t)
    \/ SendAccepted(t)
    \/ SendRejected(t)
    \/ ReceiptFound(t)
    \/ ReceiptMissing(t)
    \/ LogReturned(t)

-----------------------------------------------------------------------------
(* External: the node, the other users of the contract                     *)

\* Another process sends a transaction from the same account.
ForeignSend(id) ==
    /\ id \notin Thread
    /\ tx[id] = "unsent"
    /\ tx' = [tx EXCEPT ![id] = "pending"]
    /\ UNCHANGED <<callVars, slot, open, lostLogs, waitVars>>

\* The transaction is mined and succeeds.  Its log reaches the listener, or is
\* lost because no subscription is up at that moment.
MineOk(id) ==
    /\ tx[id] = "pending"
    /\ slot[id] \in open
    /\ tx' = [tx EXCEPT ![id] = "ok"]
    /\ open' = open \ ({slot[id]} \intersect OnceSlot)
    /\ \/ Deliver(id) /\ UNCHANGED lostLogs
       \/ lostLogs' = lostLogs \union {id} /\ UNCHANGED waitVars
    /\ UNCHANGED <<callVars, slot>>

MineReverted(id) ==
    /\ tx[id] = "pending"
    /\ slot[id] \notin open
    /\ tx' = [tx EXCEPT ![id] = "reverted"]
    /\ UNCHANGED <<callVars, slot, open, lostLogs, waitVars>>

\* The listener thread ends with an uncaught exception when it cannot
\* subscribe again: std::terminate.
ListenerDies ==
    /\ crashed' = TRUE
    /\ UNCHANGED <<mtx, eventLogMap, pc, want, outcome, inbox, setting, callVars, chainVars>>

ManagerStep ==
    /\ \/ \E t \in Thread : ThreadStep(t) \/ WakeSpuriously(t) \/ RaceCrash(t)
       \/ ListenerStep
    /\ UNCHANGED <<callVars, chainVars>>

CallNext ==
    /\ ~ crashed
    /\ \/ \E t \in Thread : CallStep(t) \/ IpcFails(t)
       \/ ManagerStep
       \/ \E id \in LogId : ForeignSend(id) \/ MineOk(id) \/ MineReverted(id)
       \/ ListenerDies

CallSpec == CallInit /\ [][CallNext]_allVars

\* Threads run.  No request has to fail, and the node may never mine: the retry
\* limit ends that wait.
CallFairness ==
    /\ \A t \in Thread :
          /\ WF_allVars(~ crashed /\ CallStep(t))
          /\ WF_allVars(~ crashed /\ ThreadStep(t) /\ UNCHANGED <<callVars, chainVars>>)
    /\ WF_allVars(~ crashed /\ ListenerStep /\ UNCHANGED <<callVars, chainVars>>)

FairCallSpec == CallSpec /\ CallFairness

-----------------------------------------------------------------------------
(* Properties                                                              *)

CallTypeOK ==
    /\ TypeOK
    /\ stage \in [Thread -> Stage]
    /\ retries \in [Thread -> 0..(MaxRetries + 1)]
    /\ result \in [Thread -> {"none", "true", "false", "threw"}]
    /\ slot \in [LogId -> Slot]
    /\ tx \in [LogId -> Fate]
    /\ open \subseteq Slot
    /\ lostLogs \subseteq LogId

\* When callMutatorContract returns true, the transaction of this very call was
\* mined and succeeded, although the receipt's status is never looked at: the
\* event log is the proof, and no other transaction's log is taken for it.
TrueMeansExecuted ==
    \A t \in Thread : result[t] = "true" => tx[t] = "ok" /\ t \notin lostLogs

\* An entry nobody waits for holds the log of a transaction that succeeded and
\* whose sender has yet to ask for it, gave up, or is another process.  Entries
\* are neither left behind by a call that returned its log nor made for a
\* transaction that failed.
EntriesAccounted ==
    \A id \in DOMAIN eventLogMap : ~ eventLogMap[id].hasWaitingThread =>
        /\ eventLogMap[id].hasEventLog
        /\ tx[id] = "ok"
        /\ id \in Thread =>
              \/ stage[id] = "receipt"
              \/ stage[id] = "await" /\ pc[id] \in {"lock", "register"}
              \/ result[id] \in {"false", "threw"}

\* A call that does not return has one of these reasons: its transaction
\* reverted, the node could not deliver its log, the log was set between the
\* waiter's test and its cv.wait(), or the process went down.
HangExplained ==
    \A t \in Thread :
        <>(\/ stage[t] = "done"
           \/ tx[t] = "reverted"
           \/ t \in lostLogs
           \/ Stranded(t)
           \/ crashed)

\* What the call of t can go on from without another thread: all but a sleep in
\* getEventLog and a mutex somebody holds.
CanRun(t) ==
    /\ stage[t] # "done"
    /\ pc[t] # "asleep"
    /\ pc[t] \in {"lock", "relock"} => mtx = Nobody

ListenerCanRun == IF setting = NoId THEN inbox # <<>> ELSE mtx \in {Nobody, Listener}

\* When neither a call nor the listener can go on, each call has returned or has
\* one of the reasons of HangExplained: the threads never wait for each other in
\* a circle, and no log that arrived is missing where its call looks for it.
QuietExplained ==
    ~ ListenerCanRun /\ (\A t \in Thread : ~ CanRun(t)) =>
        \A t \in Thread :
            stage[t] = "done" \/ tx[t] = "reverted" \/ t \in lostLogs \/ Stranded(t)

\* "Make an eth_call with the parameters first to check the contract will not
\* fail": a transaction that is sent after a successful eth_call succeeds.
PreflightSuffices == \A t \in Thread : tx[t] # "reverted"

=============================================================================
