------------------------------ MODULE LogFeed -------------------------------
(***************************************************************************)
(* What the listener thread promises the event log manager, without        *)
(* sockets, lines and subscriptions: a log may be lost, but none reaches   *)
(* setEventLog before it was emitted, twice, or after a later one.  The    *)
(* modules EventLogWait and ContractCall rely on no more.                  *)
(***************************************************************************)
EXTENDS Integers, Sequences

VARIABLES
    emitted,  \* logs the contract has emitted; the last one has this number
    handed    \* the logs handed to setEventLog, in order

vars == <<emitted, handed>>

Init ==
    /\ emitted = 0
    /\ handed = <<>>

Emit ==
    /\ emitted' = emitted + 1
    /\ UNCHANGED handed

HandOver(n) ==
    /\ \A i \in DOMAIN handed : handed[i] < n
    /\ handed' = Append(handed, n)
    /\ UNCHANGED emitted

Next ==
    \/ Emit
    \/ \E n \in 1..emitted : HandOver(n)

Spec == Init /\ [][Next]_vars

=============================================================================
