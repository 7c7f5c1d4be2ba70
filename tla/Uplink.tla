------------------------------- MODULE Uplink -------------------------------
(***************************************************************************)
(* What the LoRa uplink promises the nodes, without radios, queues and     *)
(* threads: a packet may be lost at any time, but nothing is pushed that   *)
(* no node signed, no packet is pushed twice or after a later one of its   *)
(* node, and a push carries the length its node meant.                     *)
(***************************************************************************)
EXTENDS Integers, Sequences

CONSTANTS
    Node,     \* the nodes
    NoNode,   \* the signer of what somebody else transmitted
    Length    \* lengths of what a node measures

VARIABLES
    signed,     \* packets made so far; the last one has this number
    underWay,   \* the packets that may still be pushed
    pushed      \* what was pushed

vars == <<signed, underWay, pushed>>

Init ==
    /\ signed = 0
    /\ underWay = {}
    /\ pushed = <<>>

Sign(c, length) ==
    /\ signed' = signed + 1
    /\ underWay' = underWay \union {[n |-> signed + 1, signer |-> c, length |-> length]}
    /\ UNCHANGED pushed

Lose(p) ==
    /\ underWay' = underWay \ {p}
    /\ UNCHANGED <<signed, pushed>>

Oldest(p) == \A q \in underWay : q.signer = p.signer => p.n <= q.n

Push(p) ==
    /\ p.signer \in Node
    /\ Oldest(p)
    /\ underWay' = underWay \ {p}
    /\ pushed' = Append(pushed, [n |-> p.n, signer |-> p.signer, bytes |-> p.length % 256])
    /\ UNCHANGED signed

Next ==
    \/ \E c \in Node, length \in Length : Sign(c, length)
    \/ Sign(NoNode, 0)
    \/ \E p \in underWay : Lose(p) \/ Push(p)

Spec == Init /\ [][Next]_vars

=============================================================================
