---------------------------- MODULE MCListeners -----------------------------
(* Both listener threads on small instances, for TLC: a behaviour is of one *)
(* or the other.                                                            *)
EXTENDS EventListener, DataReceiver

listenerVars == <<streamVars, eventVars, receiverVars>>

ListenersInit ==
    /\ StreamInit
    /\ \/ EventInit("connect") /\ ReceiverInit("off")
       \/ EventInit("off") /\ ReceiverInit("id")

EventsNext ==
    /\ ePc # "off"
    /\ \/ EventStep
       \/ GethStep /\ UNCHANGED eventVars
    /\ UNCHANGED receiverVars

UpdatesNext ==
    /\ rPc # "off"
    /\ \/ ReceiverStep
       \/ ClientStep
       \/ OwnIdUnread
       \/ ClientWakesSpuriously
       \/ OwnIdChanges
       \/ GethStep /\ UNCHANGED receiverVars
    /\ UNCHANGED eventVars

ListenersNext ==
    /\ ~ dead
    /\ EventsNext \/ UpdatesNext

\* The threads run and the node answers requests.
ListenersSpec ==
    /\ ListenersInit
    /\ [][ListenersNext]_listenerVars
    /\ WF_listenerVars(~ dead /\ ePc # "off" /\ EventStep /\ UNCHANGED receiverVars)
    /\ WF_listenerVars(~ dead /\ rPc # "off" /\ ReceiverStep /\ UNCHANGED eventVars)
    /\ WF_listenerVars(~ dead /\ rPc # "off" /\ ClientStep /\ UNCHANGED eventVars)
    /\ WF_listenerVars(~ dead /\ GethReplies /\ UNCHANGED <<eventVars, receiverVars>>)

ListenersTypeOK == StreamTypeOK /\ EventTypeOK /\ ReceiverTypeOK

=============================================================================
