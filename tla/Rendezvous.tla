----------------------------- MODULE Rendezvous -----------------------------
(***************************************************************************)
(* What Send, Receive and Reply promise to the tasks, with no scheduler,   *)
(* interrupt or kernel bookkeeping: a message reaches its receiver once,   *)
(* in the order of the sends; its sender goes on only after a Reply that   *)
(* follows the delivery; a receiver waits only while it has no message.    *)
(***************************************************************************)
EXTENDS Sequences

CONSTANTS Task, NoTask

VARIABLES
    phase,    \* where each task stands
    pending,  \* the senders each task has not served yet, first come first
    got       \* the sender of the message each task received last
rvars == <<phase, pending, got>>

Phase == {"unborn", "active", "sending", "served", "receiving", "gone"}

Init ==
    /\ phase \in [Task -> {"unborn", "active"}]
    /\ pending = [t \in Task |-> <<>>]
    /\ got = [t \in Task |-> NoTask]

Start(t) ==
    /\ phase[t] = "unborn"
    /\ phase' = [phase EXCEPT ![t] = "active"]
    /\ UNCHANGED <<pending, got>>

\* A task exits, or is killed wherever it stands; its message may stay pending.
Leave(t) ==
    /\ phase[t] \notin {"unborn", "gone"}
    /\ phase' = [phase EXCEPT ![t] = "gone"]
    /\ UNCHANGED <<pending, got>>

\* s sends to r, which is busy: s waits its turn.
Queue(s, r) ==
    /\ phase[s] = "active"
    /\ phase[r] \notin {"unborn", "gone", "receiving"}
    /\ phase' = [phase EXCEPT ![s] = "sending"]
    /\ pending' = [pending EXCEPT ![r] = Append(@, s)]
    /\ UNCHANGED got

\* s sends to r, which is waiting: the message is delivered at once.
Deliver(s, r) ==
    /\ phase[s] = "active"
    /\ phase[r] = "receiving"
    /\ phase' = [phase EXCEPT ![s] = "served", ![r] = "active"]
    /\ got' = [got EXCEPT ![r] = s]
    /\ UNCHANGED pending

Take(r) ==
    /\ phase[r] = "active"
    /\ pending[r] # <<>>
    /\ phase[Head(pending[r])] = "sending"
    /\ phase' = [phase EXCEPT ![Head(pending[r])] = "served"]
    /\ pending' = [pending EXCEPT ![r] = Tail(@)]
    /\ got' = [got EXCEPT ![r] = Head(pending[r])]

Await(r) ==
    /\ phase[r] = "active"
    /\ pending[r] = <<>>
    /\ phase' = [phase EXCEPT ![r] = "receiving"]
    /\ got' = [got EXCEPT ![r] = NoTask]
    /\ UNCHANGED pending

\* Any task may answer: the kernel does not ask who received the message.
Answer(s) ==
    /\ phase[s] = "served"
    /\ phase' = [phase EXCEPT ![s] = "active"]
    /\ UNCHANGED <<pending, got>>

Next ==
    \E t \in Task :
        \/ Start(t) \/ Leave(t) \/ Take(t) \/ Await(t) \/ Answer(t)
        \/ \E r \in Task : Queue(t, r) \/ Deliver(t, r)

Spec == Init /\ [][Next]_rvars
=============================================================================
