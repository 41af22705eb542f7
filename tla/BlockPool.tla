----------------------------- MODULE BlockPool -----------------------------
(***************************************************************************)
(* What an allocator of equal blocks promises: each block has at most one  *)
(* owner, a freed block can be had again, and a request is denied only     *)
(* when no block is free.                                                  *)
(***************************************************************************)
CONSTANTS Task, Blocks

VARIABLES
    free,    \* the blocks that can be had
    owned,   \* the blocks each task has
    denied   \* the tasks whose last request was denied
pvars == <<free, owned, denied>>

Init == free = Blocks /\ owned = [t \in Task |-> {}] /\ denied = {}

Get(t, b) ==
    /\ b \in free
    /\ free' = free \ {b}
    /\ owned' = [owned EXCEPT ![t] = @ \cup {b}]
    /\ denied' = denied \ {t}

Deny(t) ==
    /\ free = {}
    /\ denied' = denied \cup {t}
    /\ UNCHANGED <<free, owned>>

\* The task lets go of the block; the allocator has it back in a second step.
Drop(t, b) ==
    /\ b \in owned[t]
    /\ owned' = [owned EXCEPT ![t] = @ \ {b}]
    /\ UNCHANGED <<free, denied>>

Return(b) ==
    /\ b \in Blocks \ free
    /\ \A t \in Task : b \notin owned[t]
    /\ free' = free \cup {b}
    /\ UNCHANGED <<owned, denied>>

Next ==
    \/ \E t \in Task : Deny(t)
    \/ \E t \in Task, b \in Blocks : Get(t, b) \/ Drop(t, b)
    \/ \E b \in Blocks : Return(b)

Spec == Init /\ [][Next]_pvars
=============================================================================
