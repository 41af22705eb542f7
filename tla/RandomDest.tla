----------------------------- MODULE RandomDest -----------------------------
(***************************************************************************)
(* The random destination server (src/user/random-dest-server): two trains *)
(* go from one destination to the next until the routing is ended.  The    *)
(* prompt starts it only when it is over: a second START_ROUTING forgets   *)
(* the helpers of the first.                                               *)
(***************************************************************************)
EXTENDS Errands

HandleStartRouting ==
    /\ Handles(Prompt)
    /\ \A h \in Helper : Gone(h)
    /\ Cardinality(Unborn) >= Slots
    /\ exiting' = FALSE
    /\ todo' = [j \in 1 .. Slots |-> [index |-> j - 1, type |-> "SPAWN"]]
    /\ UNCHANGED <<helper_tids, route_trains, ending, at, train, path, await, lost>>

HandleReachedDestination(h) == HandleReached(h, <<>>)

RandomStep ==
    \/ HandleStartRouting
    \/ \E h \in Helper : HandleReachedDestination(h)
=============================================================================
