------------------------------ MODULE Errands ------------------------------
(***************************************************************************)
(* What the pacman server (src/user/pactrain-server) and the random        *)
(* destination server (src/user/random-dest-server) share: one helper task *)
(* per train, which is sent a destination, has a path planned to it, waits *)
(* in AwaitTid (src/lib/syscall_utils.c) for the end of the path's task    *)
(* and reports to the server.  At the end of the game the server stops the *)
(* helper and waits in AwaitTid itself.                                    *)
(*                                                                         *)
(* All of these tasks have priority 5, and an interrupt may put another    *)
(* one in the place of the one that runs: any step can come between two.   *)
(* The server handles a request, up to its first Send, in one step: what   *)
(* it changes is its own.  The path's task is PathFinderTask, of which     *)
(* only the end matters here.  No Create fails and every destination is    *)
(* a node of the track.                                                    *)
(***************************************************************************)
EXTENDS Integers, Sequences, FiniteSets, SequencesExt

CONSTANTS
    Train,        \* the trains
    Slots,        \* the servers' arrays have the indices 0 .. Slots - 1
    Route,        \* the train of each index
    MaxHelpers    \* how many helpers are created in all

Slot   == 0 .. Slots - 1
Helper == 1 .. MaxHelpers
None   == -1

ASSUME ErrandsAssumption ==
    /\ Slots \in Nat \ {0} /\ MaxHelpers \in Nat
    /\ Route \in [Slot -> Train] /\ IsInjective(Route)

VARIABLES
    helper_tids,    \* the helper of each index, or None
    route_trains,   \* the train of each index, or None
    exiting,        \* no more destinations are given
    todo,           \* the Sends the request the server handles still asks for
    ending,         \* the helper whose end the server waits for, or None
    at,             \* where each helper stands
    train,          \* the train of its request
    path,           \* the task of its path: "none", "runs", "ended"
    await,          \* where each task stands in AwaitTid: "no", "looks" for the task, has
                    \* "found" it, is "blocked" in AwaitEvent, or it is "over"
    senders,        \* the tasks in Send to the server, in the order they came
    lost            \* the kernel has followed a null descriptor
errandVars == <<helper_tids, route_trains, exiting, todo, ending, at, train, path, await,
                senders, lost>>

\* The tasks that send to the server, besides the helpers.
Server    == 0
Prompt    == MaxHelpers + 1
Asker     == MaxHelpers + 2   \* predictTask or the zone server, of which one is enough:
                              \* what it asks is chosen when it is handled
PathOf(h) == -h               \* the task of the helper's path

Waits(task) == \E i \in 1 .. Len(senders) : senders[i] = task
Calls(task) == ~Waits(task) /\ senders' = Append(senders, task)

-----------------------------------------------------------------------------
(* AwaitTid. *)

Ended(w) == IF w = Server THEN ending # None /\ at[ending] = "gone" ELSE path[w] = "ended"

\* get_task: a task that has ended is not waited for.
AwaitLooks(w) ==
    /\ await[w] = "looks"
    /\ await' = [await EXCEPT ![w] = IF Ended(w) THEN "over" ELSE "found"]
    /\ UNCHANGED <<helper_tids, route_trains, exiting, todo, ending, at, train, path, senders,
                   lost>>

\* AwaitEvent(EVENT_TASK_FINISHED), whatever has ended since the task was looked up.
AwaitsEvent(w) ==
    /\ await[w] = "found"
    /\ await' = [await EXCEPT ![w] = "blocked"]
    /\ UNCHANGED <<helper_tids, route_trains, exiting, todo, ending, at, train, path, senders,
                   lost>>

\* Mutant of Wakes: the end of any task will do.
WakesAny(waiters) ==
    await' = [w \in DOMAIN await |-> IF await[w] = "blocked" THEN "over" ELSE await[w]]

\* The end of a task wakes every task that awaits one; those it is the right one for, the
\* "waiters", are done, the others look again.
Wakes(waiters) ==
    await' = [w \in DOMAIN await |->
                 IF await[w] # "blocked" THEN await[w]
                 ELSE IF w \in waiters THEN "over" ELSE "looks"]

\* The task of a path ends, also when its helper is gone.
PathEnds(h) ==
    /\ path[h] = "runs" /\ path' = [path EXCEPT ![h] = "ended"]
    /\ ~Waits(PathOf(h))
    /\ Wakes({h})
    /\ UNCHANGED <<helper_tids, route_trains, exiting, todo, ending, at, train, senders, lost>>

\* Another task ends: a part of a path, a ReverseTask.
OtherTaskEnds ==
    /\ \E w \in DOMAIN await : await[w] = "blocked"
    /\ Wakes({})
    /\ UNCHANGED <<helper_tids, route_trains, exiting, todo, ending, at, train, path, senders,
                   lost>>

-----------------------------------------------------------------------------
(* The helper. *)

\* NEW_FOOD_DEST and NEW_DESTINATION, after the reply: PlanPath returns when the path's
\* task has been created and has its request.
HelperPlans(h) ==
    /\ at[h] = "plans" /\ at' = [at EXCEPT ![h] = "waits"]
    /\ path' = [path EXCEPT ![h] = "runs"]
    /\ await' = [await EXCEPT ![h] = "looks"]
    /\ UNCHANGED <<helper_tids, route_trains, exiting, todo, ending, train, senders, lost>>

\* REACHED_FOOD_DEST and REACHED_DESTINATION.
HelperSends(h) ==
    /\ at[h] = "waits" /\ await[h] = "over"
    /\ at' = [at EXCEPT ![h] = "sends"]
    /\ await' = [await EXCEPT ![h] = "no"]
    /\ senders' = Append(senders, h)
    /\ UNCHANGED <<helper_tids, route_trains, exiting, todo, ending, train, path, lost>>

\* END_GAME and END_ROUTING, after the reply.
HelperExits(h) ==
    /\ at[h] = "exits" /\ at' = [at EXCEPT ![h] = "gone"]
    /\ Wakes(IF ending = h THEN {Server} ELSE {})
    /\ UNCHANGED <<helper_tids, route_trains, exiting, todo, ending, train, path, senders, lost>>

-----------------------------------------------------------------------------
(* The server. *)

Unborn == {h \in Helper : at[h] = "unborn"}
Gone(h) == at[h] \in {"unborn", "gone"}

Handles(task) == /\ todo = <<>> /\ await[Server] = "no"
                 /\ senders # <<>> /\ Head(senders) = task /\ senders' = Tail(senders)

\* What is next in "todo": a new helper for an index is created and sent its destination,
ServerSpawns ==
    /\ todo # <<>> /\ Head(todo).type = "SPAWN" /\ todo' = Tail(todo)
    /\ \E h \in Unborn :
          /\ \A g \in Unborn : h <= g
          /\ helper_tids' = [helper_tids EXCEPT ![Head(todo).index] = h]
          /\ at' = [at EXCEPT ![h] = "plans"]
          /\ train' = [train EXCEPT ![h] = route_trains[Head(todo).index]]
    /\ UNCHANGED <<route_trains, exiting, ending, path, await, senders, lost>>

\* or a helper is sent its next destination, once it receives,
ServerSends ==
    /\ todo # <<>> /\ Head(todo).type = "NEW" /\ todo' = Tail(todo)
    /\ LET h == helper_tids[Head(todo).index] IN
          /\ at[h] = "receives" /\ at' = [at EXCEPT ![h] = "plans"]
    /\ UNCHANGED <<helper_tids, route_trains, exiting, ending, train, path, await, senders,
                   lost>>

\* or the end, which the server then awaits.
ServerEnds ==
    /\ todo # <<>> /\ Head(todo).type = "END" /\ todo' = Tail(todo)
    /\ LET h == helper_tids[Head(todo).index] IN
          /\ at[h] = "receives" /\ at' = [at EXCEPT ![h] = "exits"]
          /\ ending' = h
    /\ await' = [await EXCEPT ![Server] = "looks"]
    /\ UNCHANGED <<helper_tids, route_trains, exiting, train, path, senders, lost>>

\* Mutant of ServerAwaited: the entry stays.
ServerAwaitedKeeps ==
    /\ await[Server] = "over" /\ await' = [await EXCEPT ![Server] = "no"]
    /\ ending' = None
    /\ UNCHANGED <<helper_tids, route_trains, exiting, todo, at, train, path, senders, lost>>

\* AwaitTid has returned.
ServerAwaited ==
    /\ await[Server] = "over" /\ await' = [await EXCEPT ![Server] = "no"]
    /\ ending' = None
    /\ helper_tids' = [i \in Slot |-> IF helper_tids[i] = ending THEN None ELSE helper_tids[i]]
    /\ UNCHANGED <<route_trains, exiting, todo, at, train, path, senders, lost>>

\* Mutant of HandleReached: the destination goes to the first helper.
HandleReachedFirst(h, spawned) ==
    /\ Handles(h) /\ at[h] = "sends" /\ ~exiting
    /\ at' = [at EXCEPT ![h] = "receives"]
    /\ todo' = [j \in 1 .. Len(spawned) |-> [index |-> spawned[j], type |-> "SPAWN"]]
               \o <<[index |-> 0, type |-> "NEW"]>>
    /\ UNCHANGED <<helper_tids, route_trains, exiting, ending, train, path, await, lost>>

\* A report while destinations are given: new helpers for the indices "spawned", and the
\* next destination for the one that has reported.
HandleReached(h, spawned) ==
    /\ Handles(h) /\ at[h] = "sends" /\ ~exiting
    /\ at' = [at EXCEPT ![h] = "receives"]
    /\ \E i \in Slot :
          /\ route_trains[i] = train[h]
          /\ todo' = [j \in 1 .. Len(spawned) |-> [index |-> spawned[j], type |-> "SPAWN"]]
                     \o <<[index |-> i, type |-> "NEW"]>>
    /\ UNCHANGED <<helper_tids, route_trains, exiting, ending, train, path, await, lost>>

\* A report once no more destinations are given.
HandleReachedExiting(h) ==
    /\ Handles(h) /\ at[h] = "sends" /\ exiting
    /\ at' = [at EXCEPT ![h] = "receives"]
    /\ \E i \in Slot :
          /\ route_trains[i] = train[h]
          /\ todo' = <<[index |-> i, type |-> "END"]>>
    /\ UNCHANGED <<helper_tids, route_trains, exiting, ending, train, path, await, lost>>

\* The server takes from its queue a task that has been killed there.
ReceiveLost ==
    /\ \E h \in Helper : Handles(h) /\ at[h] = "gone"
    /\ lost' = TRUE
    /\ UNCHANGED <<helper_tids, route_trains, exiting, todo, ending, at, train, path, await>>

\* END_GAME and END_ROUTING of the prompt.
HandleEnd ==
    /\ Handles(Prompt)
    /\ exiting' = TRUE
    /\ UNCHANGED <<helper_tids, route_trains, todo, ending, at, train, path, await, lost>>

ErrandsStep ==
    \/ ServerSpawns \/ ServerSends \/ ServerEnds \/ ServerAwaited
    \/ HandleEnd \/ ReceiveLost
    \/ AwaitLooks(Server) \/ AwaitsEvent(Server)
    \/ \E h \in Helper : HandleReachedExiting(h)

HelperStep(h) ==
    HelperPlans(h) \/ AwaitLooks(h) \/ AwaitsEvent(h) \/ HelperSends(h) \/ HelperExits(h)

ErrandsInit ==
    /\ helper_tids = [i \in Slot |-> None]
    /\ exiting = FALSE
    /\ todo = <<>> /\ ending = None
    /\ at = [h \in Helper |-> "unborn"]
    /\ train = [h \in Helper |-> None]
    /\ path = [h \in Helper |-> "none"]
    /\ await = [w \in {Server} \cup Helper |-> "no"]
    /\ senders = <<>>
    /\ lost = FALSE
=============================================================================
