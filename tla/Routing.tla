------------------------------ MODULE Routing ------------------------------
(***************************************************************************)
(* The pacman server or the random destination server, with its helpers,   *)
(* their paths and the tasks that send to it.  The two servers share       *)
(* nothing but the event that a task has ended, which the other's tasks    *)
(* can raise at any time.                                                  *)
(***************************************************************************)
EXTENDS PacTrain, RandomDest

VARIABLE pacman     \* the server is the pacman server
vars == <<errandVars, pacVars, pacman>>

Call(task) ==
    /\ Calls(task)
    /\ UNCHANGED <<helper_tids, route_trains, exiting, todo, ending, at, train, path, await, lost>>

ServerStep ==
    \/ ErrandsStep /\ UNCHANGED pacVars
    \/ pacman /\ PacStep
    \/ ~pacman /\ RandomStep /\ UNCHANGED pacVars

Environment ==
    \/ \E h \in Helper : PathEnds(h) /\ UNCHANGED pacVars
    \/ OtherTaskEnds /\ UNCHANGED pacVars
    \/ Call(Prompt) /\ UNCHANGED pacVars
    \/ pacman /\ Call(Asker) /\ UNCHANGED pacVars
    \/ \E h \in Helper : pacman /\ FindsNoWay(h)

Init ==
    /\ pacman \in BOOLEAN /\ PacInit
    /\ route_trains = IF pacman THEN [i \in Slot |-> None] ELSE Route

Next ==
    /\ ~lost
    /\ \/ ServerStep
       \/ \E h \in Helper : HelperStep(h) /\ UNCHANGED pacVars
       \/ Environment
    /\ UNCHANGED pacman

\* The scheduler serves every task in the end.  The end of a path, of another task, or a
\* call are not fair.
Spec == /\ Init /\ [][Next]_vars
        /\ WF_vars(~lost /\ ServerStep /\ UNCHANGED pacman)
        /\ \A h \in Helper :
               WF_vars(~lost /\ HelperStep(h) /\ UNCHANGED <<pacVars, pacman>>)

-----------------------------------------------------------------------------
(* Properties. *)

\* Every variable has its type; every task waits in one call at most.
TypeOK ==
    /\ helper_tids \in [Slot -> Helper \cup {None}]
    /\ route_trains \in [Slot -> Train \cup {None}]
    /\ exiting \in BOOLEAN /\ lost \in BOOLEAN /\ pacman \in BOOLEAN
    /\ todo \in Seq([index : Slot, type : {"SPAWN", "NEW", "END"}])
    /\ ending \in Helper \cup {None}
    /\ at \in [Helper -> {"unborn", "plans", "waits", "sends", "receives", "exits", "gone"}]
    /\ train \in [Helper -> Train \cup {None}]
    /\ path \in [Helper -> {"none", "runs", "ended"}]
    /\ await \in [{Server} \cup Helper -> {"no", "looks", "found", "blocked", "over"}]
    /\ senders \in Seq(Helper \cup {PathOf(h) : h \in Helper} \cup {Prompt, Asker})
    /\ IsInjective(senders)
    /\ food_sensors \subseteq FoodList /\ eaten \in 0 .. FOOD_COUNT
    /\ score \in 0 .. MaxScore /\ predictor \in {"asks", "pacman"}

\* No helper is forgotten and none stays behind: every helper at work is the one its
\* train's entry names, and an entry names one at work, or one whose end is awaited.
HelpersOwned ==
    /\ \A h \in Helper : ~Gone(h) =>
           \E i \in Slot : helper_tids[i] = h /\ route_trains[i] = train[h]
    /\ \A i \in Slot : helper_tids[i] # None => ~Gone(helper_tids[i]) \/ ending = helper_tids[i]

\* Whichever way a game or a routing is started, goes on and is ended, the servers know
\* their helpers.
RoutingInv == TypeOK /\ HelpersOwned

\* The server is never blocked in a Send to a helper that is itself in Send to the server,
\* or on its way along a path.
ServerNeverBlocks ==
    todo # <<>> /\ Head(todo).type # "SPAWN" =>
        LET h == helper_tids[Head(todo).index] IN h # None /\ at[h] = "receives"

\* A helper goes on only when its last path has ended: AwaitTid never returns for the end
\* of another task, and no train has two paths planned for it in a game.
OnePath ==
    \A h \in Helper : ~Gone(h) /\ path[h] = "runs" => at[h] = "waits" /\ await[h] # "over"

\* The count the destinations are drawn by is that of the food that is left.
FoodCounted ==
    pacman => \/ eaten + Cardinality(food_sensors) = FOOD_COUNT
              \/ food_sensors = {} /\ eaten = 0 /\ \A h \in Helper : at[h] = "unborn"

\* A task is blocked in AwaitTid for one that had ended before it awaited the event.
Missed == \E w \in {Server} \cup Helper : await[w] = "blocked" /\ Ended(w)

\* A call is answered, the zone server's too, whether or not a train ever arrives: unless
\* the end of a helper has been missed, or the kernel has followed a null descriptor.
CallsAnswered ==
    \A task \in {Prompt, Asker} : Waits(task) ~> ~Waits(task) \/ Missed \/ lost

\* If paths end, so does a game or a routing that is ended: every helper exits.
GameEnds ==
    (\A h \in Helper : []<>(path[h] # "runs")) =>
        (exiting ~> (\A i \in Slot : helper_tids[i] = None) \/ Missed \/ lost)
=============================================================================
