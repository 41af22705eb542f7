----------------------------- MODULE PathFinder -----------------------------
(***************************************************************************)
(* The path finder tasks that drive the trains                             *)
(* (src/user/pathfinder-server/server.c), the trains themselves, and the   *)
(* zone server they reserve the track with (module ZoneServer).            *)
(*                                                                         *)
(* Each train has one path finder at a time, so a train names its task.    *)
(* Nobody else drives it: a task finds its train standing.  A train stops  *)
(* in the zone it enters at the sensor where it is stopped, and follows    *)
(* its route: the switches of a leg, set before it, are not modelled.      *)
(*                                                                         *)
(* A route is driven in legs, from one turn to the next.                   *)
(***************************************************************************)
EXTENDS TrackSearch

CONSTANTS
    Train, NoTrain, PacTrain,
    Dests,     \* the destinations asked for
    Home,      \* Home[t]: the sensor train t stands behind when the system has started
    StopDist   \* the stopping distance at the lowest speed

ASSUME PathAssumption ==
    /\ PacTrain \in Train \cup {NoTrain} /\ NoTrain \notin Train
    /\ Dests \subseteq Sensor
    /\ Home \in [Train -> Sensor]
    /\ \A t, u \in Train : Into(Home[t]) = Into(Home[u]) => t = u
    /\ StopDist \in Nat \ {0}

VARIABLES
    \* the zone server
    reservations, zone_requests, wait_change, answer,
    \* the path finders
    pc,          \* where the task of the train stands; "idle" when there is none
    route,       \* its route; just the place of the train when there is none
    next,        \* the place in the route of the edge to reserve next, by its end
    target,      \* the last sensor reserved (last_sensor_dest_edge), where the drive ends
    lo,          \* the place where the leg begins
    cutoff,      \* the first place of the leg whose zone is not counted down (edge_cutoff)
    seen,        \* the place up to which they are to be
    src_is_rev,  \* the train has turned where the leg begins, and has not been seen since
    zone_sem,    \* its count of reservations per zone
    deadlocks,   \* deadlock_counter
    \* the trains
    at,          \* the place in the route of the last sensor passed
    turned,      \* the train has turned there and stands before the sensor
    slipped      \* the trains that have left the protocol

Z == INSTANCE ZoneServer WITH Client <- Train

zones  == <<reservations, zone_requests, wait_change, answer>>
plan   == <<route, next, target, deadlocks>>
leg    == <<lo, cutoff, seen, src_is_rev>>
trains == <<at, turned, slipped>>
vars   == <<zones, pc, plan, leg, zone_sem, trains>>

\* The time-outs after which a task plans again; after one more it gives up.
MaxDeadlocks == 2

Goto(t, place) == pc' = [pc EXCEPT ![t] = place]
Wanted(t) == Into(route[t][next[t]])

\* The zone the train stands or runs in.
Pos(t) == IF turned[t] THEN ZoneOf[route[t][at[t]]] ELSE Into(route[t][at[t]])

Latest(S) == CHOOSE i \in S : \A j \in S : j <= i
First(S)  == CHOOSE i \in S : \A j \in S : i <= j

\* The leg ends with a turn or at the target; the train stops at the last sensor.
Hi(t)   == First({i \in lo[t] + 1 .. target[t] : Turns(route[t], i)} \cup {target[t]})
Stop(t) == IF Turns(route[t], Hi(t)) THEN Hi(t) - 1 ELSE Hi(t)

\* No sensor of the leg is far enough from its end to slow down at: only the last
\* one is waited for, at low speed.
Short(t) == \A i \in lo[t] + 1 .. Hi(t) - 1 :
                route[t][i] \in Sensor => Distance(route[t], i, Hi(t)) < StopDist

\* The task has no route: it does not exist, or has to plan one.
Forget(t) ==
    /\ route' = [route EXCEPT ![t] = <<@[at[t]]>>]
    /\ next' = [next EXCEPT ![t] = 2]
    /\ target' = [target EXCEPT ![t] = 1]
    /\ at' = [at EXCEPT ![t] = 1]
    /\ lo' = [lo EXCEPT ![t] = 1]
    /\ cutoff' = [cutoff EXCEPT ![t] = 2]
    /\ seen' = [seen EXCEPT ![t] = 1]
    /\ src_is_rev' = [src_is_rev EXCEPT ![t] = FALSE]
    /\ zone_sem' = [zone_sem EXCEPT ![t] = [z \in Zone |-> 0]]

-----------------------------------------------------------------------------
(* Planning and reserving. *)

\* PlanPath for train t: a new task.
Start(t) ==
    /\ pc[t] = "idle"
    /\ Goto(t, "plan")
    /\ UNCHANGED <<zones, plan, leg, zone_sem, trains>>

\* deadlock_recompute: after a time-out too many the task exits.
Abort(t) ==
    /\ pc[t] = "plan" /\ deadlocks[t] > MaxDeadlocks
    /\ Goto(t, "idle")
    /\ deadlocks' = [deadlocks EXCEPT ![t] = 0]
    /\ UNCHANGED <<zones, route, next, target, leg, zone_sem, trains>>

Src(t) == route[t][1]

Held(t) == {z \in Zone : reservations[z] = t}

\* What the search finds, by the zones it finds reserved by another train.
Ways == {[src |-> src, dest |-> dest, avoid |-> avoid, way |-> do_djikstra(src, dest, avoid)] :
            src \in Sensor, dest \in Dests, avoid \in SUBSET Zone}

\* The ways the task may take.  What the search reads of the zones changes while it runs,
\* and any zone but the train's own may be another's for some time.  The pacman train
\* goes to any food it can reach, or else any sensor; the others, when there is
\* no free way, search one with no zone avoided.
Choices(t) ==
    {w.way : w \in {v \in Ways : /\ v.src = Src(t) /\ v.avoid \cap Held(t) = {}
                                 /\ v.way # <<>> \/ v.avoid = {} \/ t = PacTrain}}

Plan(t) ==
    /\ pc[t] = "plan" /\ deadlocks[t] <= MaxDeadlocks
    /\ \E way \in Choices(t) : Len(way) > 1 /\ route' = [route EXCEPT ![t] = way]
    /\ zone_sem' = [zone_sem EXCEPT ![t] = [z \in Zone |-> IF z = Into(Src(t)) THEN 1 ELSE 0]]
    /\ Goto(t, "reserve")
    /\ UNCHANGED <<zones, next, target, leg, deadlocks, trains>>

\* The train is there, or there is no way: the task exits, after it has read the
\* edge before the first of the route (render_train_destination) in the latter case.
NoPlan(t) ==
    /\ pc[t] = "plan" /\ deadlocks[t] <= MaxDeadlocks
    /\ \E way \in Choices(t) : Len(way) <= 1
    /\ Goto(t, "idle")
    /\ deadlocks' = [deadlocks EXCEPT ![t] = 0]
    /\ UNCHANGED <<zones, route, next, target, leg, zone_sem, trains>>

\* The next edge of the route is taken into the path.
Taken(t) ==
    /\ next' = [next EXCEPT ![t] = @ + 1]
    /\ target' = IF route[t][next[t]] \in Sensor THEN [target EXCEPT ![t] = next[t]] ELSE target

Counted(t) ==
    /\ zone_sem' = [zone_sem EXCEPT ![t][Wanted(t)] = @ + 1]
    /\ Taken(t)

Reserve(t) ==
    /\ pc[t] = "reserve" /\ next[t] <= Len(route[t])
    /\ ~Z!IsReserved(reservations, t, Wanted(t))
    /\ Z!ZoneReserve(t, Wanted(t))
    /\ Counted(t)
    /\ UNCHANGED <<pc, route, leg, deadlocks, trains>>

\* The zone is another train's: drive to the last sensor reserved, then wait for it.
Blocked(t) ==
    /\ pc[t] = "reserve" /\ next[t] <= Len(route[t])
    /\ Z!IsReserved(reservations, t, Wanted(t))
    /\ Z!ZoneReserve(t, Wanted(t))
    /\ Goto(t, IF lo[t] < target[t] THEN "drive" ELSE "wait")
    /\ UNCHANGED <<plan, leg, zone_sem, trains>>

\* The whole route is reserved.
Depart(t) ==
    /\ pc[t] = "reserve" /\ next[t] > Len(route[t])
    /\ Goto(t, "drive")
    /\ UNCHANGED <<zones, plan, leg, zone_sem, trains>>

\* zone_wait.
Wait(t) ==
    /\ pc[t] = "wait"
    /\ Z!ZoneWait(t, t, Wanted(t))
    /\ Goto(t, "waiting")
    /\ UNCHANGED <<plan, leg, zone_sem, trains>>

TimedOut(t) ==
    /\ pc[t] = "waiting" /\ answer[t] = "time_out"
    /\ Z!TakeAnswer(t)
    /\ deadlocks' = [deadlocks EXCEPT ![t] = @ + 1]
    /\ Goto(t, "plan")
    /\ Forget(t)
    /\ UNCHANGED <<reservations, zone_requests, wait_change, turned, slipped>>

Freed(t) ==
    /\ pc[t] = "waiting" /\ answer[t] = "freed"
    /\ Z!TakeAnswer(t)
    /\ Goto(t, "again")
    /\ UNCHANGED <<reservations, zone_requests, wait_change, plan, leg, zone_sem, trains>>

\* The zone is asked for again.  It may have been reserved since it was freed: the
\* task logs "nde have claimed zone" and goes on without it.
Again(t) ==
    /\ pc[t] = "again"
    /\ Z!ZoneReserve(t, Wanted(t))
    /\ \/ /\ ~Z!IsReserved(reservations, t, Wanted(t))
          /\ Counted(t)
          /\ UNCHANGED slipped
       \/ /\ Z!IsReserved(reservations, t, Wanted(t))
          /\ Taken(t)
          /\ slipped' = slipped \cup {t}
          /\ UNCHANGED zone_sem
    /\ Goto(t, "reserve")
    /\ UNCHANGED <<route, leg, deadlocks, at, turned>>

-----------------------------------------------------------------------------
(* Driving: PatherComplexPath and, for a leg, PatherSimplePath. *)

\* The train passes the next sensor: the one it has turned at, or one of its leg.
Move(t) ==
    /\ pc[t] = "drive" /\ at[t] < Stop(t)
    /\ IF turned[t] THEN turned' = [turned EXCEPT ![t] = FALSE] /\ UNCHANGED at
       ELSE /\ at' = [at EXCEPT ![t] = First({i \in @ + 1 .. Stop(t) : route[t][i] \in Sensor})]
            /\ UNCHANGED turned
    /\ UNCHANGED <<zones, pc, plan, leg, zone_sem, slipped>>

\* What has been seen is counted down.
Settled(t) == cutoff[t] > seen[t]

\* A short leg waits for its last sensor.  A turn counts as passed as well, so that
\* the zone the train stands in is given back.
SensedShort(t) ==
    /\ pc[t] = "drive" /\ lo[t] < Stop(t) /\ Short(t) /\ Settled(t)
    /\ at[t] = Stop(t) /\ seen[t] < Stop(t)
    /\ seen' = [seen EXCEPT ![t] = Hi(t)]
    /\ slipped' = IF Stop(t) < Hi(t) THEN slipped \cup {t} ELSE slipped
    /\ UNCHANGED <<zones, pc, plan, lo, cutoff, src_is_rev, zone_sem, at, turned>>

\* The sensors WaitOnSensor(-1) reports: those of all trains, perhaps late.  No other train
\* passes the place where the train is to stop, between two zones of its own.
Reported(t) ==
    {route[t][i] : i \in {j \in lo[t] + 1 .. at[t] : route[t][j] \in Sensor}}
        \cup ({route[u][at[u]] : u \in {v \in Train \ {t} : at[v] > 1 /\ ~turned[v]}}
                  \ {route[t][Stop(t)], Reverse[route[t][Stop(t)]]})

\* A long leg takes any sensor with the number of one of its places for that place:
\* switches have the numbers of sensors.
Sensed(t) ==
    /\ pc[t] = "drive" /\ lo[t] < Stop(t) /\ ~Short(t) /\ Settled(t)
    /\ seen[t] < Stop(t)
    /\ \E n \in Reported(t) :
          LET passed == {i \in cutoff[t] .. Hi(t) : Num[route[t][i]] = Num[n]}
          IN  /\ passed # {}
              /\ seen' = [seen EXCEPT ![t] = Latest(passed)]
              /\ slipped' = IF Latest(passed) > at[t] THEN slipped \cup {t} ELSE slipped
    /\ UNCHANGED <<zones, pc, plan, lo, cutoff, src_is_rev, zone_sem, at, turned>>

\* Mutant of CountDown: the count is not looked at.
CountDownAny(t, z) ==
    /\ Z!ZoneUnreserve(t, z)
    /\ zone_sem' = [zone_sem EXCEPT ![t][z] = @ - 1]

\* The zone is given back with its last count.
CountDown(t, z) ==
    /\ IF zone_sem[t][z] = 1 THEN Z!ZoneUnreserve(t, z) ELSE UNCHANGED zones
    /\ zone_sem' = [zone_sem EXCEPT ![t][z] = @ - 1]

\* Behind the sensors seen, one zone after the other; first the one where the train turned.
Release(t) ==
    /\ pc[t] = "drive" /\ ~Settled(t)
    /\ IF src_is_rev[t]
       THEN /\ CountDown(t, ZoneOf[route[t][lo[t]]])
            /\ src_is_rev' = [src_is_rev EXCEPT ![t] = FALSE]
            /\ UNCHANGED cutoff
       ELSE /\ CountDown(t, ZoneOf[route[t][cutoff[t]]])
            /\ cutoff' = [cutoff EXCEPT ![t] = @ + 1]
            /\ UNCHANGED src_is_rev
    /\ UNCHANGED <<pc, plan, lo, seen, deadlocks, trains>>

\* The leg has been driven, or is nothing but a turn.
Stopped(t) == pc[t] = "drive" /\ Settled(t) /\ (seen[t] >= Stop(t) \/ lo[t] = Stop(t))

Begin(t, i) ==
    /\ lo' = [lo EXCEPT ![t] = i]
    /\ cutoff' = [cutoff EXCEPT ![t] = i + 1]
    /\ seen' = [seen EXCEPT ![t] = i]

\* The train, standing, is turned where the route turns.
Turn(t) ==
    /\ Stopped(t) /\ Turns(route[t], Hi(t)) /\ lo[t] < Hi(t)
    /\ Begin(t, Hi(t))
    /\ src_is_rev' = [src_is_rev EXCEPT ![t] = TRUE]
    /\ at' = [at EXCEPT ![t] = Hi(t)]
    /\ turned' = [turned EXCEPT ![t] = TRUE]
    /\ UNCHANGED <<zones, pc, plan, zone_sem, slipped>>

\* Mutant of Arrived: the other zones are not given back.
ArrivedOnly(t) == UNCHANGED zones

\* zone_unreserve_all_except the zone before the last place of the path.
Arrived(t) == Z!ZoneUnreserveAll(t, {Into(route[t][target[t]])})

\* The path ends where the train stands, which is in the zone behind the last place if
\* the path ends with a turn.  The task waits for the zone it lacks, or exits.
Arrive(t) ==
    /\ Stopped(t)
    /\ lo[t] = target[t] \/ (Hi(t) = target[t] /\ ~Turns(route[t], target[t]))
    /\ Arrived(t)
    /\ slipped' = IF turned[t] THEN slipped \cup {t} ELSE slipped
    /\ UNCHANGED turned
    /\ IF next[t] > Len(route[t])
       THEN /\ Goto(t, "idle")
            /\ deadlocks' = [deadlocks EXCEPT ![t] = 0]
            /\ Forget(t)
       ELSE /\ Goto(t, "wait")
            /\ Begin(t, target[t])
            /\ src_is_rev' = [src_is_rev EXCEPT ![t] = FALSE]
            /\ UNCHANGED <<plan, zone_sem, at>>

DeadlockCheck(n) == Z!ZoneDeadlock(n) /\ UNCHANGED <<pc, plan, leg, zone_sem, trains>>

-----------------------------------------------------------------------------

\* TrainSystemServer has reserved the zone of each train at boot.
Init ==
    /\ reservations = [z \in Zone |-> IF \E t \in Train : Into(Home[t]) = z
                                      THEN CHOOSE t \in Train : Into(Home[t]) = z ELSE NoTrain]
    /\ zone_requests = <<>>
    /\ wait_change = {}
    /\ answer = [t \in Train |-> "none"]
    /\ pc = [t \in Train |-> "idle"]
    /\ route = [t \in Train |-> <<Home[t]>>]
    /\ next = [t \in Train |-> 2]
    /\ target = [t \in Train |-> 1]
    /\ lo = [t \in Train |-> 1]
    /\ cutoff = [t \in Train |-> 2]
    /\ seen = [t \in Train |-> 1]
    /\ src_is_rev = [t \in Train |-> FALSE]
    /\ zone_sem = [t \in Train |-> [z \in Zone |-> 0]]
    /\ deadlocks = [t \in Train |-> 0]
    /\ at = [t \in Train |-> 1]
    /\ turned = [t \in Train |-> FALSE]
    /\ slipped = {}

Next ==
    \/ \E t \in Train :
          \/ Start(t) \/ Abort(t) \/ Plan(t) \/ NoPlan(t) \/ Reserve(t) \/ Blocked(t) \/ Depart(t)
          \/ Wait(t) \/ TimedOut(t) \/ Freed(t) \/ Again(t)
          \/ Move(t) \/ SensedShort(t) \/ Sensed(t) \/ Release(t) \/ Turn(t) \/ Arrive(t)
    \/ \E n \in 0 .. Len(zone_requests) : DeadlockCheck(n)

Spec == Init /\ [][Next]_vars

-----------------------------------------------------------------------------
(* Properties. *)

\* Every variable has its type.
TypeOK ==
    /\ reservations \in [Zone -> Train \cup {NoTrain}]
    /\ answer \in [Train -> Z!Answer]
    /\ wait_change = {}
    /\ pc \in [Train -> {"idle", "plan", "reserve", "drive", "wait", "waiting", "again"}]
    /\ route \in [Train -> Seq(Node)]
    /\ \A t \in Train : /\ next[t] \in 2 .. Len(route[t]) + 1
                        /\ target[t] \in 1 .. next[t] - 1
                        /\ at[t] \in 1 .. target[t]
                        /\ lo[t] \in 1 .. at[t]
                        /\ cutoff[t] \in lo[t] + 1 .. target[t] + 1
                        /\ seen[t] \in lo[t] .. target[t]
                        /\ deadlocks[t] \in 0 .. MaxDeadlocks + 1
    /\ zone_sem \in [Train -> [Zone -> Int]]
    /\ src_is_rev \in [Train -> BOOLEAN] /\ turned \in [Train -> BOOLEAN]
    /\ slipped \subseteq Train

\* The interlock: a train that has not slipped has reserved the zone it is in and
\* every zone up to the place it may drive to, whatever the others do meanwhile.
\* It slips when Again finds its zone taken, when a sensor is taken for a place it has not
\* reached, and when it turns at the end of a short leg or of a path.
Interlock ==
    \A t \in Train \ slipped :
        /\ reservations[Pos(t)] = t
        /\ \A i \in at[t] .. target[t] : reservations[Into(route[t][i])] = t

\* A train that has stopped, at its destination or to wait for a zone, keeps no zone
\* but the one before it: it cannot bar others from a zone it does not use.
OneZoneAtRest ==
    \A t \in Train : pc[t] \in {"idle", "plan", "wait", "waiting"} =>
                        Held(t) \subseteq {Into(route[t][at[t]])}

\* The search finds a shortest free way, and misses none.
ShortestWays == \A w \in Ways : WayFound(w.way, w.src, w.dest, w.avoid)

\* The three together.
PathInv == TypeOK /\ OneZoneAtRest /\ ShortestWays

\* Reserved zones keep trains apart: no two trains are in one zone.
NoCollision == \A t, u \in Train : Pos(t) = Pos(u) => t = u
=============================================================================
