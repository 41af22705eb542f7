------------------------------ MODULE PacTrain ------------------------------
(***************************************************************************)
(* The pacman server (src/user/pactrain-server).  The prompt starts a game *)
(* only when none is on, with different trains.                            *)
(***************************************************************************)
EXTENDS Errands

CONSTANTS
    Sensor,       \* sensors of the track
    Reverse_,     \* the sensor at the same place for the other direction
    FoodList,     \* those that get food
    GhostScore,   \* the scores at which ghosts join: for the index of each that does
    MaxScore      \* bound: nothing tells higher scores apart

ASSUME PacTrainAssumption ==
    /\ FoodList \subseteq Sensor /\ FoodList # {} /\ IsFiniteSet(Sensor)
    /\ Reverse_ \in [Sensor -> Sensor]
    /\ DOMAIN GhostScore \subseteq Slot \ {0} /\ MaxScore \in Nat
    /\ GhostScore \in [DOMAIN GhostScore -> 0 .. MaxScore]

VARIABLES
    food_sensors,   \* the sensors with food
    eaten, score,
    predictor       \* predictTask has a sensor: it "asks" whose, or it is the pacman train's
pacVars == <<food_sensors, eaten, score, predictor>>

FOOD_COUNT == Cardinality(FoodList)
Scored(n)  == IF n < MaxScore THEN n ELSE MaxScore

\* The indices whose ghosts join at score n. They do so in ascending order.
Joining(n)  == {i \in DOMAIN GhostScore : helper_tids[i] = None /\ n >= GhostScore[i]}
Ascends(is) == \A j, k \in DOMAIN is : j < k => is[j] < is[k]

HandleStartGame ==
    /\ Handles(Prompt)
    /\ \A h \in Helper : Gone(h)
    /\ Cardinality(Unborn) >= Slots
    /\ route_trains' = Route /\ exiting' = FALSE
    /\ eaten' = 0 /\ score' = 0 /\ food_sensors' = FoodList
    /\ todo' = <<[index |-> 0, type |-> "SPAWN"]>>
    /\ UNCHANGED <<helper_tids, ending, at, train, path, await, lost, predictor>>

\* Mutant of getRandomFoodDest: the count is not reset.
getRandomFoodDestKeeps ==
    /\ food_sensors' = IF eaten = FOOD_COUNT THEN FoodList ELSE food_sensors
    /\ score' = IF eaten = FOOD_COUNT THEN Scored(score + 150) ELSE score
    /\ UNCHANGED eaten

\* getRandomFoodDest for the train type PAC_TRAIN, which every request has.
getRandomFoodDest ==
    /\ food_sensors' = IF eaten = FOOD_COUNT THEN FoodList ELSE food_sensors
    /\ eaten' = IF eaten = FOOD_COUNT THEN 0 ELSE eaten
    /\ score' = IF eaten = FOOD_COUNT THEN Scored(score + 150) ELSE score

HandleReachedFoodDest(h) ==
    /\ getRandomFoodDest
    /\ \E is \in SetToSeqs(Joining(score')) : Ascends(is) /\ HandleReached(h, is)
    /\ UNCHANGED predictor

\* Mutant of HandleGameOver: helpers that wait for their paths are spared.
HandleGameOverSpares ==
    /\ \E h \in Helper : Handles(PathOf(h))
    /\ at' = [h \in Helper |-> IF h \in Range(helper_tids) /\ at[h] # "waits" THEN "gone" ELSE at[h]]
    /\ await' = await
    /\ route_trains' = [i \in Slot |-> None] /\ helper_tids' = [i \in Slot |-> None]
    /\ UNCHANGED <<exiting, todo, ending, train, path, lost, pacVars>>

\* PAC_TRAIN_DEADLOCK: the helpers are killed, in whatever they are, and the trains are
\* sent to their places; nothing waits for these last paths.
HandleGameOver ==
    /\ \E h \in Helper : Handles(PathOf(h))
    /\ at' = [h \in Helper |-> IF h \in Range(helper_tids) THEN "gone" ELSE at[h]]
    /\ await' = [w \in DOMAIN await |-> IF w \in Range(helper_tids) THEN "no" ELSE await[w]]
    /\ route_trains' = [i \in Slot |-> None] /\ helper_tids' = [i \in Slot |-> None]
    /\ UNCHANGED <<exiting, todo, ending, train, path, lost, pacVars>>

\* TRAIN_IDENTITY_QUERY for the train that has hit predictTask's sensor.
HandleTrainIdentity(t) ==
    /\ Handles(Asker) /\ predictor = "asks"
    /\ predictor' = IF t = route_trains[0] THEN "pacman" ELSE "asks"
    /\ UNCHANGED <<helper_tids, route_trains, exiting, todo, ending, at, train, path, await,
                   lost, food_sensors, eaten, score>>

\* Mutant of HandleAteFood: food is eaten again.
HandleAteFoodAgain(s) ==
    LET ate == {s, Reverse_[s]} \cap FoodList IN
    /\ Handles(Asker) /\ predictor = "pacman" /\ predictor' = "asks"
    /\ food_sensors' = food_sensors \ ate
    /\ eaten' = eaten + Cardinality(ate)
    /\ score' = Scored(score + 5 * Cardinality(ate))
    /\ UNCHANGED <<helper_tids, route_trains, exiting, todo, ending, at, train, path, await,
                   lost>>

\* ATE_FOOD: the food for both directions.
HandleAteFood(s) ==
    LET ate == {s, Reverse_[s]} \cap food_sensors IN
    /\ Handles(Asker) /\ predictor = "pacman" /\ predictor' = "asks"
    /\ food_sensors' = food_sensors \ ate
    /\ eaten' = eaten + Cardinality(ate)
    /\ score' = Scored(score + 5 * Cardinality(ate))
    /\ UNCHANGED <<helper_tids, route_trains, exiting, todo, ending, at, train, path, await,
                   lost>>

\* GET_PAC_TRAIN of the zone server.
HandleGetPacTrain ==
    /\ Handles(Asker)
    /\ UNCHANGED <<helper_tids, route_trains, exiting, todo, ending, at, train, path, await,
                   lost, pacVars>>

\* The task of a path of the pacman train finds no way to any sensor.
FindsNoWay(h) ==
    /\ path[h] = "runs" /\ train[h] = route_trains[0]
    /\ Calls(PathOf(h))
    /\ UNCHANGED <<helper_tids, route_trains, exiting, todo, ending, at, train, path, await,
                   lost, pacVars>>

PacInit ==
    /\ ErrandsInit
    /\ food_sensors = {} /\ eaten = 0 /\ score = 0 /\ predictor = "asks"

PacStep ==
    \/ HandleStartGame
    \/ \E h \in Helper : HandleReachedFoodDest(h)
    \/ HandleGameOver
    \/ \E t \in Train : HandleTrainIdentity(t)
    \/ \E s \in Sensor : HandleAteFood(s)
    \/ HandleGetPacTrain
=============================================================================
