----------------------------- MODULE TrainSystem -----------------------------
(***************************************************************************)
(* The train system server (src/user/trainsys-server) with its ReverseTask *)
(* tasks, the switch server it asks, and the tasks that send to it: the    *)
(* prompt and the path finders (commands), predictTask (sensors) and       *)
(* renderSwitchTask (switches).                                            *)
(*                                                                         *)
(* Priorities: prompt, ReverseTask and switch server 2, renderSwitchTask   *)
(* 3, train system server 4.  So the server goes on only while             *)
(* renderSwitchTask is blocked, and a command, a switch or a reverse task  *)
(* can come between any two of its steps.  The Marklin line keeps the      *)
(* order of the commands (IOServer), so a command is carried out at once.  *)
(***************************************************************************)
EXTENDS Integers, Sequences, FiniteSets, SwitchServer

CONSTANTS
    Train,          \* the trains
    MaxSpeed,       \* speeds are 0 .. MaxSpeed
    Sensor,         \* the sensors of the track, natural numbers
    Reverse,        \* the sensor at the same place for the other direction
    Ahead,          \* the node behind each sensor: a sensor, a switch, or None, an exit
    AheadBy,        \* the node behind each switch in each mode
    Start,          \* the sensor each train was last seen at; None: it is not placed
    MaxTasks        \* how many ReverseTasks can be created before the tids run out

SX == INSTANCE SequencesExt

None == -1
NotCreated == -2
Speed == 0 .. MaxSpeed

Node == Sensor \cup Switch \cup {None}

\* Where the switches lead, in each setting of them.
Leads(modes) ==
    CHOOSE f \in [Switch -> Sensor \cup {None}] :
        \A s \in Switch : LET n == AheadBy[s][modes[s]]
                         IN  f[s] = IF n \in Switch THEN f[n] ELSE n

ASSUME TrainAssumption ==
    /\ IsFiniteSet(Train) /\ MaxSpeed \in Nat /\ MaxTasks \in Nat /\ Sensor \subseteq Nat
    /\ Switch \cap (Sensor \cup {None}) = {}
    /\ Reverse \in [Sensor -> Sensor] /\ Start \in [Train -> Sensor \cup {None}]
    /\ Ahead \in [Sensor -> Node] /\ AheadBy \in [Switch -> [Mode -> Node]]

\* The track: every way comes to a sensor or to an exit; and none comes back to the place of
\* the sensor it has left, not even if switches are set while it is followed.
ASSUME TrackAssumption ==
    /\ \A modes \in [Switch -> Mode] : Leads(modes) \in [Switch -> Sensor \cup {None}]
    /\ \A modes \in [Switch -> Mode] : \A s \in Switch :
           LET n == AheadBy[s][modes[s]]
           IN  Leads(modes)[s] = IF n \in Switch THEN Leads(modes)[n] ELSE n
    /\ \A s \in Sensor : \E nodes \in SUBSET Node :
           /\ Ahead[s] \in nodes /\ Reverse[s] \notin nodes
           /\ \A n \in nodes \cap Switch :
                 /\ \A mode \in Mode : AheadBy[n][mode] \in nodes
                 /\ \A modes \in [Switch -> Mode] : Leads(modes)[n] \in nodes

VARIABLES
    train_states,        \* the speed of each train the server has last been told
    train_positions,     \* the sensor it was last seen at, or None
    train_next_sensors,  \* the next two it should hit
    reverse_tasks,       \* the tid of its ReverseTask, 0, or NotCreated
    job,                 \* the walks along the track the request still asks for
    senders,             \* the tasks in Send to the server, in the order they came
    reverser,            \* where each ReverseTask stands
    speed,               \* the speed of each train on the track
    \* history
    flipped,             \* the train has turned since it was last seen
    unannounced          \* and at least once without a word to the predictions
vars == <<switchVars, train_states, train_positions, train_next_sensors, reverse_tasks, job,
          senders, reverser, speed, flipped, unannounced>>

predictions == <<train_positions, train_next_sensors>>
reversals   == <<reverse_tasks, reverser>>
track       == <<speed, flipped, unannounced>>

\* The tasks: the ReverseTasks, a task that gives commands, predictTask, renderSwitchTask.
\* What a command or a sensor report says is chosen when the server copies it.
Tid       == 1 .. MaxTasks
Commander == MaxTasks + 1
Predictor == MaxTasks + 2
Renderer  == MaxTasks + 3
Nobody    == 0

-----------------------------------------------------------------------------
(* The track. *)

\* What find_next_sensor returns if no switch is set meanwhile; None past an exit.
Onward(s) == IF s = None THEN None ELSE Ahead[s]
Beyond(n) == IF n \in Switch THEN Leads(switch_states)[n] ELSE n
find_next_sensor(s) == Beyond(Onward(s))

\* The server expects the train to come back over the sensor it was last seen at.
Placed(t) == train_positions[t] # None
is_rev(t) == Placed(t) /\ train_next_sensors[t][1] = Reverse[train_positions[t]]

-----------------------------------------------------------------------------
(* The tasks that send to the server. *)

Waits(task) == \/ \E i \in 1 .. Len(senders) : senders[i] = task
               \/ \E i \in 1 .. Len(job) : job[i].answers = task

\* A command of the prompt or of a path finder, or a sensor report of predictTask.
Command ==
    /\ ~Waits(Commander) /\ senders' = Append(senders, Commander)
    /\ UNCHANGED <<switchVars, train_states, predictions, reversals, job, track>>

SensorReport ==
    /\ ~Waits(Predictor) /\ senders' = Append(senders, Predictor)
    /\ UNCHANGED <<switchVars, train_states, predictions, reversals, job, track>>

\* Commands that set a switch go to the switch server.
SetSwitch(s, mode) ==
    /\ ~Waits(Commander)
    /\ SwitchSet(s, mode)
    /\ UNCHANGED <<train_states, predictions, reversals, job, senders, track>>

\* renderSwitchTask tells the train system of a change, and waits for the next.
SwitchToTrain ==
    /\ renderSwitch = "told" /\ renderSwitch' = "sent"
    /\ senders' = Append(senders, Renderer)
    /\ UNCHANGED <<switch_states, train_states, predictions, reversals, job, track>>

WaitsAgain ==
    /\ WaitOnSwitchChange
    /\ UNCHANGED <<train_states, predictions, reversals, job, senders, track>>

\* ReverseTask sends after its first Delay and after its second.
ReverseTaskSends(k) ==
    /\ \/ reverser[k] = "stopping" /\ reverser' = [reverser EXCEPT ![k] = "reversing"]
       \/ reverser[k] = "reversed" /\ reverser' = [reverser EXCEPT ![k] = "restarting"]
    /\ senders' = Append(senders, k)
    /\ UNCHANGED <<switchVars, train_states, predictions, reverse_tasks, job, track>>

-----------------------------------------------------------------------------
(* The server. *)

Runs == renderSwitch \notin {"told", "answered"}
Handles(task) == /\ Runs /\ job = <<>>
                 /\ senders # <<>> /\ Head(senders) = task /\ senders' = Tail(senders)

\* io_marklin_set_train, and io_marklin_reverse_train_0 with the speed that follows.
set_train(t, v) == speed' = [speed EXCEPT ![t] = v]
reverse_train_0(t, v) ==
    set_train(t, v) /\ flipped' = [flipped EXCEPT ![t] = Placed(t) /\ ~@]

\* The calls of find_next_sensor for train t: the "first" from its position, the "second"
\* from the sensor that comes next.  "at" is the node the loop has come to.
Walk(t, stage, s, answers) ==
    [train |-> t, stage |-> stage, from |-> s, at |-> Onward(s), garbled |-> FALSE,
     answers |-> answers]

\* SYSTEM_SET_SPEED: sent at once, to a reversing train too.
HandleSetSpeed(t, v) ==
    /\ Handles(Commander)
    /\ train_states' = [train_states EXCEPT ![t] = v]
    /\ set_train(t, v)
    /\ UNCHANGED <<switchVars, predictions, reversals, job, flipped, unannounced>>

\* SYSTEM_STOP_TRAIN stops a train by turning it round; the predictions stay.
HandleStop(t) ==
    /\ Handles(Commander)
    /\ train_states' = [train_states EXCEPT ![t] = 0]
    /\ reverse_train_0(t, 0)
    /\ unannounced' = [unannounced EXCEPT ![t] = Placed(t)]
    /\ UNCHANGED <<switchVars, predictions, reversals, job>>

\* SYSTEM_SET_LIGHTS sends the speed along with the lights.
HandleSetLights(t) ==
    /\ Handles(Commander)
    /\ set_train(t, train_states[t])
    /\ UNCHANGED <<switchVars, train_states, predictions, reversals, job, flipped,
                   unannounced>>

\* SYSTEM_REVERSE of a train that reverses already.
HandleReverseRefused(t) ==
    /\ Handles(Commander)
    /\ reverse_tasks[t] # 0
    /\ UNCHANGED <<switchVars, train_states, predictions, reversals, job, track>>

\* SYSTEM_REVERSE of a standing train: turned at once, and expected back at the sensor it
\* was last seen at, whichever way it was going.  The caller is answered after the walks.
HandleReverseStanding(t) ==
    /\ Handles(Commander)
    /\ reverse_tasks[t] = 0 /\ train_states[t] = 0
    /\ reverse_train_0(t, 0)
    /\ unannounced' = [unannounced EXCEPT ![t] = @ \/ is_rev(t)]
    /\ IF Placed(t)
       THEN job' = <<Walk(t, "second", Reverse[train_positions[t]], Commander)>>
       ELSE UNCHANGED job
    /\ UNCHANGED <<switchVars, train_states, predictions, reversals>>

\* Mutant of HandleReverseMoving: a second reversal starts beside the first.
HandleReverseMovingTwice(t) ==
    LET k == Cardinality({i \in Tid : reverser[i] # "free"}) + 1 IN
    /\ Handles(Commander)
    /\ train_states[t] # 0
    /\ set_train(t, 0)
    /\ \/ /\ k \in Tid
          /\ reverse_tasks' = [reverse_tasks EXCEPT ![t] = k]
          /\ reverser' = [reverser EXCEPT ![k] = "stopping"]
       \/ /\ k \notin Tid
          /\ reverse_tasks' = [reverse_tasks EXCEPT ![t] = NotCreated]
          /\ UNCHANGED reverser
    /\ UNCHANGED <<switchVars, train_states, predictions, job, flipped, unannounced>>

\* SYSTEM_REVERSE of a moving train: it is stopped, and a ReverseTask sees to the rest;
\* if none can be created, the train stays stopped and can never be reversed again.
HandleReverseMoving(t) ==
    LET k == Cardinality({i \in Tid : reverser[i] # "free"}) + 1 IN
    /\ Handles(Commander)
    /\ reverse_tasks[t] = 0 /\ train_states[t] # 0
    /\ set_train(t, 0)
    /\ \/ /\ k \in Tid
          /\ reverse_tasks' = [reverse_tasks EXCEPT ![t] = k]
          /\ reverser' = [reverser EXCEPT ![k] = "stopping"]
       \/ /\ k \notin Tid
          /\ reverse_tasks' = [reverse_tasks EXCEPT ![t] = NotCreated]
          /\ UNCHANGED reverser
    /\ UNCHANGED <<switchVars, train_states, predictions, job, flipped, unannounced>>

\* Mutant of TurnedWalks: a train that has turned before is expected back.
TurnedWalksBack(t) ==
    IF Placed(t) THEN {<<Walk(t, "second", Reverse[train_positions[t]], Nobody)>>} ELSE {<<>>}

\* The walks for a train that a ReverseTask has turned.  One that has turned before goes on
\* from its position; whether its second sensor is known is then read from is_unknown2,
\* which is not initialised.
TurnedWalks(t) ==
    IF ~Placed(t) THEN {<<>>}
    ELSE IF is_rev(t)
    THEN {<<[Walk(t, "first", train_positions[t], Nobody) EXCEPT !.garbled = g]>> :
             g \in BOOLEAN}
    ELSE {<<Walk(t, "second", Reverse[train_positions[t]], Nobody)>>}

\* SYSTEM_REVERSE_REVERSE: the train turns, and stands.
HandleReverseReverse(k) ==
    /\ Handles(k) /\ reverser[k] = "reversing"
    /\ reverser' = [reverser EXCEPT ![k] = "reversed"]
    /\ \E t \in Train :
          /\ reverse_tasks[t] = k
          /\ reverse_train_0(t, 0)
          /\ job' \in TurnedWalks(t)
    /\ UNCHANGED <<switchVars, train_states, predictions, reverse_tasks, unannounced>>

\* Mutants of HandleReverseRestart: the train restarts with the speed it had when the
\* reversal began; the entry stays.
HandleReverseRestartStands(k) ==
    /\ Handles(k) /\ reverser[k] = "restarting"
    /\ reverser' = [reverser EXCEPT ![k] = "done"]
    /\ \E t \in Train :
          /\ reverse_tasks[t] = k
          /\ reverse_tasks' = [reverse_tasks EXCEPT ![t] = 0]
    /\ UNCHANGED <<switchVars, train_states, predictions, job, track>>

HandleReverseRestartKeeps(k) ==
    /\ Handles(k) /\ reverser[k] = "restarting"
    /\ reverser' = [reverser EXCEPT ![k] = "done"]
    /\ \E t \in Train :
          /\ reverse_tasks[t] = k
          /\ set_train(t, train_states[t])
    /\ UNCHANGED <<switchVars, train_states, predictions, reverse_tasks, job,
                   flipped, unannounced>>

\* SYSTEM_REVERSE_RESTART.
HandleReverseRestart(k) ==
    /\ Handles(k) /\ reverser[k] = "restarting"
    /\ reverser' = [reverser EXCEPT ![k] = "done"]
    /\ \E t \in Train :
          /\ reverse_tasks[t] = k
          /\ set_train(t, train_states[t])
          /\ reverse_tasks' = [reverse_tasks EXCEPT ![t] = 0]
    /\ UNCHANGED <<switchVars, train_states, predictions, job, flipped, unannounced>>

-----------------------------------------------------------------------------
(* The sensors and the switches. *)

\* The placed trains, in an order of the table TRAIN_DATA_TRAINS.
InOrder == SX!SetToSeq({t \in Train : Placed(t)})

\* The trains that expect the sensor next; if none does, those that expect it after that.
Expecting(s, depth) == {t \in Train : train_next_sensors[t][depth] = s}
Expected(s) == IF Expecting(s, 1) # {} THEN Expecting(s, 1) ELSE Expecting(s, 2)

\* SYSTEM_SENSOR_HIT of a sensor no train expects.
HandleSensorUnknown(s) ==
    /\ Handles(Predictor)
    /\ Expected(s) = {}
    /\ UNCHANGED <<switchVars, train_states, predictions, reversals, job, track>>

\* SYSTEM_SENSOR_HIT: the first train that expects the sensor is there now; predictTask is
\* answered after the walks.
HandleSensor(s) ==
    /\ Handles(Predictor)
    /\ \E i \in 1 .. Len(InOrder) :
          LET t == InOrder[i] IN
          /\ t \in Expected(s)
          /\ \A j \in 1 .. i - 1 : InOrder[j] \notin Expected(s)
          /\ train_positions' = [train_positions EXCEPT ![t] = s]
          /\ job' = <<Walk(t, "first", s, Predictor)>>
          /\ flipped' = [flipped EXCEPT ![t] = FALSE]
          /\ unannounced' = [unannounced EXCEPT ![t] = FALSE]
    /\ UNCHANGED <<switchVars, train_states, train_next_sensors, reversals, speed>>

\* What a train is walked for when a switch has changed: both sensors; or the second only,
\* if it is expected back.
Renewal(t) ==
    IF is_rev(t) THEN Walk(t, "second", train_next_sensors[t][1], Nobody)
    ELSE Walk(t, "first", train_positions[t], Nobody)

\* Mutant of HandleSwitchChange: a train that is expected back is left alone.
HandleSwitchChangeSkips ==
    /\ Handles(Renderer)
    /\ renderSwitch' = "answered"
    /\ job' = LET trains == SelectSeq(InOrder, LAMBDA t : ~is_rev(t))
              IN  [i \in 1 .. Len(trains) |-> Renewal(trains[i])]
    /\ UNCHANGED <<switch_states, train_states, predictions, reversals, track>>

\* SYSTEM_SWITCH_CHANGE: answered first; then the predictions of every train are renewed.
HandleSwitchChange ==
    /\ Handles(Renderer)
    /\ renderSwitch' = "answered"
    /\ job' = [i \in 1 .. Len(InOrder) |-> Renewal(InOrder[i])]
    /\ UNCHANGED <<switch_states, train_states, predictions, reversals, track>>

\* find_next_sensor at a switch: SwitchGet, and on to the node behind it.
WalkOn ==
    /\ Runs /\ job # <<>> /\ Head(job).at \in Switch
    /\ job' = [job EXCEPT ![1].at = AheadBy[@][switch_states[@]]]
    /\ UNCHANGED <<switchVars, train_states, predictions, reversals, senders, track>>

\* It returns from the first walk, and is called for the second.
WalkFirst ==
    /\ Runs /\ job # <<>> /\ Head(job).at \notin Switch /\ Head(job).stage = "first"
    /\ LET w == Head(job) IN
          job' = [job EXCEPT ![1] = [w EXCEPT !.stage = "second", !.from = w.at,
                                              !.at = Onward(w.at)]]
    /\ UNCHANGED <<switchVars, train_states, predictions, reversals, senders, track>>

\* It returns from the second: the predictions are renewed, and with the last train the
\* request is done.
WalkSecond ==
    /\ Runs /\ job # <<>> /\ Head(job).at \notin Switch /\ Head(job).stage = "second"
    /\ LET w == Head(job) IN
          train_next_sensors' = [train_next_sensors EXCEPT
                                   ![w.train] = <<w.from, IF w.garbled THEN None ELSE w.at>>]
    /\ job' = Tail(job)
    /\ UNCHANGED <<switchVars, train_states, train_positions, reversals, senders, track>>

ServerStep ==
    \/ \E t \in Train :
          \/ \E v \in Speed : HandleSetSpeed(t, v)
          \/ HandleStop(t) \/ HandleSetLights(t)
          \/ HandleReverseRefused(t) \/ HandleReverseStanding(t) \/ HandleReverseMoving(t)
    \/ \E k \in Tid : HandleReverseReverse(k) \/ HandleReverseRestart(k)
    \/ \E s \in Sensor : HandleSensorUnknown(s) \/ HandleSensor(s)
    \/ HandleSwitchChange
    \/ WalkOn \/ WalkFirst \/ WalkSecond

Init ==
    /\ SwitchInit
    /\ train_states = [t \in Train |-> 0]
    /\ train_positions = Start
    /\ train_next_sensors = [t \in Train |->
           <<find_next_sensor(Start[t]), find_next_sensor(find_next_sensor(Start[t]))>>]
    /\ reverse_tasks = [t \in Train |-> 0]
    /\ reverser = [k \in Tid |-> "free"]
    /\ job = <<>> /\ senders = <<>>
    /\ speed = [t \in Train |-> 0]
    /\ flipped = [t \in Train |-> FALSE] /\ unannounced = [t \in Train |-> FALSE]

Next ==
    \/ Command \/ SensorReport
    \/ \E s \in Switch, mode \in Mode : SetSwitch(s, mode)
    \/ SwitchToTrain \/ WaitsAgain
    \/ \E k \in Tid : ReverseTaskSends(k)
    \/ ServerStep

\* The scheduler serves every task in the end, and a Delay ends (ClockServer!CallsReturn).
\* Commands and trains are not fair.
Spec == /\ Init /\ [][Next]_vars
        /\ WF_vars(ServerStep) /\ WF_vars(SwitchToTrain) /\ WF_vars(WaitsAgain)
        /\ \A k \in Tid : WF_vars(ReverseTaskSends(k))

-----------------------------------------------------------------------------
(* Properties. *)

\* Every variable has its type; every task has one message on its way at most.
TypeOK ==
    /\ SwitchTypeOK
    /\ train_states \in [Train -> Speed] /\ speed \in [Train -> Speed]
    /\ train_positions \in [Train -> Sensor \cup {None}]
    /\ train_next_sensors \in [Train -> (Sensor \cup {None}) \X (Sensor \cup {None})]
    /\ reverse_tasks \in [Train -> Tid \cup {0, NotCreated}]
    /\ reverser \in [Tid -> {"free", "stopping", "reversing", "reversed", "restarting", "done"}]
    /\ job \in Seq([train : Train, stage : {"first", "second"}, from : Sensor \cup {None},
                    at : Node, garbled : BOOLEAN, answers : {Predictor, Commander, Nobody}])
    /\ senders \in Seq(Tid \cup {Commander, Predictor, Renderer})
    /\ \A i, j \in 1 .. Len(senders) : senders[i] = senders[j] => i = j
    /\ flipped \in [Train -> BOOLEAN] /\ unannounced \in [Train -> BOOLEAN]

\* Each ReverseTask at work is the one its train's entry names, and each entry names one
\* at work: no reversal is started beside another, and none is taken for another's.
ReversalsOwned ==
    \A k \in Tid :
        LET owners == {t \in Train : reverse_tasks[t] = k}
        IN  Cardinality(owners) = IF reverser[k] \in {"free", "done"} THEN 0 ELSE 1

\* However commands, reversals and sensors interleave, a train has one reversal at most.
TrainsInv == TypeOK /\ ReversalsOwned

\* Outside of a reversal a train runs at the speed that was last asked for, whatever was
\* asked while it was being reversed.
SpeedKept ==
    \A t \in Train : reverse_tasks[t] = 0 => speed[t] = train_states[t]

\* The predictions follow the trains' turns: a train is expected back at the sensor it was
\* last seen at if and only if it has turned an odd number of times since.  Exempt are
\* trains turned without a word to the predictions: by SYSTEM_STOP_TRAIN, or standing, by
\* a second SYSTEM_REVERSE.
TurnsPredicted ==
    job = <<>> => \A t \in Train : Placed(t) => unannounced[t] \/ is_rev(t) = flipped[t]

\* The predictions follow the switches: when no change is under way, the next sensors are
\* those the switches lead to; of the second it may at worst not be known.
SwitchesPredicted ==
    renderSwitch = "waits" /\ job = <<>> =>
        \A t \in Train :
            LET next == train_next_sensors[t] IN
            Placed(t) =>
            /\ is_rev(t) \/ next[1] = find_next_sensor(train_positions[t])
            /\ next[2] \in {None, find_next_sensor(next[1])}

\* Every reversal comes to its end, at which the train restarts.
ReversalsEnd ==
    \A t \in Train : reverse_tasks[t] \in Tid ~> reverse_tasks[t] = 0
=============================================================================
