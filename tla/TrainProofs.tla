----------------------------- MODULE TrainProofs -----------------------------
(***************************************************************************)
(* Theorems about the train system server, for any trains, any track and   *)
(* any number of reversals: no reversal is lost, doubled or taken for      *)
(* another's, a train keeps the speed asked for last, and the predictions  *)
(* follow the trains' turns and the switches.                              *)
(***************************************************************************)
EXTENDS TrainSystem, FiniteSetTheorems, SequenceTheorems, TLAPS

WalkRecord == [train : Train, stage : {"first", "second"}, from : Sensor \cup {None},
               at : Node, garbled : BOOLEAN, answers : {Predictor, Commander, Nobody}]
Sender     == Tid \cup {Commander, Predictor, Renderer}

-----------------------------------------------------------------------------
(* The inductive invariant. *)

\* The nodes a walk from sensor s can come to, however the switches are set meanwhile.
OnWay(n, s) ==
    \A nodes \in SUBSET Node :
        /\ Ahead[s] \in nodes
        /\ \A x \in nodes \cap Switch : \A mode \in Mode : AheadBy[x][mode] \in nodes
        => n \in nodes

\* The ReverseTasks are created in the order of their tids; those at work and the entries
\* name each other; a task that has sent waits for its answer.
Owned ==
    /\ \E n \in 0 .. MaxTasks : \A k \in Tid : reverser[k] = "free" <=> k > n
    /\ \A k \in Tid : reverser[k] \notin {"free", "done"}
                         <=> \E t \in Train : reverse_tasks[t] = k
    /\ \A t, u \in Train : reverse_tasks[t] \in Tid /\ reverse_tasks[t] = reverse_tasks[u] => t = u

Sent ==
    \A i \in 1 .. Len(senders) :
        /\ senders[i] \in Tid => reverser[senders[i]] \in {"reversing", "restarting"}
        /\ senders[i] = Renderer => renderSwitch = "sent"

\* A request walks for a train once, and the first walk is one from its position on.
Walks ==
    /\ \A i, j \in 1 .. Len(job) : job[i].train = job[j].train => i = j
    /\ \A i \in 1 .. Len(job) :
          LET w == job[i] IN
          /\ Placed(w.train)
          /\ w.stage = "first" => /\ w.from = train_positions[w.train]
                                  /\ OnWay(w.at, w.from)

\* The train will be expected back when the walk is done.
TurnsBack(w) == w.stage = "second" /\ w.from = Reverse[train_positions[w.train]]

Unwalked(t) == Placed(t) /\ \A i \in 1 .. Len(job) : job[i].train # t

Turned ==
    /\ \A i \in 1 .. Len(job) :
          LET w == job[i] IN unannounced[w.train] \/ (TurnsBack(w) <=> flipped[w.train])
    /\ \A t \in Train : Unwalked(t) => unannounced[t] \/ (is_rev(t) <=> flipped[t])

\* A walk that has read no switch yet, for a train that is expected back or for both sensors.
Fresh(w) ==
    /\ w.at = Onward(w.from)
    /\ w.stage = "second" => w.from = Reverse[train_positions[w.train]]

\* A walk that has come where the switches lead.
Right(w) ==
    LET s == train_positions[w.train] IN
    /\ Beyond(w.at) = find_next_sensor(w.from)
    /\ w.stage = "second" => w.from \in {Reverse[s], find_next_sensor(s)}

Predicted(t) ==
    LET next == train_next_sensors[t] IN
    /\ is_rev(t) \/ next[1] = find_next_sensor(train_positions[t])
    /\ next[2] \in {None, find_next_sensor(next[1])}

\* No change of a switch is forgotten: while none is under way, every walk and every prediction
\* is up to date; and when renderSwitchTask has been answered, every train is still to be walked for.
Switched ==
    /\ renderSwitch = "waits" =>
          /\ \A i \in 1 .. Len(job) : Right(job[i])
          /\ \A t \in Train : Unwalked(t) => Predicted(t)
    /\ renderSwitch = "answered" =>
          /\ \A i \in 1 .. Len(job) : Fresh(job[i])
          /\ \A t \in Train : ~Unwalked(t)

IInv == TypeOK /\ Owned /\ Sent /\ Walks /\ Turned /\ Switched

-----------------------------------------------------------------------------
(* The track. *)

\* A way begins at a node, follows the switches, and ends at a sensor or an exit.
LEMMA WaysLead ==
    ASSUME SwitchTypeOK
    PROVE  /\ None \notin Sensor /\ None \in Node /\ Sensor \subseteq Node
           /\ \A s \in Sensor \cup {None} : Onward(s) \in Node
           /\ \A n \in Node : Beyond(n) \in Sensor \cup {None}
           /\ \A n \in Node \ Switch : Beyond(n) = n /\ n \in Sensor \cup {None}
           /\ \A n \in Node \cap Switch : /\ AheadBy[n][switch_states[n]] \in Node
                                          /\ Beyond(AheadBy[n][switch_states[n]]) = Beyond(n)
           /\ \A s \in Sensor \cup {None} : find_next_sensor(s) \in Sensor \cup {None}
<1>1. None \notin Sensor /\ None \in Node /\ Sensor \subseteq Node
  BY TrainAssumption DEF None, Node
<1>2. \A s \in Sensor \cup {None} : Onward(s) \in Node
  BY <1>1, TrainAssumption DEF Onward
<1>3. /\ switch_states \in [Switch -> Mode]
      /\ Leads(switch_states) \in [Switch -> Sensor \cup {None}]
  BY TrackAssumption DEF SwitchTypeOK
<1>4. \A n \in Node : Beyond(n) \in Sensor \cup {None}
  BY <1>3 DEF Beyond, Node
<1>5. \A n \in Node \ Switch : Beyond(n) = n /\ n \in Sensor \cup {None}
  BY DEF Beyond, Node
<1>6. ASSUME NEW n \in Node \cap Switch
      PROVE  /\ AheadBy[n][switch_states[n]] \in Node
             /\ Beyond(AheadBy[n][switch_states[n]]) = Beyond(n)
  <2> DEFINE to == AheadBy[n][switch_states[n]]
  <2>1. switch_states[n] \in Mode /\ to \in Node
    BY <1>3, TrainAssumption
  <2>2. Leads(switch_states)[n] = IF to \in Switch THEN Leads(switch_states)[to] ELSE to
    BY <1>3, TrackAssumption
  <2> QED
    BY <2>1, <2>2 DEF Beyond
<1>7. \A s \in Sensor \cup {None} : find_next_sensor(s) \in Sensor \cup {None}
  BY <1>2, <1>4 DEF find_next_sensor
<1> QED
  BY <1>1, <1>2, <1>4, <1>5, <1>6, <1>7

\* However the switches are set, a train does not come back to where it is without a sensor
\* between.
LEMMA NeverBack ==
    ASSUME SwitchTypeOK, NEW s \in Sensor
    PROVE  /\ OnWay(Ahead[s], s)
           /\ \A n \in Switch, mode \in Mode : OnWay(n, s) => OnWay(AheadBy[n][mode], s)
           /\ \A n \in Node : OnWay(n, s) => n # Reverse[s]
           /\ find_next_sensor(s) # Reverse[s]
<1>1. OnWay(Ahead[s], s)
  BY DEF OnWay
<1>2. \A n \in Switch, mode \in Mode : OnWay(n, s) => OnWay(AheadBy[n][mode], s)
  BY DEF OnWay
<1>3. PICK nodes \in SUBSET Node :
           /\ Ahead[s] \in nodes /\ Reverse[s] \notin nodes
           /\ \A n \in nodes \cap Switch :
                 /\ \A mode \in Mode : AheadBy[n][mode] \in nodes
                 /\ \A modes \in [Switch -> Mode] : Leads(modes)[n] \in nodes
  BY TrackAssumption
<1>4. \A n \in Node : OnWay(n, s) => n # Reverse[s]
  BY <1>3 DEF OnWay
<1>5. find_next_sensor(s) # Reverse[s]
  <2>1. s # None /\ switch_states \in [Switch -> Mode]
    BY WaysLead DEF SwitchTypeOK
  <2>2. find_next_sensor(s) = Beyond(Ahead[s])
    BY <2>1 DEF find_next_sensor, Onward
  <2>3. Beyond(Ahead[s]) \in nodes
    BY <1>3, <2>1 DEF Beyond
  <2> QED
    BY <1>3, <2>2, <2>3
<1> QED
  BY <1>1, <1>2, <1>4, <1>5

\* The table of the trains holds every train that is placed, once.
LEMMA InOrderProperties ==
    /\ InOrder \in Seq(Train)
    /\ \A i \in 1 .. Len(InOrder) : Placed(InOrder[i])
    /\ \A i, j \in 1 .. Len(InOrder) : InOrder[i] = InOrder[j] => i = j
    /\ \A t \in Train : Placed(t) => \E i \in 1 .. Len(InOrder) : InOrder[i] = t
<1> DEFINE S == {t \in Train : Placed(t)}
           n == Cardinality(S)
<1>1. IsFiniteSet(S) /\ n \in Nat /\ ExistsBijection(1 .. n, S)
  BY TrainAssumption, FS_Subset, FS_CardinalityType
<1>2. \E f \in [1 .. n -> S] : SX!IsInjective(f)
  BY <1>1 DEF ExistsBijection, Bijection, Injection, IsInjective, SX!IsInjective
<1>3. InOrder = CHOOSE f \in [1 .. n -> S] : SX!IsInjective(f)
  BY DEF InOrder, SX!SetToSeq, Cardinality, SX!Cardinality
<1>4. InOrder \in [1 .. n -> S] /\ SX!IsInjective(InOrder)
  BY <1>2, <1>3
<1>5. InOrder \in Seq(S) /\ Len(InOrder) = n
  <2> HIDE DEF S, n
  <2> QED
    BY <1>1, <1>4, SeqDef
<1>6. \A i, j \in 1 .. n : InOrder[i] = InOrder[j] => i = j
  BY <1>4 DEF SX!IsInjective
<1>7. InOrder \in Injection(1 .. n, S)
  BY <1>4, <1>6 DEF Injection, IsInjective
<1>8. Cardinality(1 .. n) = n
  BY <1>1, FS_Interval
<1>9. InOrder \in Surjection(1 .. n, S)
  BY <1>1, <1>7, <1>8, FS_Injection
<1>10. \A t \in S : \E i \in 1 .. n : InOrder[i] = t
  BY <1>9 DEF Surjection
<1> QED
  BY <1>4, <1>5, <1>6, <1>10

-----------------------------------------------------------------------------
(* Who changes what. *)

Changes ==
    /\ UNCHANGED switch_states \/ \E s \in Switch, mode \in Mode : SetSwitch(s, mode)
    /\ \/ UNCHANGED renderSwitch \/ SwitchToTrain \/ WaitsAgain \/ HandleSwitchChange
       \/ \E s \in Switch, mode \in Mode : SetSwitch(s, mode)
    /\ \/ UNCHANGED <<train_states, speed>>
       \/ \E t \in Train : \/ \E v \in Speed : HandleSetSpeed(t, v)
                           \/ HandleStop(t) \/ HandleSetLights(t)
                           \/ HandleReverseStanding(t) \/ HandleReverseMoving(t)
       \/ \E k \in Tid : HandleReverseReverse(k) \/ HandleReverseRestart(k)
    /\ UNCHANGED train_positions \/ \E s \in Sensor : HandleSensor(s)
    /\ UNCHANGED train_next_sensors \/ WalkSecond
    /\ \/ UNCHANGED reversals
       \/ \E t \in Train : HandleReverseMoving(t)
       \/ \E k \in Tid : \/ ReverseTaskSends(k)
                         \/ HandleReverseReverse(k) \/ HandleReverseRestart(k)
    /\ \/ UNCHANGED job \/ HandleSwitchChange \/ WalkOn \/ WalkFirst \/ WalkSecond
       \/ \E t \in Train : HandleReverseStanding(t)
       \/ \E k \in Tid : HandleReverseReverse(k)
       \/ \E s \in Sensor : HandleSensor(s)
    /\ \/ UNCHANGED <<flipped, unannounced>>
       \/ \E t \in Train : HandleStop(t) \/ HandleReverseStanding(t)
       \/ \E k \in Tid : HandleReverseReverse(k)
       \/ \E s \in Sensor : HandleSensor(s)

LEMMA WhatChanges == [Next]_vars => Changes
<1> SUFFICES ASSUME [Next]_vars PROVE Changes
  OBVIOUS
<1> USE DEF switchVars, predictions, reversals, track
<1>1. CASE UNCHANGED vars
  BY <1>1 DEF vars, Changes
<1>2. CASE Command \/ SensorReport
  BY <1>2 DEF Command, SensorReport, Changes
<1>3. CASE \E s \in Switch, mode \in Mode : SetSwitch(s, mode)
  BY <1>3 DEF SetSwitch, Changes
<1>4. CASE SwitchToTrain
  BY <1>4 DEF SwitchToTrain, Changes
<1>5. CASE WaitsAgain
  BY <1>5 DEF WaitsAgain, WaitOnSwitchChange, Changes
<1>6. CASE \E k \in Tid : ReverseTaskSends(k)
  BY <1>6 DEF ReverseTaskSends, Changes
<1>7. CASE \E t \in Train : \E v \in Speed : HandleSetSpeed(t, v)
  BY <1>7 DEF HandleSetSpeed, Changes
<1>8. CASE \E t \in Train : HandleStop(t)
  BY <1>8 DEF HandleStop, Changes
<1>9. CASE \E t \in Train : HandleSetLights(t)
  BY <1>9 DEF HandleSetLights, Changes
<1>10. CASE \E t \in Train : HandleReverseRefused(t)
  BY <1>10 DEF HandleReverseRefused, Changes
<1>11. CASE \E t \in Train : HandleReverseStanding(t)
  BY <1>11 DEF HandleReverseStanding, Changes
<1>12. CASE \E t \in Train : HandleReverseMoving(t)
  BY <1>12 DEF HandleReverseMoving, Changes
<1>13. CASE \E k \in Tid : HandleReverseReverse(k)
  BY <1>13 DEF HandleReverseReverse, Changes
<1>14. CASE \E k \in Tid : HandleReverseRestart(k)
  BY <1>14 DEF HandleReverseRestart, Changes
<1>15. CASE \E s \in Sensor : HandleSensorUnknown(s)
  BY <1>15 DEF HandleSensorUnknown, Changes
<1>16. CASE \E s \in Sensor : HandleSensor(s)
  BY <1>16 DEF HandleSensor, Changes
<1>17. CASE HandleSwitchChange
  BY <1>17 DEF HandleSwitchChange, Changes
<1>18. CASE WalkOn \/ WalkFirst
  BY <1>18 DEF WalkOn, WalkFirst, Changes
<1>19. CASE WalkSecond
  BY <1>19 DEF WalkSecond, Changes
<1> QED
  BY <1>1, <1>2, <1>3, <1>4, <1>5, <1>6, <1>7, <1>8, <1>9, <1>10, <1>11, <1>12, <1>13, <1>14,
     <1>15, <1>16, <1>17, <1>18, <1>19 DEF Next, ServerStep

-----------------------------------------------------------------------------
(* The messages to the server. *)

LEMMA SendersDiffer ==
    ASSUME MaxTasks \in Nat
    PROVE  /\ Commander \notin Tid /\ Predictor \notin Tid /\ Renderer \notin Tid
           /\ Commander # Renderer /\ Predictor # Renderer /\ Commander # Predictor
           /\ 0 \notin Tid /\ NotCreated \notin Tid
BY DEF Commander, Predictor, Renderer, Tid, NotCreated

LEMMA Types ==
    ASSUME TypeOK
    PROVE  /\ senders \in Seq(Sender) /\ Len(senders) \in Nat
           /\ \A i \in 1 .. Len(senders) : senders[i] \in Sender
           /\ \A i, j \in 1 .. Len(senders) : senders[i] = senders[j] => i = j
           /\ job \in Seq(WalkRecord) /\ Len(job) \in Nat
           /\ \A i \in 1 .. Len(job) : job[i] \in WalkRecord
<1>1. senders \in Seq(Sender) /\ job \in Seq(WalkRecord)
  BY DEF TypeOK, Sender, WalkRecord
<1>2. \A i, j \in 1 .. Len(senders) : senders[i] = senders[j] => i = j
  BY DEF TypeOK
<1> QED
  BY <1>1, <1>2, LenProperties, ElementOfSeq

\* A task sends: its message is the last.
LEMMA Sending ==
    ASSUME TypeOK, NEW task \in Sender, senders' = Append(senders, task),
           \A i \in 1 .. Len(senders) : senders[i] # task
    PROVE  /\ senders' \in Seq(Sender)
           /\ \A i \in 1 .. Len(senders') : \/ senders'[i] = task
                                            \/ i \in 1 .. Len(senders) /\ senders'[i] = senders[i]
           /\ \A i, j \in 1 .. Len(senders') : senders'[i] = senders'[j] => i = j
<1>1. /\ senders \in Seq(Sender) /\ Len(senders) \in Nat
      /\ \A i, j \in 1 .. Len(senders) : senders[i] = senders[j] => i = j
  BY Types
<1>2. /\ senders' \in Seq(Sender) /\ Len(senders') = Len(senders) + 1
      /\ \A i \in 1 .. Len(senders) : senders'[i] = senders[i]
      /\ senders'[Len(senders) + 1] = task
  BY <1>1, AppendProperties
<1>3. \A i \in 1 .. Len(senders') : i \in 1 .. Len(senders) \/ i = Len(senders) + 1
  BY <1>1, <1>2
<1> QED
  BY <1>1, <1>2, <1>3

\* The server takes the first message, and no request is unfinished.
LEMMA Handling ==
    ASSUME TypeOK, NEW task, Handles(task)
    PROVE  /\ job = <<>> /\ Len(job) = 0 /\ Runs
           /\ task \in Sender
           /\ senders' \in Seq(Sender)
           /\ 1 \in 1 .. Len(senders) /\ senders[1] = task
           /\ \A i \in 1 .. Len(senders') :
                 \E j \in 1 .. Len(senders) : j # 1 /\ senders'[i] = senders[j]
           /\ \A i \in 1 .. Len(senders') : senders'[i] # task
           /\ \A i, j \in 1 .. Len(senders') : senders'[i] = senders'[j] => i = j
<1>1. /\ senders \in Seq(Sender) /\ Len(senders) \in Nat /\ senders # <<>>
      /\ \A i, j \in 1 .. Len(senders) : senders[i] = senders[j] => i = j
      /\ job = <<>> /\ Runs /\ Head(senders) = task /\ senders' = Tail(senders)
  BY Types DEF Handles
<1>2. /\ Head(senders) \in Sender /\ senders' \in Seq(Sender)
      /\ Len(senders') = Len(senders) - 1
      /\ \A i \in 1 .. Len(senders') : senders'[i] = senders[i + 1]
  BY <1>1, HeadTailProperties
<1>3. Len(senders) > 0 /\ senders[1] = task
  BY <1>1, EmptySeq
<1>4. \A i \in 1 .. Len(senders') : i + 1 \in 1 .. Len(senders) /\ i + 1 # 1
  BY <1>1, <1>2
<1>5. 1 \in 1 .. Len(senders)
  BY <1>1, <1>3
<1>6. \A i \in 1 .. Len(senders') : senders'[i] # task
  BY <1>1, <1>2, <1>3, <1>4, <1>5
<1>7. \A i, j \in 1 .. Len(senders') : senders'[i] = senders'[j] => i = j
  BY <1>1, <1>2, <1>4
<1>8. Len(job) = 0
  BY <1>1
<1> QED
  BY <1>1, <1>2, <1>3, <1>4, <1>5, <1>6, <1>7, <1>8

-----------------------------------------------------------------------------
(* The reversals. *)

\* A reversal is started with the next tid, if there is one.
LEMMA Started ==
    ASSUME TypeOK, Owned, NEW t \in Train, HandleReverseMoving(t)
    PROVE  \/ \E n \in 0 .. MaxTasks - 1 :
                 /\ n + 1 \in Tid
                 /\ \A k \in Tid : reverser[k] = "free" <=> k > n
                 /\ reverse_tasks' = [reverse_tasks EXCEPT ![t] = n + 1]
                 /\ reverser' = [reverser EXCEPT ![n + 1] = "stopping"]
           \/ /\ reverse_tasks' = [reverse_tasks EXCEPT ![t] = NotCreated]
              /\ UNCHANGED reverser
<1>1. PICK n \in 0 .. MaxTasks : \A k \in Tid : reverser[k] = "free" <=> k > n
  BY DEF Owned
<1>2. MaxTasks \in Nat /\ n \in Nat /\ n <= MaxTasks
  BY <1>1, TrainAssumption
<1> DEFINE k == Cardinality({i \in Tid : reverser[i] # "free"}) + 1
<1>3. {i \in Tid : reverser[i] # "free"} = 1 .. n
  BY <1>1, <1>2 DEF Tid
<1>4. k = n + 1
  <2>1. Cardinality(1 .. n) = n
    BY <1>2, FS_Interval
  <2> QED
    BY <1>3, <2>1
<1>5. \/ /\ k \in Tid
         /\ reverse_tasks' = [reverse_tasks EXCEPT ![t] = k]
         /\ reverser' = [reverser EXCEPT ![k] = "stopping"]
      \/ /\ reverse_tasks' = [reverse_tasks EXCEPT ![t] = NotCreated]
         /\ UNCHANGED reverser
  BY DEF HandleReverseMoving
<1> HIDE DEF k
<1>6. CASE k \in Tid /\ reverse_tasks' = [reverse_tasks EXCEPT ![t] = k]
                     /\ reverser' = [reverser EXCEPT ![k] = "stopping"]
  <2>1. n \in 0 .. MaxTasks - 1
    BY <1>2, <1>4, <1>6 DEF Tid
  <2> QED
    BY <1>1, <1>4, <1>6, <2>1
<1> QED
  BY <1>5, <1>6

\* A ReverseTask is not "free" or at another of its sends while its message waits.
LEMMA SendersStep ==
    IInv /\ [Next]_vars =>
        /\ senders' \in Seq(Sender)
        /\ \A i, j \in 1 .. Len(senders') : senders'[i] = senders'[j] => i = j
        /\ Sent'
<1> SUFFICES ASSUME IInv, [Next]_vars
             PROVE  /\ senders' \in Seq(Sender)
                    /\ \A i, j \in 1 .. Len(senders') : senders'[i] = senders'[j] => i = j
                    /\ Sent'
  OBVIOUS
<1>a. TypeOK /\ Sent /\ Owned
  BY DEF IInv
<1>b. /\ senders \in Seq(Sender)
      /\ \A i, j \in 1 .. Len(senders) : senders[i] = senders[j] => i = j
      /\ reverser \in [Tid -> {"free", "stopping", "reversing", "reversed", "restarting", "done"}]
  BY <1>a, Types DEF TypeOK
<1>c. /\ Commander \notin Tid /\ Predictor \notin Tid /\ Renderer \notin Tid
      /\ Commander # Renderer /\ Predictor # Renderer
      /\ Commander \in Sender /\ Predictor \in Sender /\ Renderer \in Sender /\ Tid \subseteq Sender
  BY TrainAssumption, SendersDiffer DEF Sender
<1>1. CASE Command \/ SensorReport
  <2>1. PICK task \in {Commander, Predictor} :
            senders' = Append(senders, task) /\ \A i \in 1 .. Len(senders) : senders[i] # task
    BY <1>1 DEF Command, SensorReport, Waits
  <2>2. reverser' = reverser /\ renderSwitch' = renderSwitch
    BY <1>1 DEF Command, SensorReport, reversals, switchVars
  <2> QED
    BY <1>a, <1>c, <2>1, <2>2, Sending DEF Sent
<1>2. CASE SwitchToTrain
  <2>1. /\ renderSwitch = "told" /\ renderSwitch' = "sent" /\ senders' = Append(senders, Renderer)
        /\ reverser' = reverser
    BY <1>2 DEF SwitchToTrain, reversals
  <2>2. \A i \in 1 .. Len(senders) : senders[i] # Renderer
    BY <1>a, <2>1 DEF Sent
  <2> QED
    BY <1>a, <1>c, <2>1, <2>2, Sending DEF Sent
<1>3. ASSUME NEW k \in Tid, ReverseTaskSends(k)
      PROVE  /\ senders' \in Seq(Sender)
             /\ \A i, j \in 1 .. Len(senders') : senders'[i] = senders'[j] => i = j
             /\ Sent'
  <2>1. /\ reverser[k] \in {"stopping", "reversed"} /\ senders' = Append(senders, k)
        /\ reverser' \in {[reverser EXCEPT ![k] = "reversing"], [reverser EXCEPT ![k] = "restarting"]}
        /\ renderSwitch' = renderSwitch
    BY <1>3 DEF ReverseTaskSends, switchVars
  <2>2. \A i \in 1 .. Len(senders) : senders[i] # k
    BY <1>a, <2>1 DEF Sent
  <2>3. /\ reverser'[k] \in {"reversing", "restarting"}
        /\ \A m \in Tid : m # k => reverser'[m] = reverser[m]
    BY <1>b, <2>1
  <2> QED
    BY <1>a, <1>c, <2>1, <2>2, <2>3, Sending DEF Sent
<1>4. CASE \/ UNCHANGED vars \/ WalkOn \/ WalkFirst \/ WalkSecond
  <2>1. UNCHANGED <<senders, reverser, renderSwitch>>
    BY <1>4 DEF vars, WalkOn, WalkFirst, WalkSecond, reversals, switchVars
  <2> QED
    BY <1>a, <1>b, <2>1 DEF Sent
<1>5. CASE WaitsAgain \/ \E s \in Switch, mode \in Mode : SetSwitch(s, mode)
  <2>1. /\ UNCHANGED <<senders, reverser>>
        /\ renderSwitch' = renderSwitch \/ renderSwitch \in {"answered", "waits"}
    BY <1>5 DEF WaitsAgain, WaitOnSwitchChange, SetSwitch, SwitchSet, Told, reversals
  <2> QED
    BY <1>a, <1>b, <2>1 DEF Sent
<1>6. CASE \/ \E t \in Train : \/ \E v \in Speed : HandleSetSpeed(t, v)
                               \/ HandleStop(t) \/ HandleSetLights(t)
                               \/ HandleReverseRefused(t) \/ HandleReverseStanding(t)
           \/ \E s \in Sensor : HandleSensorUnknown(s) \/ HandleSensor(s)
  <2>1. PICK task : Handles(task) /\ UNCHANGED <<reverser, renderSwitch>>
    BY <1>6 DEF HandleSetSpeed, HandleStop, HandleSetLights, HandleReverseRefused,
                HandleReverseStanding, HandleSensorUnknown, HandleSensor, reversals, switchVars
  <2> QED
    BY <1>a, <2>1, Handling DEF Sent
<1>7. ASSUME NEW t \in Train, HandleReverseMoving(t)
      PROVE  /\ senders' \in Seq(Sender)
             /\ \A i, j \in 1 .. Len(senders') : senders'[i] = senders'[j] => i = j
             /\ Sent'
  <2>1. Handles(Commander) /\ UNCHANGED renderSwitch
    BY <1>7 DEF HandleReverseMoving, switchVars
  <2>2. \A m \in Tid : reverser[m] # "free" => reverser'[m] = reverser[m]
    BY <1>a, <1>b, <1>7, Started
  <2>3. \A m \in Tid : reverser[m] \in {"reversing", "restarting"} => reverser'[m] = reverser[m]
    BY <2>2
  <2>4. ASSUME NEW i \in 1 .. Len(senders')
        PROVE  /\ senders'[i] \in Tid => reverser'[senders'[i]] \in {"reversing", "restarting"}
               /\ senders'[i] = Renderer => renderSwitch' = "sent"
    <3>1. PICK j \in 1 .. Len(senders) : senders'[i] = senders[j]
      BY <1>a, <2>1, Handling
    <3> QED
      BY <1>a, <2>1, <2>3, <3>1 DEF Sent
  <2> QED
    BY <1>a, <2>1, <2>4, Handling DEF Sent
<1>8. ASSUME NEW k \in Tid, HandleReverseReverse(k) \/ HandleReverseRestart(k)
      PROVE  /\ senders' \in Seq(Sender)
             /\ \A i, j \in 1 .. Len(senders') : senders'[i] = senders'[j] => i = j
             /\ Sent'
  <2>1. Handles(k) /\ UNCHANGED renderSwitch
    BY <1>8 DEF HandleReverseReverse, HandleReverseRestart, switchVars
  <2>2. \A m \in Tid : m # k => reverser'[m] = reverser[m]
    BY <1>b, <1>8 DEF HandleReverseReverse, HandleReverseRestart
  <2> QED
    BY <1>a, <2>1, <2>2, Handling DEF Sent
<1>9. CASE HandleSwitchChange
  <2>1. Handles(Renderer) /\ UNCHANGED reverser
    BY <1>9 DEF HandleSwitchChange, reversals
  <2> QED
    BY <1>a, <2>1, Handling DEF Sent
<1> QED
  BY <1>1, <1>2, <1>3, <1>4, <1>5, <1>6, <1>7, <1>8, <1>9 DEF Next, ServerStep

\* An entry and its ReverseTask are taken up and dropped together.
LEMMA OwnedStep == IInv /\ [Next]_vars => Owned'
<1> DEFINE Busy == {"stopping", "reversing", "reversed", "restarting"}
<1> SUFFICES ASSUME IInv, [Next]_vars PROVE Owned'
  OBVIOUS
<1>a. /\ TypeOK /\ Owned /\ MaxTasks \in Nat
      /\ 0 \notin Tid /\ NotCreated \notin Tid
  BY TrainAssumption, SendersDiffer DEF IInv
<1>b. /\ reverser \in [Tid -> Busy \cup {"free", "done"}]
      /\ reverse_tasks \in [Train -> Tid \cup {0, NotCreated}]
  BY <1>a DEF TypeOK
<1>c. PICK n \in 0 .. MaxTasks : \A k \in Tid : reverser[k] = "free" <=> k > n
  BY <1>a DEF Owned
<1>d. /\ \A k \in Tid : reverser[k] \in Busy <=> \E t \in Train : reverse_tasks[t] = k
      /\ \A t, u \in Train : reverse_tasks[t] \in Tid /\ reverse_tasks[t] = reverse_tasks[u] => t = u
  <2>1. \A k \in Tid : reverser[k] \notin {"free", "done"} <=> reverser[k] \in Busy
    BY <1>b
  <2> QED
    BY <1>a, <2>1 DEF Owned
<1>1. CASE UNCHANGED reversals
  BY <1>1, <1>a, <1>b DEF reversals, Owned
<1>2. ASSUME NEW k \in Tid, reverser[k] \in Busy,
             NEW stage \in Busy, reverser' = [reverser EXCEPT ![k] = stage],
             reverse_tasks' = reverse_tasks
      PROVE  Owned'
  <2>1. \A m \in Tid : /\ reverser'[m] = "free" <=> reverser[m] = "free"
                       /\ reverser'[m] \in {"free", "done"} <=> reverser[m] \in {"free", "done"}
    BY <1>2, <1>b
  <2> QED
    BY <1>2, <1>a, <2>1 DEF Owned
<1>3. ASSUME NEW t \in Train, HandleReverseMoving(t)
      PROVE  Owned'
  <2>1. reverse_tasks[t] = 0
    BY <1>3 DEF HandleReverseMoving
  <2>2. CASE /\ reverse_tasks' = [reverse_tasks EXCEPT ![t] = NotCreated]
             /\ UNCHANGED reverser
    <3>1. \A u \in Train, m \in Tid : reverse_tasks'[u] = m <=> reverse_tasks[u] = m
      BY <1>a, <1>b, <2>1, <2>2
    <3>2. \A u, v \in Train : reverse_tasks'[u] \in Tid /\ reverse_tasks'[u] = reverse_tasks'[v]
                                 => u = v
      BY <1>d, <3>1
    <3> QED
      BY <1>a, <2>2, <3>1, <3>2 DEF Owned
  <2>3. ASSUME NEW m \in 0 .. MaxTasks - 1, m + 1 \in Tid,
               \A k \in Tid : reverser[k] = "free" <=> k > m,
               reverse_tasks' = [reverse_tasks EXCEPT ![t] = m + 1],
               reverser' = [reverser EXCEPT ![m + 1] = "stopping"]
        PROVE  Owned'
    <3>0. m \in Nat /\ m < MaxTasks /\ m + 1 \in 0 .. MaxTasks
      BY <1>a, <2>3
    <3>1. reverser[m + 1] = "free"
      BY <2>3, <3>0
    <3>2. \A u \in Train : reverse_tasks[u] # m + 1
      BY <1>d, <2>3, <3>1
    <3>3. \A k \in Tid : reverser'[k] = "free" <=> k > m + 1
      BY <1>b, <2>3, <3>0 DEF Tid
    <3>4. \A k \in Tid : reverser'[k] \notin {"free", "done"}
                            <=> \E u \in Train : reverse_tasks'[u] = k
      <4>1. \A k \in Tid \ {m + 1} : /\ reverser'[k] = reverser[k]
                                     /\ \A u \in Train : reverse_tasks'[u] = k <=> reverse_tasks[u] = k
        BY <1>a, <1>b, <2>1, <2>3
      <4>2. reverser'[m + 1] = "stopping" /\ reverse_tasks'[t] = m + 1
        BY <1>b, <2>3
      <4> QED
        BY <1>a, <4>1, <4>2 DEF Owned
    <3>5. \A u, v \in Train : reverse_tasks'[u] \in Tid /\ reverse_tasks'[u] = reverse_tasks'[v]
                                 => u = v
      BY <1>b, <1>d, <2>3, <3>2
    <3> QED
      BY <3>0, <3>3, <3>4, <3>5 DEF Owned
  <2> QED
    BY <1>3, <1>a, <2>2, <2>3, Started
<1>4. ASSUME NEW k \in Tid, HandleReverseRestart(k)
      PROVE  Owned'
  <2>1. PICK t \in Train : /\ reverse_tasks[t] = k
                           /\ reverse_tasks' = [reverse_tasks EXCEPT ![t] = 0]
    BY <1>4 DEF HandleReverseRestart
  <2>2. reverser[k] = "restarting" /\ reverser' = [reverser EXCEPT ![k] = "done"]
    BY <1>4 DEF HandleReverseRestart
  <2>3. \A m \in Tid : reverser'[m] = "free" <=> m > n
    BY <1>b, <1>c, <2>2
  <2>4. \A m \in Tid \ {k} : /\ reverser'[m] = reverser[m]
                             /\ \A u \in Train : reverse_tasks'[u] = m <=> reverse_tasks[u] = m
    BY <1>a, <1>b, <2>1, <2>2
  <2>5. reverser'[k] = "done" /\ \A u \in Train : reverse_tasks'[u] # k
    BY <1>a, <1>b, <1>d, <2>1, <2>2
  <2>6. \A m \in Tid : reverser'[m] \notin {"free", "done"}
                          <=> \E u \in Train : reverse_tasks'[u] = m
    BY <1>a, <2>4, <2>5 DEF Owned
  <2>7. \A u, v \in Train : reverse_tasks'[u] \in Tid /\ reverse_tasks'[u] = reverse_tasks'[v]
                               => u = v
    BY <1>a, <1>b, <1>d, <2>1
  <2> QED
    BY <2>3, <2>6, <2>7 DEF Owned
<1>5. ASSUME NEW k \in Tid, ReverseTaskSends(k) \/ HandleReverseReverse(k)
      PROVE  Owned'
  <2>1. reverse_tasks' = reverse_tasks
    BY <1>5 DEF ReverseTaskSends, HandleReverseReverse
  <2>2. CASE reverser[k] = "stopping" /\ reverser' = [reverser EXCEPT ![k] = "reversing"]
    BY <1>2, <2>1, <2>2
  <2>3. CASE reverser[k] = "reversed" /\ reverser' = [reverser EXCEPT ![k] = "restarting"]
    BY <1>2, <2>1, <2>3
  <2>4. CASE reverser[k] = "reversing" /\ reverser' = [reverser EXCEPT ![k] = "reversed"]
    BY <1>2, <2>1, <2>4
  <2> QED
    BY <1>5, <2>2, <2>3, <2>4 DEF ReverseTaskSends, HandleReverseReverse
<1>6. CASE UNCHANGED vars
  BY <1>1, <1>6 DEF vars, reversals
<1>7. CASE \/ Command \/ SensorReport \/ SwitchToTrain \/ WaitsAgain
           \/ \E s \in Switch, mode \in Mode : SetSwitch(s, mode)
  BY <1>1, <1>7 DEF Command, SensorReport, SwitchToTrain, WaitsAgain, SetSwitch
<1>8. CASE \/ \E t \in Train : \/ \E v \in Speed : HandleSetSpeed(t, v)
                               \/ HandleStop(t) \/ HandleSetLights(t)
                               \/ HandleReverseRefused(t) \/ HandleReverseStanding(t)
           \/ \E s \in Sensor : HandleSensorUnknown(s) \/ HandleSensor(s)
           \/ HandleSwitchChange \/ WalkOn \/ WalkFirst \/ WalkSecond
  BY <1>1, <1>8 DEF HandleSetSpeed, HandleStop, HandleSetLights, HandleReverseRefused,
                    HandleReverseStanding, HandleSensorUnknown, HandleSensor,
                    HandleSwitchChange, WalkOn, WalkFirst, WalkSecond
<1> QED
  BY <1>3, <1>4, <1>5, <1>6, <1>7, <1>8 DEF Next, ServerStep

-----------------------------------------------------------------------------
(* The walks. *)

LEMMA WalkFields ==
    ASSUME SwitchTypeOK, NEW t \in Train, NEW stage \in {"first", "second"},
           NEW s \in Sensor \cup {None}, NEW task \in {Predictor, Commander, Nobody}
    PROVE  /\ Walk(t, stage, s, task) \in WalkRecord
           /\ Walk(t, stage, s, task).train = t /\ Walk(t, stage, s, task).stage = stage
           /\ Walk(t, stage, s, task).from = s /\ Walk(t, stage, s, task).at = Onward(s)
<1>1. Onward(s) \in Node
  BY WaysLead
<1> QED
  BY <1>1 DEF Walk, WalkRecord

LEMMA PlacedTypes ==
    ASSUME TypeOK, NEW t \in Train
    PROVE  /\ SwitchTypeOK
           /\ train_positions \in [Train -> Sensor \cup {None}]
           /\ Placed(t) => train_positions[t] \in Sensor /\ Reverse[train_positions[t]] \in Sensor
           /\ is_rev(t) \in BOOLEAN
           /\ is_rev(t) => Placed(t) /\ train_next_sensors[t][1] = Reverse[train_positions[t]]
<1>1. SwitchTypeOK /\ train_positions \in [Train -> Sensor \cup {None}]
  BY DEF TypeOK
<1>2. Placed(t) => train_positions[t] \in Sensor /\ Reverse[train_positions[t]] \in Sensor
  BY <1>1, TrainAssumption DEF Placed
<1> QED
  BY <1>1, <1>2 DEF is_rev

\* The walks of a change of a switch: one for every train that is placed.
LEMMA RenewalFields ==
    ASSUME TypeOK, NEW t \in Train, Placed(t)
    PROVE  LET w == Renewal(t) IN
           /\ w \in WalkRecord /\ w.train = t /\ w.at = Onward(w.from)
           /\ is_rev(t) => w.stage = "second" /\ w.from = Reverse[train_positions[t]]
           /\ ~is_rev(t) => w.stage = "first" /\ w.from = train_positions[t]
<1>1. Nobody \in {Predictor, Commander, Nobody}
  OBVIOUS
<1>2. CASE is_rev(t)
  <2>1. Renewal(t) = Walk(t, "second", Reverse[train_positions[t]], Nobody)
    BY <1>2 DEF Renewal, is_rev
  <2> QED
    BY <1>1, <1>2, <2>1, PlacedTypes, WalkFields
<1>3. CASE ~is_rev(t)
  <2>1. Renewal(t) = Walk(t, "first", train_positions[t], Nobody)
    BY <1>3 DEF Renewal
  <2> QED
    BY <1>1, <1>3, <2>1, PlacedTypes, WalkFields
<1> QED
  BY <1>2, <1>3

LEMMA Renewing ==
    ASSUME TypeOK, HandleSwitchChange
    PROVE  /\ job' \in Seq(WalkRecord) /\ Len(job') = Len(InOrder)
           /\ \A i \in 1 .. Len(job') : /\ InOrder[i] \in Train /\ Placed(InOrder[i])
                                        /\ job'[i] = Renewal(InOrder[i])
<1>1. job' = [i \in 1 .. Len(InOrder) |-> Renewal(InOrder[i])]
  BY DEF HandleSwitchChange
<1>2. /\ Len(InOrder) \in Nat
      /\ \A i \in 1 .. Len(InOrder) : InOrder[i] \in Train /\ Placed(InOrder[i])
  BY InOrderProperties, LenProperties, ElementOfSeq
<1>3. \A i \in 1 .. Len(InOrder) : Renewal(InOrder[i]) \in WalkRecord
  BY <1>2, RenewalFields
<1>4. job' \in [1 .. Len(InOrder) -> WalkRecord]
  BY <1>1, <1>3
<1>5. job' \in Seq(WalkRecord) /\ Len(job') = Len(InOrder)
  BY <1>2, <1>4, SeqDef
<1> QED
  BY <1>1, <1>2, <1>5

\* The walk under way is the first; what it becomes stands in its place.
LEMMA Walking ==
    ASSUME TypeOK, WalkOn \/ WalkFirst
    PROVE  LET w == job[1]
               v == job'[1]
           IN  /\ 1 \in 1 .. Len(job)
               /\ job' \in Seq(WalkRecord) /\ Len(job') = Len(job)
               /\ \A i \in 2 .. Len(job) : job'[i] = job[i]
               /\ v \in WalkRecord /\ v.train = w.train
               /\ \/ /\ w.at \in Switch
                     /\ v.stage = w.stage /\ v.from = w.from
                     /\ v.at = AheadBy[w.at][switch_states[w.at]]
                  \/ /\ w.at \notin Switch /\ w.stage = "first"
                     /\ v.stage = "second" /\ v.from = w.at /\ v.at = Onward(w.at)
<1> DEFINE w == job[1]
<1>1. /\ job \in Seq(WalkRecord) /\ Len(job) \in Nat /\ job # <<>> /\ Head(job) = job[1]
      /\ job \in [1 .. Len(job) -> WalkRecord] /\ SwitchTypeOK
  BY Types, LenProperties DEF WalkOn, WalkFirst, TypeOK
<1>2. Len(job) > 0 /\ 1 \in 1 .. Len(job)
  BY <1>1, EmptySeq
<1>3. w \in WalkRecord
  BY <1>1, <1>2
<1>4. CASE WalkOn
  <2>1. w.at \in Switch /\ w.at \in Node
    BY <1>1, <1>3, <1>4 DEF WalkOn, WalkRecord
  <2> DEFINE v == [w EXCEPT !.at = AheadBy[w.at][switch_states[w.at]]]
  <2>2. job' = [job EXCEPT ![1] = v]
    BY <1>1, <1>2, <1>4 DEF WalkOn
  <2>3. /\ v \in WalkRecord /\ v.train = w.train /\ v.stage = w.stage /\ v.from = w.from
        /\ v.at = AheadBy[w.at][switch_states[w.at]]
    <3>1. AheadBy[w.at][switch_states[w.at]] \in Node
      BY <1>1, <2>1, WaysLead
    <3> QED
      BY <1>3, <3>1 DEF WalkRecord
  <2> HIDE DEF v, w
  <2>4. /\ job' \in Seq(WalkRecord) /\ Len(job') = Len(job)
        /\ \A j \in 1 .. Len(job) : job'[j] = IF j = 1 THEN v ELSE job[j]
    BY <1>1, <1>2, <2>2, <2>3, ExceptSeq
  <2> QED
    BY <1>2, <2>1, <2>3, <2>4 DEF w
<1>5. CASE WalkFirst
  <2>1. w.at \notin Switch /\ w.stage = "first" /\ w.at \in Sensor \cup {None}
    BY <1>1, <1>3, <1>5 DEF WalkFirst, WalkRecord, Node
  <2> DEFINE v == [w EXCEPT !.stage = "second", !.from = w.at, !.at = Onward(w.at)]
  <2>2. job' = [job EXCEPT ![1] = v]
    BY <1>1, <1>2, <1>5 DEF WalkFirst
  <2>3. /\ v \in WalkRecord /\ v.train = w.train /\ v.stage = "second" /\ v.from = w.at
        /\ v.at = Onward(w.at)
    <3>1. Onward(w.at) \in Node
      BY <1>1, <2>1, WaysLead
    <3> QED
      BY <1>3, <2>1, <3>1 DEF WalkRecord
  <2> HIDE DEF v, w
  <2>4. /\ job' \in Seq(WalkRecord) /\ Len(job') = Len(job)
        /\ \A j \in 1 .. Len(job) : job'[j] = IF j = 1 THEN v ELSE job[j]
    BY <1>1, <1>2, <2>2, <2>3, ExceptSeq
  <2> QED
    BY <1>2, <2>1, <2>3, <2>4 DEF w
<1> QED
  BY <1>4, <1>5

\* When the last walk for a train is done, its predictions are renewed.
LEMMA WalkDone ==
    ASSUME TypeOK, WalkSecond
    PROVE  LET w == job[1]
           IN  /\ 1 \in 1 .. Len(job) /\ w \in WalkRecord /\ w.stage = "second"
               /\ w.at \notin Switch /\ w.at \in Sensor \cup {None}
               /\ job' \in Seq(WalkRecord)
               /\ \A i \in 1 .. Len(job') : i + 1 \in 1 .. Len(job) /\ i + 1 # 1 /\ job'[i] = job[i + 1]
               /\ \A i \in 2 .. Len(job) : i - 1 \in 1 .. Len(job') /\ job'[i - 1] = job[i]
               /\ \E second \in {None, w.at} :
                     train_next_sensors' = [train_next_sensors EXCEPT
                                              ![w.train] = <<w.from, second>>]
<1>1. /\ job \in Seq(WalkRecord) /\ Len(job) \in Nat /\ job # <<>> /\ Head(job) = job[1]
      /\ job' = Tail(job)
  BY Types DEF WalkSecond
<1>2. Len(job) > 0 /\ 1 \in 1 .. Len(job)
  BY <1>1, EmptySeq
<1>3. /\ job' \in Seq(WalkRecord) /\ Len(job') = Len(job) - 1
      /\ \A i \in 1 .. Len(job') : job'[i] = job[i + 1]
  BY <1>1, HeadTailProperties
<1>4. \A i \in 1 .. Len(job') : i + 1 \in 1 .. Len(job) /\ i + 1 # 1
  BY <1>1, <1>3
<1>5. \A i \in 2 .. Len(job) : i - 1 \in 1 .. Len(job') /\ job'[i - 1] = job[i]
  <2> TAKE i \in 2 .. Len(job)
  <2>1. i - 1 \in 1 .. Len(job') /\ (i - 1) + 1 = i
    BY <1>1, <1>3
  <2> QED
    BY <1>3, <2>1
<1>6. job[1] \in WalkRecord /\ job[1].stage = "second" /\ job[1].at \notin Switch
  BY <1>1, <1>2, LenProperties DEF WalkSecond
<1>7. job[1].at \in Sensor \cup {None}
  BY <1>6 DEF WalkRecord, Node
<1>8. \E second \in {None, job[1].at} :
          train_next_sensors' = [train_next_sensors EXCEPT ![job[1].train] = <<job[1].from, second>>]
  BY <1>1 DEF WalkSecond
<1> QED
  BY <1>2, <1>3, <1>4, <1>5, <1>6, <1>7, <1>8

\* A sensor is given to one train, which is placed and expected it.
LEMMA Seen ==
    ASSUME NEW s \in Sensor, HandleSensor(s)
    PROVE  \E t \in Train :
              /\ Placed(t)
              /\ train_positions' = [train_positions EXCEPT ![t] = s]
              /\ job' = <<Walk(t, "first", s, Predictor)>>
              /\ flipped' = [flipped EXCEPT ![t] = FALSE]
              /\ unannounced' = [unannounced EXCEPT ![t] = FALSE]
<1>1. PICK i \in 1 .. Len(InOrder) :
              /\ train_positions' = [train_positions EXCEPT ![InOrder[i]] = s]
              /\ job' = <<Walk(InOrder[i], "first", s, Predictor)>>
              /\ flipped' = [flipped EXCEPT ![InOrder[i]] = FALSE]
              /\ unannounced' = [unannounced EXCEPT ![InOrder[i]] = FALSE]
  BY DEF HandleSensor
<1>2. InOrder[i] \in Train /\ Placed(InOrder[i])
  BY InOrderProperties, ElementOfSeq
<1> QED
  BY <1>1, <1>2

LEMMA Requesting ==
    ASSUME NEW w \in WalkRecord, job' = <<w>>
    PROVE  /\ job' \in Seq(WalkRecord) /\ 1 \in 1 .. Len(job') /\ job'[1] = w
           /\ \A i \in 1 .. Len(job') : i = 1
  OBVIOUS

\* A train that is turned: expected back where it was last seen, or onwards if it was
\* expected back.
LEMMA TurnedFields ==
    ASSUME TypeOK, NEW t \in Train, NEW walks \in TurnedWalks(t), Placed(t)
    PROVE  \E w \in WalkRecord :
              /\ walks = <<w>> /\ w.train = t /\ w.at = Onward(w.from)
              /\ is_rev(t) => w.stage = "first" /\ w.from = train_positions[t]
              /\ ~is_rev(t) => w.stage = "second" /\ w.from = Reverse[train_positions[t]]
<1> DEFINE s == train_positions[t]
<1>1. /\ SwitchTypeOK /\ s \in Sensor /\ Reverse[s] \in Sensor
      /\ Nobody \in {Predictor, Commander, Nobody}
  BY PlacedTypes
<1>2. CASE is_rev(t)
  <2>1. PICK g \in BOOLEAN : walks = <<[Walk(t, "first", s, Nobody) EXCEPT !.garbled = g]>>
    BY <1>2 DEF TurnedWalks
  <2> DEFINE v == Walk(t, "first", s, Nobody)
             w == [v EXCEPT !.garbled = g]
  <2>2. v \in WalkRecord /\ v.train = t /\ v.stage = "first" /\ v.from = s /\ v.at = Onward(s)
    BY <1>1, WalkFields
  <2> HIDE DEF v
  <2>3. /\ w \in WalkRecord /\ w.train = t /\ w.stage = "first" /\ w.from = s
        /\ w.at = Onward(s)
    BY <2>2 DEF WalkRecord
  <2>4. walks = <<w>>
    BY <2>1 DEF v
  <2> QED
    BY <1>2, <2>3, <2>4
<1>3. CASE ~is_rev(t)
  <2>1. walks = <<Walk(t, "second", Reverse[s], Nobody)>>
    BY <1>3 DEF TurnedWalks
  <2> QED
    BY <1>1, <1>3, <2>1, WalkFields
<1> QED
  BY <1>2, <1>3

\* Every request begins its walks at the trains' positions, as they are from now on, or at
\* the sensors over which they are expected back.
Begins(w, positions) ==
    /\ w \in WalkRecord /\ positions[w.train] # None /\ w.at = Onward(w.from)
    /\ w.stage = "first" => w.from = positions[w.train]
    /\ w.stage = "second" => w.from = Reverse[positions[w.train]]

LEMMA StandingBegins ==
    ASSUME TypeOK, NEW t \in Train, HandleReverseStanding(t)
    PROVE  \/ ~Placed(t) /\ job' = <<>>
           \/ \E w \in WalkRecord : /\ job' = <<w>> /\ Begins(w, train_positions') /\ w.train = t
                                    /\ w.stage = "second"
<1>1. UNCHANGED train_positions /\ job = <<>>
  BY DEF HandleReverseStanding, predictions, Handles
<1>2. CASE ~Placed(t)
  BY <1>1, <1>2 DEF HandleReverseStanding
<1>3. CASE Placed(t)
  <2> DEFINE w == Walk(t, "second", Reverse[train_positions[t]], Commander)
  <2>1. job' = <<w>>
    BY <1>3 DEF HandleReverseStanding
  <2>2. /\ w \in WalkRecord /\ w.train = t /\ w.stage = "second" /\ w.at = Onward(w.from)
        /\ w.from = Reverse[train_positions[t]]
    <3>1. Commander \in {Predictor, Commander, Nobody} /\ SwitchTypeOK
          /\ Reverse[train_positions[t]] \in Sensor \cup {None}
      BY <1>3, PlacedTypes
    <3> QED
      BY <3>1, WalkFields
  <2> HIDE DEF w
  <2> QED
    BY <1>1, <1>3, <2>1, <2>2 DEF Begins, Placed
<1> QED
  BY <1>2, <1>3

LEMMA TurnedBegins ==
    ASSUME TypeOK, NEW k \in Tid, HandleReverseReverse(k)
    PROVE  \E t \in Train :
              /\ reverse_tasks[t] = k
              /\ flipped' = [flipped EXCEPT ![t] = Placed(t) /\ ~@]
              /\ \/ ~Placed(t) /\ job' = <<>>
                 \/ \E w \in WalkRecord : /\ job' = <<w>> /\ Begins(w, train_positions') /\ w.train = t
                                          /\ w.stage = IF is_rev(t) THEN "first" ELSE "second"
<1>1. UNCHANGED train_positions
  BY DEF HandleReverseReverse, predictions
<1>2. PICK t \in Train : /\ reverse_tasks[t] = k /\ job' \in TurnedWalks(t)
                         /\ flipped' = [flipped EXCEPT ![t] = Placed(t) /\ ~@]
  BY DEF HandleReverseReverse, reverse_train_0
<1>3. CASE ~Placed(t)
  BY <1>2, <1>3 DEF TurnedWalks
<1>4. CASE Placed(t)
  <2>1. PICK w \in WalkRecord :
              /\ job' = <<w>> /\ w.train = t /\ w.at = Onward(w.from)
              /\ is_rev(t) => w.stage = "first" /\ w.from = train_positions[t]
              /\ ~is_rev(t) => w.stage = "second" /\ w.from = Reverse[train_positions[t]]
    BY <1>2, <1>4, TurnedFields
  <2>2. Begins(w, train_positions') /\ w.stage = IF is_rev(t) THEN "first" ELSE "second"
    BY <1>1, <1>4, <2>1 DEF Begins, Placed
  <2> QED
    BY <1>2, <2>1, <2>2
<1> QED
  BY <1>2, <1>3, <1>4

LEMMA SensorBegins ==
    ASSUME TypeOK, NEW s \in Sensor, HandleSensor(s)
    PROVE  \E t \in Train :
              /\ Placed(t)
              /\ train_positions' = [train_positions EXCEPT ![t] = s]
              /\ flipped' = [flipped EXCEPT ![t] = FALSE]
              /\ unannounced' = [unannounced EXCEPT ![t] = FALSE]
              /\ \E w \in WalkRecord : /\ job' = <<w>> /\ Begins(w, train_positions') /\ w.train = t
                                       /\ w.stage = "first"
<1>1. PICK t \in Train :
              /\ Placed(t)
              /\ train_positions' = [train_positions EXCEPT ![t] = s]
              /\ job' = <<Walk(t, "first", s, Predictor)>>
              /\ flipped' = [flipped EXCEPT ![t] = FALSE]
              /\ unannounced' = [unannounced EXCEPT ![t] = FALSE]
  BY Seen
<1> DEFINE w == Walk(t, "first", s, Predictor)
<1>2. /\ w \in WalkRecord /\ w.train = t /\ w.stage = "first" /\ w.from = s
      /\ w.at = Onward(w.from)
  <2>1. SwitchTypeOK /\ Predictor \in {Predictor, Commander, Nobody} /\ s \in Sensor \cup {None}
    BY DEF TypeOK
  <2> QED
    BY <2>1, WalkFields
<1>3. train_positions'[t] = s /\ s # None
  BY <1>1, TrainAssumption DEF TypeOK, None
<1>4. job' = <<w>>
  BY <1>1
<1> HIDE DEF w
<1>5. Begins(w, train_positions')
  BY <1>2, <1>3 DEF Begins, Placed
<1> QED
  BY <1>1, <1>2, <1>4, <1>5

LEMMA ChangeBegins ==
    ASSUME TypeOK, HandleSwitchChange
    PROVE  /\ \A i \in 1 .. Len(job') :
                 /\ Begins(job'[i], train_positions')
                 /\ job'[i].stage = IF is_rev(job'[i].train) THEN "second" ELSE "first"
           /\ \A i, j \in 1 .. Len(job') : job'[i].train = job'[j].train => i = j
           /\ \A t \in Train : Placed(t) => \E i \in 1 .. Len(job') : job'[i].train = t
<1>1. UNCHANGED train_positions
  BY DEF HandleSwitchChange, predictions
<1>2. /\ Len(job') = Len(InOrder)
      /\ \A i \in 1 .. Len(job') : /\ InOrder[i] \in Train /\ Placed(InOrder[i])
                                   /\ job'[i] = Renewal(InOrder[i])
  BY Renewing
<1>3. \A i \in 1 .. Len(job') : job'[i].train = InOrder[i]
  BY <1>2, RenewalFields
<1>4. ASSUME NEW i \in 1 .. Len(job')
      PROVE  /\ Begins(job'[i], train_positions')
             /\ job'[i].stage = IF is_rev(job'[i].train) THEN "second" ELSE "first"
  <2> DEFINE t == InOrder[i]
             w == job'[i]
  <2>1. /\ w \in WalkRecord /\ w.train = t /\ w.at = Onward(w.from) /\ Placed(t)
        /\ is_rev(t) => w.stage = "second" /\ w.from = Reverse[train_positions[t]]
        /\ ~is_rev(t) => w.stage = "first" /\ w.from = train_positions[t]
    BY <1>2, RenewalFields
  <2> HIDE DEF t, w
  <2>2. Begins(w, train_positions') /\ w.stage = IF is_rev(w.train) THEN "second" ELSE "first"
    BY <1>1, <2>1 DEF Begins, Placed
  <2> QED
    BY <2>2 DEF w
<1> QED
  BY <1>2, <1>3, <1>4, InOrderProperties

Request ==
    \/ \E t \in Train : HandleReverseStanding(t)
    \/ \E k \in Tid : HandleReverseReverse(k)
    \/ \E s \in Sensor : HandleSensor(s)
    \/ HandleSwitchChange

LEMMA Requests ==
    ASSUME TypeOK, Request
    PROVE  /\ job' \in Seq(WalkRecord)
           /\ \A i \in 1 .. Len(job') : Begins(job'[i], train_positions')
           /\ \A i, j \in 1 .. Len(job') : job'[i].train = job'[j].train => i = j
<1>1. CASE job' = <<>>
  BY <1>1, EmptySeq
<1>2. CASE HandleSwitchChange
  BY <1>2, ChangeBegins, Renewing
<1>3. ASSUME NEW w \in WalkRecord, job' = <<w>>, Begins(w, train_positions')
      PROVE  /\ job' \in Seq(WalkRecord)
             /\ \A i \in 1 .. Len(job') : Begins(job'[i], train_positions')
             /\ \A i, j \in 1 .. Len(job') : job'[i].train = job'[j].train => i = j
  BY <1>3, Requesting
<1> QED
  BY <1>1, <1>2, <1>3, StandingBegins, TurnedBegins, SensorBegins DEF Request

-----------------------------------------------------------------------------
(* Every step keeps the invariant. *)

LEMMA TypeStep == IInv /\ [Next]_vars => TypeOK'
<1> SUFFICES ASSUME IInv, [Next]_vars PROVE TypeOK'
  OBVIOUS
<1>a. TypeOK /\ Owned /\ Changes /\ SwitchTypeOK
  BY WhatChanges DEF IInv, TypeOK
<1>1. SwitchTypeOK'
  <2>1. switch_states \in [Switch -> Mode] /\ renderSwitch \in {"waits", "told", "sent", "answered"}
    BY <1>a DEF SwitchTypeOK
  <2>2. ASSUME NEW s \in Switch, NEW mode \in Mode, SetSwitch(s, mode)
        PROVE  SwitchTypeOK'
    BY <2>1, <2>2 DEF SetSwitch, SwitchSet, Told, SwitchTypeOK, Mode, Opposite
  <2>3. switch_states' \in [Switch -> Mode]
    BY <1>a, <2>1, <2>2 DEF Changes, SwitchTypeOK
  <2>4. renderSwitch' \in {"waits", "told", "sent", "answered"}
    BY <1>a, <2>1, <2>2 DEF Changes, SwitchTypeOK, SwitchToTrain, WaitsAgain, WaitOnSwitchChange,
                            HandleSwitchChange
  <2> QED
    BY <2>3, <2>4 DEF SwitchTypeOK
<1>2. train_states' \in [Train -> Speed] /\ speed' \in [Train -> Speed]
  <2>1. train_states \in [Train -> Speed] /\ speed \in [Train -> Speed] /\ 0 \in Speed
    BY <1>a, TrainAssumption DEF TypeOK, Speed
  <2>2. ASSUME NEW t \in Train, NEW v \in Speed, HandleSetSpeed(t, v)
        PROVE  train_states' \in [Train -> Speed] /\ speed' \in [Train -> Speed]
    BY <2>1, <2>2 DEF HandleSetSpeed, set_train
  <2>3. ASSUME NEW t \in Train,
               HandleStop(t) \/ HandleSetLights(t) \/ HandleReverseStanding(t) \/ HandleReverseMoving(t)
        PROVE  train_states' \in [Train -> Speed] /\ speed' \in [Train -> Speed]
    BY <2>1, <2>3 DEF HandleStop, HandleSetLights, HandleReverseStanding, HandleReverseMoving,
                      reverse_train_0, set_train
  <2>4. ASSUME NEW k \in Tid, HandleReverseReverse(k) \/ HandleReverseRestart(k)
        PROVE  train_states' \in [Train -> Speed] /\ speed' \in [Train -> Speed]
    BY <2>1, <2>4 DEF HandleReverseReverse, HandleReverseRestart, reverse_train_0, set_train
  <2> QED
    BY <1>a, <2>1, <2>2, <2>3, <2>4 DEF Changes
<1>3. train_positions' \in [Train -> Sensor \cup {None}]
  <2>1. train_positions \in [Train -> Sensor \cup {None}]
    BY <1>a DEF TypeOK
  <2> QED
    BY <1>a, <2>1, Seen DEF Changes
<1>4. train_next_sensors' \in [Train -> (Sensor \cup {None}) \X (Sensor \cup {None})]
  <2>1. train_next_sensors \in [Train -> (Sensor \cup {None}) \X (Sensor \cup {None})]
    BY <1>a DEF TypeOK
  <2>2. CASE WalkSecond
    <3>1. /\ job[1].train \in Train /\ job[1].from \in Sensor \cup {None}
          /\ \E second \in Sensor \cup {None} :
                train_next_sensors' = [train_next_sensors EXCEPT
                                         ![job[1].train] = <<job[1].from, second>>]
      BY <1>a, <2>2, WalkDone DEF WalkRecord
    <3> QED
      BY <2>1, <3>1
  <2> QED
    BY <1>a, <2>1, <2>2 DEF Changes
<1>5. /\ reverse_tasks' \in [Train -> Tid \cup {0, NotCreated}]
      /\ reverser' \in [Tid -> {"free", "stopping", "reversing", "reversed", "restarting", "done"}]
  <2>1. /\ reverse_tasks \in [Train -> Tid \cup {0, NotCreated}]
        /\ reverser \in [Tid -> {"free", "stopping", "reversing", "reversed", "restarting", "done"}]
    BY <1>a DEF TypeOK
  <2>2. ASSUME NEW t \in Train, HandleReverseMoving(t)
        PROVE  /\ reverse_tasks' \in [Train -> Tid \cup {0, NotCreated}]
               /\ reverser' \in [Tid -> {"free", "stopping", "reversing", "reversed", "restarting", "done"}]
    BY <1>a, <2>1, <2>2, Started
  <2>3. ASSUME NEW k \in Tid, ReverseTaskSends(k) \/ HandleReverseReverse(k) \/ HandleReverseRestart(k)
        PROVE  /\ reverse_tasks' \in [Train -> Tid \cup {0, NotCreated}]
               /\ reverser' \in [Tid -> {"free", "stopping", "reversing", "reversed", "restarting", "done"}]
    BY <2>1, <2>3 DEF ReverseTaskSends, HandleReverseReverse, HandleReverseRestart
  <2> QED
    BY <1>a, <2>1, <2>2, <2>3 DEF Changes, reversals
<1>6. job' \in Seq(WalkRecord)
  <2>1. job \in Seq(WalkRecord)
    BY <1>a, Types
  <2> QED
    BY <1>a, <2>1, Requests, Walking, WalkDone DEF Changes, Request
<1>7. flipped' \in [Train -> BOOLEAN] /\ unannounced' \in [Train -> BOOLEAN]
  <2>1. flipped \in [Train -> BOOLEAN] /\ unannounced \in [Train -> BOOLEAN]
    BY <1>a DEF TypeOK
  <2>2. ASSUME NEW t \in Train, HandleStop(t) \/ HandleReverseStanding(t)
        PROVE  flipped' \in [Train -> BOOLEAN] /\ unannounced' \in [Train -> BOOLEAN]
    <3>1. /\ flipped' = [flipped EXCEPT ![t] = Placed(t) /\ ~@]
          /\ \/ unannounced' = [unannounced EXCEPT ![t] = Placed(t)]
             \/ unannounced' = [unannounced EXCEPT ![t] = @ \/ is_rev(t)]
      BY <2>2 DEF HandleStop, HandleReverseStanding, reverse_train_0
    <3>2. Placed(t) \in BOOLEAN /\ is_rev(t) \in BOOLEAN
      BY DEF Placed, is_rev
    <3> QED
      BY <2>1, <3>1, <3>2
  <2>3. ASSUME NEW k \in Tid, HandleReverseReverse(k)
        PROVE  flipped' \in [Train -> BOOLEAN] /\ unannounced' \in [Train -> BOOLEAN]
    BY <2>1, <2>3 DEF HandleReverseReverse, reverse_train_0, Placed
  <2> QED
    BY <1>a, <2>1, <2>2, <2>3, Seen DEF Changes
<1>8. /\ senders' \in Seq(Sender)
      /\ \A i, j \in 1 .. Len(senders') : senders'[i] = senders'[j] => i = j
  BY SendersStep
<1> QED
  BY <1>1, <1>2, <1>3, <1>4, <1>5, <1>6, <1>7, <1>8 DEF TypeOK, WalkRecord, Sender


\* No walk is doubled, none is for a train that is not placed, and the first one follows the
\* switches, however they are set meanwhile.
LEMMA WalksStep == IInv /\ [Next]_vars => Walks'
<1> SUFFICES ASSUME IInv, [Next]_vars PROVE Walks'
  OBVIOUS
<1>a. TypeOK /\ Walks /\ Changes /\ SwitchTypeOK
  BY WhatChanges DEF IInv, TypeOK
<1>b. /\ job \in Seq(WalkRecord) /\ Len(job) \in Nat
      /\ \A i \in 1 .. Len(job) : job[i] \in WalkRecord
  BY <1>a, Types
<1>1. CASE UNCHANGED <<job, train_positions>>
  BY <1>a, <1>1 DEF Walks, Placed
<1>2. CASE Request
  <2>1. ASSUME NEW i \in 1 .. Len(job')
        PROVE  LET w == job'[i] IN
               /\ train_positions'[w.train] # None
               /\ w.stage = "first" => /\ w.from = train_positions'[w.train]
                                       /\ OnWay(w.at, w.from)
    <3> DEFINE w == job'[i]
    <3>1. Begins(w, train_positions')
      BY <1>a, <1>2, Requests
    <3> HIDE DEF w
    <3>2. ASSUME w.stage = "first"
          PROVE  OnWay(w.at, w.from)
      <4>1. w.from \in Sensor /\ w.at = Ahead[w.from]
        BY <3>1, <3>2 DEF Begins, WalkRecord, Onward
      <4> QED
        BY <1>a, <4>1, NeverBack
    <3>3. /\ train_positions'[w.train] # None
          /\ w.stage = "first" => /\ w.from = train_positions'[w.train]
                                  /\ OnWay(w.at, w.from)
      BY <3>1, <3>2 DEF Begins
    <3> QED
      BY <3>3 DEF w
  <2> QED
    BY <1>a, <1>2, <2>1, Requests DEF Walks, Placed
<1>3. CASE WalkOn \/ WalkFirst
  <2>1. UNCHANGED train_positions
    BY <1>3 DEF WalkOn, WalkFirst, predictions
  <2>2. /\ 1 \in 1 .. Len(job) /\ Len(job') = Len(job)
        /\ \A i \in 2 .. Len(job) : job'[i] = job[i]
        /\ job'[1].train = job[1].train
    BY <1>a, <1>3, Walking
  <2>3. \A i \in 1 .. Len(job) : job'[i].train = job[i].train /\ (i = 1 \/ job'[i] = job[i])
    BY <1>b, <2>2
  <2>4. ASSUME job'[1].stage = "first"
        PROVE  /\ job'[1].from = train_positions[job'[1].train]
               /\ OnWay(job'[1].at, job'[1].from)
    <3> DEFINE w == job[1]
               v == job'[1]
    <3>1. /\ w \in WalkRecord /\ Placed(w.train)
          /\ w.stage = "first" => w.from = train_positions[w.train] /\ OnWay(w.at, w.from)
      BY <1>a, <1>b, <2>2 DEF Walks
    <3>2. /\ w.at \in Switch /\ w.stage = "first" /\ v.from = w.from /\ v.train = w.train
          /\ v.at = AheadBy[w.at][switch_states[w.at]]
      BY <1>a, <1>3, <2>4, Walking
    <3> HIDE DEF v, w
    <3>3. w.from \in Sensor /\ switch_states[w.at] \in Mode
      BY <1>a, <3>1, <3>2 DEF WalkRecord, SwitchTypeOK, Placed
    <3>4. OnWay(AheadBy[w.at][switch_states[w.at]], w.from)
      BY <1>a, <3>1, <3>2, <3>3, NeverBack
    <3>5. v.from = train_positions[v.train] /\ OnWay(v.at, v.from)
      BY <3>1, <3>2, <3>4
    <3> QED
      BY <3>5 DEF v
  <2> QED
    BY <1>a, <2>1, <2>2, <2>3, <2>4 DEF Walks, Placed
<1>4. CASE WalkSecond
  <2>1. UNCHANGED train_positions
    BY <1>4 DEF WalkSecond
  <2>2. \A i \in 1 .. Len(job') : i + 1 \in 1 .. Len(job) /\ job'[i] = job[i + 1]
    BY <1>a, <1>4, WalkDone
  <2>3. \A i, j \in 1 .. Len(job') : job'[i].train = job'[j].train => i = j
    <3> TAKE i, j \in 1 .. Len(job')
    <3>1. i + 1 = j + 1 => i = j
      OBVIOUS
    <3> QED
      BY <1>a, <2>2, <3>1 DEF Walks
  <2>4. ASSUME NEW i \in 1 .. Len(job')
        PROVE  LET w == job'[i] IN
               /\ train_positions'[w.train] # None
               /\ w.stage = "first" => /\ w.from = train_positions'[w.train]
                                       /\ OnWay(w.at, w.from)
    <3>1. job'[i] = job[i + 1] /\ i + 1 \in 1 .. Len(job)
      BY <2>2
    <3> QED
      BY <1>a, <2>1, <3>1 DEF Walks, Placed
  <2> QED
    BY <2>3, <2>4 DEF Walks, Placed
<1> QED
  BY <1>a, <1>1, <1>2, <1>3, <1>4 DEF Changes, Request

\* The step of a walk does not change whether the train will be expected back.
LEMMA TurnedStep == IInv /\ [Next]_vars => Turned'
<1> SUFFICES ASSUME IInv, [Next]_vars PROVE Turned'
  OBVIOUS
<1>a. TypeOK /\ Walks /\ Turned /\ Changes /\ SwitchTypeOK
  BY WhatChanges DEF IInv, TypeOK
<1>b. /\ job \in Seq(WalkRecord) /\ Len(job) \in Nat
      /\ \A i \in 1 .. Len(job) : job[i] \in WalkRecord
      /\ flipped \in [Train -> BOOLEAN] /\ unannounced \in [Train -> BOOLEAN]
      /\ train_positions \in [Train -> Sensor \cup {None}]
      /\ train_next_sensors \in [Train -> (Sensor \cup {None}) \X (Sensor \cup {None})]
  BY <1>a, Types DEF TypeOK
<1>c. ASSUME job = <<>>, NEW t \in Train, Placed(t)
      PROVE  unannounced[t] \/ (is_rev(t) <=> flipped[t])
  <2>1. \A i \in 1 .. Len(job) : FALSE
    BY <1>c
  <2> QED
    BY <1>a, <1>c, <2>1 DEF Turned, Unwalked
<1>1. CASE UNCHANGED <<job, train_positions, train_next_sensors, flipped, unannounced>>
  BY <1>a, <1>1 DEF Turned, Unwalked, TurnsBack, is_rev, Placed
<1>2. ASSUME NEW t \in Train, HandleStop(t)
      PROVE  Turned'
  <2>1. /\ job = <<>> /\ UNCHANGED <<job, train_positions, train_next_sensors>>
        /\ flipped' = [flipped EXCEPT ![t] = Placed(t) /\ ~@]
        /\ unannounced' = [unannounced EXCEPT ![t] = Placed(t)]
    BY <1>2 DEF HandleStop, Handles, reverse_train_0, predictions
  <2>2. \A i \in 1 .. Len(job') : FALSE
    BY <2>1
  <2>3. \A u \in Train : Placed(u) => unannounced'[u] \/ (is_rev(u) <=> flipped'[u])
    BY <1>b, <1>c, <2>1
  <2> QED
    BY <2>1, <2>2, <2>3 DEF Turned, Unwalked, is_rev, Placed
<1>3. ASSUME NEW t \in Train, job = <<>>,
             UNCHANGED train_next_sensors,
             \A u \in Train \ {t} : /\ train_positions'[u] = train_positions[u]
                                    /\ flipped'[u] = flipped[u] /\ unannounced'[u] = unannounced[u],
             \/ train_positions'[t] = None /\ job' = <<>>
             \/ \E w \in WalkRecord :
                   /\ job' = <<w>> /\ w.train = t
                   /\ \/ unannounced'[t]
                      \/ (w.stage = "second" /\ w.from = Reverse[train_positions'[t]]) <=> flipped'[t]
      PROVE  Turned'
  <2>1. ASSUME NEW u \in Train, u # t, Unwalked(u)'
        PROVE  unannounced'[u] \/ (is_rev(u)' <=> flipped'[u])
    BY <1>3, <1>c, <2>1 DEF Unwalked, is_rev, Placed
  <2>2. CASE train_positions'[t] = None /\ job' = <<>>
    <3>1. \A i \in 1 .. Len(job') : FALSE
      BY <2>2
    <3>2. ~Unwalked(t)'
      BY <2>2 DEF Unwalked, Placed
    <3> QED
      BY <2>1, <3>1, <3>2 DEF Turned
  <2>3. ASSUME NEW w \in WalkRecord, job' = <<w>>, w.train = t,
               \/ unannounced'[t]
               \/ (w.stage = "second" /\ w.from = Reverse[train_positions'[t]]) <=> flipped'[t]
        PROVE  Turned'
    <3>1. 1 \in 1 .. Len(job') /\ job'[1] = w /\ \A i \in 1 .. Len(job') : i = 1
      BY <2>3, Requesting
    <3>2. ~Unwalked(t)'
      BY <2>3, <3>1 DEF Unwalked
    <3>3. \A i \in 1 .. Len(job') : \/ unannounced'[job'[i].train]
                                    \/ TurnsBack(job[i])' <=> flipped'[job'[i].train]
      BY <2>3, <3>1 DEF TurnsBack
    <3> QED
      BY <2>1, <3>2, <3>3 DEF Turned
  <2> QED
    BY <1>3, <2>2, <2>3
<1>4. ASSUME NEW t \in Train, HandleReverseStanding(t)
      PROVE  Turned'
  <2>1. /\ job = <<>> /\ UNCHANGED <<train_positions, train_next_sensors>>
        /\ flipped' = [flipped EXCEPT ![t] = Placed(t) /\ ~@]
        /\ unannounced' = [unannounced EXCEPT ![t] = @ \/ is_rev(t)]
    BY <1>4 DEF HandleReverseStanding, Handles, reverse_train_0, predictions
  <2>2. Placed(t) => unannounced'[t] \/ flipped'[t]
    BY <1>b, <1>c, <2>1
  <2>3. \A u \in Train \ {t} : /\ train_positions'[u] = train_positions[u]
                               /\ flipped'[u] = flipped[u] /\ unannounced'[u] = unannounced[u]
    BY <1>b, <2>1
  <2>4. CASE ~Placed(t) /\ job' = <<>>
    BY <1>3, <2>1, <2>3, <2>4 DEF Placed
  <2>5. ASSUME NEW w \in WalkRecord, job' = <<w>>, Begins(w, train_positions'), w.train = t,
               w.stage = "second"
        PROVE  Turned'
    <3>1. Placed(t) /\ w.from = Reverse[train_positions'[t]]
      BY <2>1, <2>5 DEF Begins, Placed
    <3> QED
      BY <1>3, <2>1, <2>2, <2>3, <2>5, <3>1
  <2> QED
    BY <1>a, <1>4, <2>4, <2>5, StandingBegins
<1>5. ASSUME NEW k \in Tid, HandleReverseReverse(k)
      PROVE  Turned'
  <2>1. job = <<>> /\ UNCHANGED <<train_positions, train_next_sensors, unannounced>>
    BY <1>5 DEF HandleReverseReverse, Handles, predictions
  <2>2. PICK t \in Train :
              /\ flipped' = [flipped EXCEPT ![t] = Placed(t) /\ ~@]
              /\ \/ ~Placed(t) /\ job' = <<>>
                 \/ \E w \in WalkRecord : /\ job' = <<w>> /\ Begins(w, train_positions') /\ w.train = t
                                          /\ w.stage = IF is_rev(t) THEN "first" ELSE "second"
    BY <1>a, <1>5, TurnedBegins
  <2>3. Placed(t) => unannounced'[t] \/ (~is_rev(t) <=> flipped'[t])
    BY <1>b, <1>c, <2>1, <2>2
  <2>4. \A u \in Train \ {t} : /\ train_positions'[u] = train_positions[u]
                               /\ flipped'[u] = flipped[u] /\ unannounced'[u] = unannounced[u]
    BY <1>b, <2>1, <2>2
  <2>5. CASE ~Placed(t) /\ job' = <<>>
    BY <1>3, <2>1, <2>4, <2>5 DEF Placed
  <2>6. ASSUME NEW w \in WalkRecord, job' = <<w>>, Begins(w, train_positions'), w.train = t,
               w.stage = IF is_rev(t) THEN "first" ELSE "second"
        PROVE  Turned'
    <3>1. /\ Placed(t)
          /\ (w.stage = "second" /\ w.from = Reverse[train_positions'[t]]) <=> ~is_rev(t)
      BY <2>1, <2>6 DEF Begins, Placed
    <3> QED
      BY <1>3, <2>1, <2>3, <2>4, <2>6, <3>1
  <2> QED
    BY <2>2, <2>5, <2>6
<1>6. ASSUME NEW s \in Sensor, HandleSensor(s)
      PROVE  Turned'
  <2>1. job = <<>> /\ UNCHANGED train_next_sensors
    BY <1>6 DEF HandleSensor, Handles
  <2>2. PICK t \in Train :
              /\ train_positions' = [train_positions EXCEPT ![t] = s]
              /\ flipped' = [flipped EXCEPT ![t] = FALSE]
              /\ unannounced' = [unannounced EXCEPT ![t] = FALSE]
              /\ \E w \in WalkRecord : /\ job' = <<w>> /\ w.train = t /\ w.stage = "first"
    BY <1>a, <1>6, SensorBegins
  <2>3. \A u \in Train \ {t} : /\ train_positions'[u] = train_positions[u]
                               /\ flipped'[u] = flipped[u] /\ unannounced'[u] = unannounced[u]
    BY <1>b, <2>2
  <2>4. ~flipped'[t]
    BY <1>b, <2>2
  <2>5. PICK w \in WalkRecord : job' = <<w>> /\ w.train = t /\ w.stage = "first"
    BY <2>2
  <2> QED
    BY <1>3, <2>1, <2>3, <2>4, <2>5
<1>7. CASE HandleSwitchChange
  <2>1. job = <<>> /\ UNCHANGED <<train_positions, train_next_sensors, flipped, unannounced>>
    BY <1>7 DEF HandleSwitchChange, Handles, predictions, track
  <2>2. \A t \in Train : ~Unwalked(t)'
    BY <1>a, <1>7, <2>1, ChangeBegins DEF Unwalked, Placed
  <2>3. ASSUME NEW i \in 1 .. Len(job')
        PROVE  LET w == job'[i]
               IN  \/ unannounced'[w.train]
                   \/ (w.stage = "second" /\ w.from = Reverse[train_positions'[w.train]])
                         <=> flipped'[w.train]
    <3> DEFINE w == job'[i]
    <3>1. /\ Begins(w, train_positions')
          /\ w.stage = IF is_rev(w.train) THEN "second" ELSE "first"
      BY <1>a, <1>7, ChangeBegins
    <3> HIDE DEF w
    <3>2. w.train \in Train /\ Placed(w.train)
      BY <2>1, <3>1 DEF Begins, WalkRecord, Placed
    <3>3. unannounced[w.train] \/ (is_rev(w.train) <=> flipped[w.train])
      BY <1>c, <2>1, <3>2
    <3>4. (w.stage = "second" /\ w.from = Reverse[train_positions'[w.train]]) <=> is_rev(w.train)
      BY <3>1 DEF Begins
    <3>5. \/ unannounced'[w.train]
          \/ (w.stage = "second" /\ w.from = Reverse[train_positions'[w.train]])
                <=> flipped'[w.train]
      BY <2>1, <3>3, <3>4
    <3> QED
      BY <3>5 DEF w
  <2> QED
    BY <2>2, <2>3 DEF Turned, TurnsBack
<1>8. CASE WalkOn \/ WalkFirst
  <2>1. UNCHANGED <<train_positions, train_next_sensors, flipped, unannounced>>
    BY <1>8 DEF WalkOn, WalkFirst, predictions, track
  <2>2. /\ 1 \in 1 .. Len(job) /\ Len(job') = Len(job)
        /\ \A i \in 2 .. Len(job) : job'[i] = job[i]
        /\ job'[1].train = job[1].train
    BY <1>a, <1>8, Walking
  <2>3. \A i \in 1 .. Len(job) : job'[i].train = job[i].train /\ (i = 1 \/ job'[i] = job[i])
    BY <1>b, <2>2
  <2> DEFINE w == job[1]
             v == job'[1]
  <2>4. (v.stage = "second" /\ v.from = Reverse[train_positions[v.train]]) <=> TurnsBack(w)
    <3>1. /\ w \in WalkRecord /\ Placed(w.train)
          /\ w.stage = "first" => w.from = train_positions[w.train] /\ OnWay(w.at, w.from)
      BY <1>a, <1>b, <2>2 DEF Walks
    <3>2. /\ v.train = w.train
          /\ \/ v.stage = w.stage /\ v.from = w.from
             \/ w.stage = "first" /\ v.stage = "second" /\ v.from = w.at
      BY <1>a, <1>8, Walking
    <3> HIDE DEF v, w
    <3>3. ASSUME w.stage = "first"
          PROVE  w.at # Reverse[train_positions[w.train]]
      <4>1. w.from \in Sensor /\ w.at \in Node /\ OnWay(w.at, w.from)
        BY <1>a, <3>1, <3>3 DEF WalkRecord, Placed
      <4> QED
        BY <1>a, <3>1, <3>3, <4>1, NeverBack
    <3> QED
      BY <3>2, <3>3 DEF TurnsBack
  <2>5. unannounced[w.train] \/ (TurnsBack(w) <=> flipped[w.train])
    BY <1>a, <2>2 DEF Turned
  <2>6. \A i \in 1 .. Len(job') : LET x == job'[i] IN
            \/ unannounced[x.train]
            \/ (x.stage = "second" /\ x.from = Reverse[train_positions[x.train]]) <=> flipped[x.train]
    <3>1. \A i \in 2 .. Len(job) : \/ unannounced[job[i].train]
                                   \/ TurnsBack(job[i]) <=> flipped[job[i].train]
      BY <1>a, <1>b DEF Turned
    <3>2. \A i \in 1 .. Len(job') : i = 1 \/ i \in 2 .. Len(job)
      BY <1>b, <2>2
    <3> QED
      BY <2>2, <2>4, <2>5, <3>1, <3>2 DEF TurnsBack
  <2>7. \A t \in Train : Unwalked(t)' => Unwalked(t)
    BY <2>1, <2>2, <2>3 DEF Unwalked, Placed
  <2> QED
    BY <1>a, <2>1, <2>6, <2>7 DEF Turned, TurnsBack, is_rev, Placed
<1>9. CASE WalkSecond
  <2>0. PICK w \in WalkRecord : w = job[1]
    BY <1>a, <1>9, WalkDone
  <2>1. UNCHANGED <<train_positions, flipped, unannounced>>
    BY <1>9 DEF WalkSecond, track
  <2>2. /\ 1 \in 1 .. Len(job) /\ w.stage = "second"
        /\ \A i \in 1 .. Len(job') : i + 1 \in 1 .. Len(job) /\ i + 1 # 1 /\ job'[i] = job[i + 1]
        /\ \A i \in 2 .. Len(job) : i - 1 \in 1 .. Len(job') /\ job'[i - 1] = job[i]
    BY <1>a, <1>9, <2>0, WalkDone
  <2>3. PICK second : train_next_sensors' = [train_next_sensors EXCEPT
                                               ![w.train] = <<w.from, second>>]
    BY <1>a, <1>9, <2>0, WalkDone
  <2>4. /\ w.train \in Train /\ Placed(w.train)
        /\ unannounced[w.train] \/ (TurnsBack(w) <=> flipped[w.train])
    BY <1>a, <2>0, <2>2 DEF Walks, Turned, WalkRecord
  <2>5. is_rev(w.train)' <=> TurnsBack(w)
    <3>1. train_next_sensors'[w.train][1] = w.from
      BY <1>b, <2>3, <2>4
    <3> QED
      BY <2>1, <2>2, <2>4, <3>1 DEF is_rev, TurnsBack, Placed
  <2>6. ASSUME NEW t \in Train, t # w.train, Unwalked(t)'
        PROVE  unannounced[t] \/ (is_rev(t)' <=> flipped[t])
    <3>1. \A i \in 1 .. Len(job) : i = 1 \/ i \in 2 .. Len(job)
      BY <1>b
    <3>2. Unwalked(t)
      <4>1. Placed(t) /\ \A i \in 1 .. Len(job') : job'[i].train # t
        BY <2>1, <2>6 DEF Unwalked, Placed
      <4>2. \A i \in 2 .. Len(job) : job[i].train # t
        BY <2>2, <4>1
      <4> QED
        BY <2>0, <2>6, <3>1, <4>1, <4>2 DEF Unwalked
    <3>3. is_rev(t)' <=> is_rev(t)
      BY <1>b, <2>1, <2>3, <2>6 DEF is_rev, Placed
    <3> QED
      BY <1>a, <3>2, <3>3 DEF Turned
  <2>7. \A t \in Train : Unwalked(t)' => unannounced[t] \/ (is_rev(t)' <=> flipped[t])
    BY <2>4, <2>5, <2>6
  <2>8. \A i \in 1 .. Len(job') : LET x == job'[i] IN
            unannounced[x.train] \/ (TurnsBack(x) <=> flipped[x.train])
    <3> TAKE i \in 1 .. Len(job')
    <3>1. i + 1 \in 1 .. Len(job) /\ job'[i] = job[i + 1]
      BY <2>2
    <3>2. unannounced[job[i + 1].train] \/ (TurnsBack(job[i + 1]) <=> flipped[job[i + 1].train])
      BY <1>a, <3>1 DEF Turned
    <3> QED
      BY <3>1, <3>2
  <2> QED
    BY <2>1, <2>7, <2>8 DEF Turned, TurnsBack
<1> QED
  BY <1>a, <1>1, <1>2, <1>4, <1>5, <1>6, <1>7, <1>8, <1>9 DEF Changes

\* A change of a switch is never forgotten: it is told, or one is already being handled that
\* renews the predictions after it.
LEMMA SwitchedStep == IInv /\ [Next]_vars => Switched'
<1> SUFFICES ASSUME IInv, [Next]_vars PROVE Switched'
  OBVIOUS
<1>a. TypeOK /\ Walks /\ Switched /\ Changes /\ SwitchTypeOK
  BY WhatChanges DEF IInv, TypeOK
<1>b. /\ job \in Seq(WalkRecord) /\ Len(job) \in Nat
      /\ \A i \in 1 .. Len(job) : job[i] \in WalkRecord
      /\ train_positions \in [Train -> Sensor \cup {None}]
      /\ train_next_sensors \in [Train -> (Sensor \cup {None}) \X (Sensor \cup {None})]
  BY <1>a, Types DEF TypeOK
<1> USE DEF Unwalked, Placed, Fresh, Right, Predicted, find_next_sensor, Beyond, is_rev
<1>1. CASE UNCHANGED <<switch_states, renderSwitch, job, train_positions, train_next_sensors>>
  BY <1>a, <1>1 DEF Switched
<1>2. ASSUME NEW s \in Switch, NEW mode \in Mode, SetSwitch(s, mode)
      PROVE  Switched'
  <2>1. /\ UNCHANGED <<job, train_positions, train_next_sensors>>
        /\ renderSwitch' = IF renderSwitch = "waits" /\ switch_states' # switch_states
                           THEN "told" ELSE renderSwitch
    BY <1>2 DEF SetSwitch, SwitchSet, Told, predictions
  <2>2. CASE renderSwitch' = "waits"
    <3>1. UNCHANGED <<switch_states, renderSwitch>>
      BY <2>1, <2>2
    <3> QED
      BY <1>1, <2>1, <3>1
  <2>3. CASE renderSwitch' # "waits"
    BY <1>a, <2>1, <2>3 DEF Switched
  <2> QED
    BY <2>2, <2>3
<1>3. CASE SwitchToTrain
  <2>1. renderSwitch' = "sent"
    BY <1>3 DEF SwitchToTrain
  <2> QED
    BY <2>1 DEF Switched
<1>4. CASE WaitsAgain
  <2>1. /\ renderSwitch = "answered" /\ renderSwitch' = "waits"
        /\ UNCHANGED <<switch_states, job, train_positions, train_next_sensors>>
    BY <1>4 DEF WaitsAgain, WaitOnSwitchChange, predictions
  <2> QED
    BY <1>a, <2>1 DEF Switched
<1>5. CASE HandleSwitchChange
  <2>1. renderSwitch' = "answered" /\ UNCHANGED train_positions
    BY <1>5 DEF HandleSwitchChange, predictions
  <2>2. \A i \in 1 .. Len(job') : Begins(job'[i], train_positions')
    BY <1>a, <1>5, ChangeBegins
  <2>3. \A t \in Train : ~Unwalked(t)'
    BY <1>a, <1>5, <2>1, ChangeBegins
  <2> QED
    BY <2>1, <2>2, <2>3 DEF Switched, Begins
<1>6. ASSUME job = <<>>, Runs, UNCHANGED <<switch_states, renderSwitch, train_next_sensors>>,
             Request,
             \E t \in Train :
                /\ \A u \in Train \ {t} : train_positions'[u] = train_positions[u]
                /\ train_positions'[t] # None => \E w : job' = <<w>> /\ w.train = t
      PROVE  Switched'
  <2>1. PICK t \in Train :
                /\ \A u \in Train \ {t} : train_positions'[u] = train_positions[u]
                /\ train_positions'[t] # None => \E w : job' = <<w>> /\ w.train = t
    BY <1>6
  <2>2. ~Unwalked(t)'
    <3>1. ASSUME train_positions'[t] # None
          PROVE  \E i \in 1 .. Len(job') : job'[i].train = t
      <4>1. PICK w : job' = <<w>> /\ w.train = t
        BY <2>1, <3>1
      <4>2. 1 \in 1 .. Len(job') /\ job'[1] = w
        BY <4>1
      <4> QED
        BY <4>1, <4>2
    <3> QED
      BY <3>1
  <2>3. renderSwitch' # "answered"
    BY <1>6 DEF Runs
  <2>4. ASSUME renderSwitch' = "waits", NEW u \in Train, Unwalked(u)'
        PROVE  Predicted(u)'
    <3>1. u # t
      BY <2>2, <2>4
    <3>2. train_positions'[u] = train_positions[u] /\ Placed(u)
      BY <2>1, <2>4, <3>1
    <3>3. \A i \in 1 .. Len(job) : FALSE
      BY <1>6
    <3>4. Unwalked(u)
      BY <3>2, <3>3
    <3>5. Predicted(u)
      BY <1>6, <1>a, <2>4, <3>4 DEF Switched
    <3> QED
      BY <1>6, <3>2, <3>5
  <2>5. ASSUME NEW i \in 1 .. Len(job')
        PROVE  Right(job[i])'
    <3>1. Begins(job'[i], train_positions')
      BY <1>a, <1>6, Requests
    <3> QED
      BY <3>1 DEF Begins
  <2> QED
    BY <2>3, <2>4, <2>5 DEF Switched
<1>7. ASSUME NEW t \in Train, HandleReverseStanding(t)
      PROVE  Switched'
  <2>1. /\ job = <<>> /\ Runs /\ Request
        /\ UNCHANGED <<switch_states, renderSwitch, train_positions, train_next_sensors>>
    BY <1>7 DEF HandleReverseStanding, Handles, Request, switchVars, predictions
  <2>2. train_positions'[t] # None => \E w : job' = <<w>> /\ w.train = t
    BY <1>a, <1>7, <2>1, StandingBegins
  <2> QED
    BY <1>6, <2>1, <2>2
<1>8. ASSUME NEW k \in Tid, HandleReverseReverse(k)
      PROVE  Switched'
  <2>1. /\ job = <<>> /\ Runs /\ Request
        /\ UNCHANGED <<switch_states, renderSwitch, train_positions, train_next_sensors>>
    BY <1>8 DEF HandleReverseReverse, Handles, Request, switchVars, predictions
  <2>2. \E t \in Train : train_positions'[t] # None => \E w : job' = <<w>> /\ w.train = t
    BY <1>a, <1>8, <2>1, TurnedBegins
  <2> QED
    BY <1>6, <2>1, <2>2
<1>9. ASSUME NEW s \in Sensor, HandleSensor(s)
      PROVE  Switched'
  <2>1. /\ job = <<>> /\ Runs /\ Request
        /\ UNCHANGED <<switch_states, renderSwitch, train_next_sensors>>
    BY <1>9 DEF HandleSensor, Handles, Request, switchVars
  <2>2. PICK t \in Train : /\ train_positions' = [train_positions EXCEPT ![t] = s]
                           /\ \E w : job' = <<w>> /\ w.train = t
    BY <1>a, <1>9, SensorBegins
  <2>3. \A u \in Train \ {t} : train_positions'[u] = train_positions[u]
    BY <1>b, <2>2
  <2> QED
    BY <1>6, <2>1, <2>2, <2>3
<1>10. CASE WalkOn \/ WalkFirst
  <2>1. /\ UNCHANGED <<switch_states, renderSwitch, train_positions, train_next_sensors>>
        /\ renderSwitch # "answered"
    BY <1>10 DEF WalkOn, WalkFirst, Runs, predictions, switchVars
  <2>2. /\ 1 \in 1 .. Len(job) /\ Len(job') = Len(job)
        /\ \A i \in 2 .. Len(job) : job'[i] = job[i]
        /\ job'[1].train = job[1].train
    BY <1>a, <1>10, Walking
  <2>3. \A i \in 1 .. Len(job) : job'[i].train = job[i].train /\ (i = 1 \/ job'[i] = job[i])
    BY <1>b, <2>2
  <2>4. \A t \in Train : Unwalked(t)' => Unwalked(t)
    BY <2>1, <2>2, <2>3
  <2>5. ASSUME renderSwitch = "waits"
        PROVE  Right(job[1])'
    <3> DEFINE w == job[1]
               v == job'[1]
               s == train_positions[w.train]
    <3>1. /\ w \in WalkRecord /\ s \in Sensor
          /\ w.stage = "first" => w.from = s
          /\ Beyond(w.at) = find_next_sensor(w.from)
          /\ w.stage = "second" => w.from \in {Reverse[s], find_next_sensor(s)}
      BY <1>a, <1>b, <2>2, <2>5 DEF Walks, Switched, WalkRecord
    <3>2. /\ v.train = w.train
          /\ \/ /\ w.at \in Switch /\ v.stage = w.stage /\ v.from = w.from
                /\ v.at = AheadBy[w.at][switch_states[w.at]]
             \/ /\ w.at \notin Switch /\ w.stage = "first"
                /\ v.stage = "second" /\ v.from = w.at /\ v.at = Onward(w.at)
      BY <1>a, <1>10, Walking
    <3> HIDE DEF v, w, s, Beyond, find_next_sensor
    <3>3. w.at \in Node /\ w.stage \in {"first", "second"}
      BY <3>1 DEF WalkRecord
    <3>4. /\ Beyond(v.at) = find_next_sensor(v.from)
          /\ v.stage = "second" => v.from \in {Reverse[s], find_next_sensor(s)}
      <4>1. CASE w.at \in Switch
        BY <1>a, <3>1, <3>2, <3>3, <4>1, WaysLead
      <4>2. CASE w.at \notin Switch
        <5>1. Beyond(w.at) = w.at
          BY <1>a, <3>3, <4>2, WaysLead
        <5> QED
          BY <3>1, <3>2, <4>2, <5>1 DEF find_next_sensor
      <4> QED
        BY <4>1, <4>2
    <3> QED
      BY <2>1, <3>2, <3>4 DEF s, v, Beyond, find_next_sensor
  <2>6. ASSUME renderSwitch = "waits", NEW i \in 1 .. Len(job')
        PROVE  Right(job[i])'
    <3>1. CASE i = 1
      BY <2>5, <2>6, <3>1
    <3>2. CASE i # 1
      <4>1. i \in 1 .. Len(job) /\ job'[i] = job[i]
        BY <2>2, <2>3, <2>6, <3>2
      <4>2. Right(job[i])
        BY <1>a, <2>6, <4>1 DEF Switched
      <4> QED
        BY <2>1, <4>1, <4>2
    <3> QED
      BY <3>1, <3>2
  <2>7. ASSUME renderSwitch = "waits", NEW t \in Train, Unwalked(t)'
        PROVE  Predicted(t)'
    <3>1. Predicted(t)
      BY <1>a, <2>4, <2>7 DEF Switched
    <3> QED
      BY <2>1, <3>1
  <2> QED
    BY <2>1, <2>6, <2>7 DEF Switched
<1>11. CASE WalkSecond
  <2>0. PICK w \in WalkRecord : w = job[1]
    BY <1>a, <1>11, WalkDone
  <2>1. /\ UNCHANGED <<switch_states, renderSwitch, train_positions>>
        /\ renderSwitch # "answered"
    BY <1>11 DEF WalkSecond, Runs, switchVars
  <2>2. /\ 1 \in 1 .. Len(job) /\ w.stage = "second" /\ w.at \notin Switch
        /\ \A i \in 1 .. Len(job') : i + 1 \in 1 .. Len(job) /\ job'[i] = job[i + 1]
        /\ \A i \in 2 .. Len(job) : i - 1 \in 1 .. Len(job') /\ job'[i - 1] = job[i]
    BY <1>a, <1>11, <2>0, WalkDone
  <2>3. PICK second \in {None, w.at} :
              train_next_sensors' = [train_next_sensors EXCEPT ![w.train] = <<w.from, second>>]
    BY <1>a, <1>11, <2>0, WalkDone
  <2>4. ASSUME renderSwitch = "waits"
        PROVE  Predicted(w.train)'
    <3> DEFINE s == train_positions[w.train]
    <3>1. /\ w.train \in Train /\ w.at \in Node
          /\ s # None
          /\ Beyond(w.at) = find_next_sensor(w.from)
          /\ w.from \in {Reverse[s], find_next_sensor(s)}
      BY <1>a, <2>0, <2>2, <2>4 DEF Walks, Switched, WalkRecord
    <3>2. train_next_sensors'[w.train] = <<w.from, second>>
      BY <1>b, <2>3, <3>1
    <3>3. second \in {None, find_next_sensor(w.from)}
      BY <2>2, <3>1
    <3> HIDE DEF Beyond, find_next_sensor
    <3>4. is_rev(w.train)' \/ w.from = find_next_sensor(s)
      BY <2>1, <3>1, <3>2
    <3> QED
      BY <2>1, <3>2, <3>3, <3>4 DEF Beyond, find_next_sensor
  <2>5. ASSUME renderSwitch = "waits", NEW t \in Train, t # w.train, Unwalked(t)'
        PROVE  Predicted(t)'
    <3>1. \A i \in 1 .. Len(job) : i = 1 \/ i \in 2 .. Len(job)
      BY <1>b
    <3>2. Unwalked(t)
      <4>1. Placed(t) /\ \A i \in 1 .. Len(job') : job'[i].train # t
        BY <2>1, <2>5
      <4>2. \A i \in 2 .. Len(job) : job[i].train # t
        BY <2>2, <4>1
      <4> QED
        BY <2>0, <2>5, <3>1, <4>1, <4>2
    <3>3. Predicted(t) /\ train_next_sensors'[t] = train_next_sensors[t]
      BY <1>a, <1>b, <2>3, <2>5, <3>2 DEF Switched
    <3> QED
      BY <2>1, <3>3
  <2>6. ASSUME renderSwitch = "waits", NEW i \in 1 .. Len(job')
        PROVE  Right(job[i])'
    <3>1. i + 1 \in 1 .. Len(job) /\ job'[i] = job[i + 1]
      BY <2>2
    <3>2. Right(job[i + 1])
      BY <1>a, <2>6, <3>1 DEF Switched
    <3> QED
      BY <2>1, <3>1, <3>2
  <2> QED
    BY <2>1, <2>4, <2>5, <2>6 DEF Switched
<1> QED
  BY <1>a, <1>1, <1>2, <1>3, <1>4, <1>5, <1>7, <1>8, <1>9, <1>10, <1>11 DEF Changes

\* A speed is asked for and sent at once, or a reversal is under way that will send it.
LEMMA SpeedStep == IInv /\ SpeedKept /\ [Next]_vars => SpeedKept'
<1> SUFFICES ASSUME IInv, SpeedKept, [Next]_vars, NEW t \in Train, reverse_tasks'[t] = 0
             PROVE  speed'[t] = train_states'[t]
  BY DEF SpeedKept
<1>a. TypeOK /\ Owned /\ Changes
  BY WhatChanges DEF IInv
<1>b. /\ train_states \in [Train -> Speed] /\ speed \in [Train -> Speed]
      /\ reverse_tasks \in [Train -> Tid \cup {0, NotCreated}]
      /\ 0 \notin Tid /\ NotCreated # 0
  BY <1>a, TrainAssumption, SendersDiffer DEF TypeOK, NotCreated
<1>c. reverse_tasks[t] = 0 => speed[t] = train_states[t]
  BY DEF SpeedKept
<1>1. CASE UNCHANGED <<train_states, speed>>
  <2>1. CASE UNCHANGED reversals
    BY <1>1, <1>c, <2>1 DEF reversals
  <2>2. ASSUME NEW u \in Train, HandleReverseMoving(u)
        PROVE  speed'[t] = train_states'[t]
    <3>1. reverse_tasks[t] = 0
      BY <1>a, <1>b, <2>2, Started
    <3> QED
      BY <1>1, <1>c, <3>1
  <2>3. ASSUME NEW k \in Tid, ReverseTaskSends(k) \/ HandleReverseReverse(k)
        PROVE  speed'[t] = train_states'[t]
    BY <1>1, <1>c, <2>3 DEF ReverseTaskSends, HandleReverseReverse
  <2>4. ASSUME NEW k \in Tid, HandleReverseRestart(k)
        PROVE  speed'[t] = train_states'[t]
    BY <1>b, <1>c, <2>4 DEF HandleReverseRestart, set_train
  <2> QED
    BY <1>a, <2>1, <2>2, <2>3, <2>4 DEF Changes
<1>2. ASSUME NEW u \in Train, NEW v \in Speed, HandleSetSpeed(u, v)
      PROVE  speed'[t] = train_states'[t]
  BY <1>b, <1>c, <1>2 DEF HandleSetSpeed, set_train, reversals
<1>3. ASSUME NEW u \in Train, HandleStop(u) \/ HandleSetLights(u) \/ HandleReverseStanding(u)
      PROVE  speed'[t] = train_states'[t]
  BY <1>b, <1>c, <1>3 DEF HandleStop, HandleSetLights, HandleReverseStanding, reverse_train_0,
                          set_train, reversals
<1>4. ASSUME NEW u \in Train, HandleReverseMoving(u)
      PROVE  speed'[t] = train_states'[t]
  <2>1. t # u /\ reverse_tasks[t] = 0
    BY <1>a, <1>b, <1>4, Started
  <2> QED
    BY <1>b, <1>c, <1>4, <2>1 DEF HandleReverseMoving, set_train
<1>5. ASSUME NEW k \in Tid, HandleReverseReverse(k) \/ HandleReverseRestart(k)
      PROVE  speed'[t] = train_states'[t]
  <2>1. CASE HandleReverseReverse(k)
    <3>1. PICK u \in Train : reverse_tasks[u] = k /\ speed' = [speed EXCEPT ![u] = 0]
      BY <2>1 DEF HandleReverseReverse, reverse_train_0, set_train
    <3>2. reverse_tasks' = reverse_tasks /\ train_states' = train_states
      BY <2>1 DEF HandleReverseReverse
    <3> QED
      BY <1>b, <1>c, <3>1, <3>2
  <2>2. CASE HandleReverseRestart(k)
    <3>1. PICK u \in Train : /\ speed' = [speed EXCEPT ![u] = train_states[u]]
                             /\ reverse_tasks' = [reverse_tasks EXCEPT ![u] = 0]
      BY <2>2 DEF HandleReverseRestart, set_train
    <3>2. train_states' = train_states
      BY <2>2 DEF HandleReverseRestart
    <3> QED
      BY <1>b, <1>c, <3>1, <3>2
  <2> QED
    BY <1>5, <2>1, <2>2
<1> QED
  BY <1>a, <1>1, <1>2, <1>3, <1>4, <1>5 DEF Changes

-----------------------------------------------------------------------------
(* The theorems. *)

LEMMA Initially == Init => IInv /\ SpeedKept
<1> SUFFICES ASSUME Init PROVE IInv /\ SpeedKept
  OBVIOUS
<1>1. SwitchTypeOK
  BY DEF Init, SwitchInit, SwitchTypeOK
<1>2. /\ job = <<>> /\ senders = <<>> /\ renderSwitch = "waits" /\ train_positions = Start
      /\ \A i \in 1 .. Len(job) : FALSE
      /\ \A i \in 1 .. Len(senders) : FALSE
  BY DEF Init, SwitchInit
<1>3. \A t \in Train : Start[t] \in Sensor \cup {None}
  BY TrainAssumption
<1>4. \A t \in Train : /\ find_next_sensor(Start[t]) \in Sensor \cup {None}
                       /\ find_next_sensor(find_next_sensor(Start[t])) \in Sensor \cup {None}
  BY <1>1, <1>3, WaysLead
<1>5. TypeOK
  <2>1. 0 \in Speed
    BY TrainAssumption DEF Speed
  <2>2. job \in Seq(WalkRecord) /\ senders \in Seq(Sender)
    BY <1>2, EmptySeq
  <2>3. train_next_sensors \in [Train -> (Sensor \cup {None}) \X (Sensor \cup {None})]
    BY <1>4 DEF Init
  <2> QED
    BY <1>1, <1>2, <2>1, <2>2, <2>3, TrainAssumption DEF Init, TypeOK, WalkRecord, Sender
<1>6. Owned
  <2>1. \A k \in Tid : reverser[k] = "free" <=> k > 0
    BY TrainAssumption DEF Init, Tid
  <2>2. 0 \in 0 .. MaxTasks /\ 0 \notin Tid
    BY TrainAssumption DEF Tid
  <2> QED
    BY <2>1, <2>2 DEF Init, Owned
<1>7. Sent /\ Walks
  BY <1>2 DEF Sent, Walks
<1>8. \A t \in Train : Placed(t) => ~is_rev(t) /\ Predicted(t)
  <2> TAKE t \in Train
  <2>1. train_next_sensors[t] = <<find_next_sensor(Start[t]), find_next_sensor(find_next_sensor(Start[t]))>>
    BY DEF Init
  <2>2. Placed(t) => find_next_sensor(Start[t]) # Reverse[Start[t]]
    BY <1>1, <1>2, <1>3, NeverBack DEF Placed
  <2> QED
    BY <1>2, <2>1, <2>2 DEF is_rev, Predicted
<1>9. Turned /\ Switched
  BY <1>2, <1>8 DEF Init, Turned, Switched, Unwalked
<1>10. SpeedKept
  BY DEF Init, SpeedKept
<1> QED
  BY <1>5, <1>6, <1>7, <1>9, <1>10 DEF IInv

LEMMA Invariance == Spec => []IInv
<1>1. Init => IInv
  BY Initially
<1>2. IInv /\ [Next]_vars => IInv'
  BY TypeStep, OwnedStep, SendersStep, WalksStep, TurnedStep, SwitchedStep DEF IInv
<1> QED
  BY <1>1, <1>2, PTL DEF Spec

\* However commands, reversals and sensors interleave (HandleReverseMoving and ReverseTask), every
\* variable has its type, and every ReverseTask at work is named by the entry of one train.
THEOREM OneReversal == Spec => []TrainsInv
<1>1. IInv => TrainsInv
  <2> SUFFICES ASSUME IInv, NEW k \in Tid
               PROVE  LET owners == {t \in Train : reverse_tasks[t] = k}
                      IN  Cardinality(owners) = IF reverser[k] \in {"free", "done"} THEN 0 ELSE 1
    BY DEF IInv, TrainsInv, ReversalsOwned
  <2> DEFINE owners == {t \in Train : reverse_tasks[t] = k}
  <2>1. CASE reverser[k] \in {"free", "done"}
    <3>1. owners = {}
      BY <2>1 DEF IInv, Owned
    <3> QED
      BY <2>1, <3>1, FS_EmptySet
  <2>2. CASE reverser[k] \notin {"free", "done"}
    <3>1. PICK t \in Train : reverse_tasks[t] = k
      BY <2>2 DEF IInv, Owned
    <3>2. owners = {t}
      BY <3>1 DEF IInv, Owned
    <3>3. Cardinality({t}) = 1
      BY FS_Singleton
    <3> QED
      BY <2>2, <3>2, <3>3
  <2> QED
    BY <2>1, <2>2
<1> QED
  BY <1>1, Invariance, PTL

\* Outside of a reversal a train runs at the speed that was asked for last, whatever
\* SYSTEM_SET_SPEED and SYSTEM_STOP_TRAIN have asked for while it was reversed.
THEOREM LastSpeed == Spec => []SpeedKept
<1>1. Init => SpeedKept
  BY Initially
<1>2. IInv /\ SpeedKept /\ [Next]_vars => SpeedKept'
  BY SpeedStep
<1> QED
  BY <1>1, <1>2, Invariance, PTL DEF Spec

\* A train is expected back at the sensor it was last seen at if and only if it has turned an
\* odd number of times since, in spite of switches that are set while the track is walked;
\* unless it has been turned without a word to the predictions.
THEOREM TurnsFollowed == Spec => []TurnsPredicted
<1>1. IInv => TurnsPredicted
  <2> SUFFICES ASSUME IInv, job = <<>>, NEW t \in Train, Placed(t)
               PROVE  unannounced[t] \/ is_rev(t) = flipped[t]
    BY DEF TurnsPredicted
  <2>1. \A i \in 1 .. Len(job) : FALSE
    OBVIOUS
  <2>2. unannounced[t] \/ (is_rev(t) <=> flipped[t])
    BY <2>1 DEF IInv, Turned, Unwalked
  <2>3. is_rev(t) \in BOOLEAN /\ flipped[t] \in BOOLEAN
    BY DEF IInv, TypeOK, is_rev
  <2> QED
    BY <2>2, <2>3
<1> QED
  BY <1>1, Invariance, PTL

\* When no change of a switch is under way, the next sensors of every train are those the
\* switches lead to: no change is lost between unblock_on_switch, renderSwitchTask and the
\* walks along the track, each switch of which is read at a time of its own.
THEOREM SwitchesFollowed == Spec => []SwitchesPredicted
<1>1. IInv => SwitchesPredicted
  <2> SUFFICES ASSUME IInv, renderSwitch = "waits", job = <<>>, NEW t \in Train, Placed(t)
               PROVE  Predicted(t)
    BY DEF SwitchesPredicted, Predicted
  <2>1. \A i \in 1 .. Len(job) : FALSE
    OBVIOUS
  <2> QED
    BY <2>1 DEF IInv, Switched, Unwalked
<1> QED
  BY <1>1, Invariance, PTL
=============================================================================
