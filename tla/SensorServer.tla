---------------------------- MODULE SensorServer ----------------------------
(***************************************************************************)
(* The sensor server and its notifier (src/user/sensor-server), which      *)
(* turns the dumps of the track's sensors into a feed for each task.       *)
(*                                                                         *)
(* Server and notifier share priority 2; the tasks that wait for sensors   *)
(* have lower ones, so they run only while both are blocked, and none of   *)
(* their calls finds another's on its way.  A dump is assumed to report    *)
(* fewer than MAX_TRIGGERED new sensors: the list has room for no more.    *)
(***************************************************************************)
EXTENDS ByteQueue, FiniteSets

CONSTANTS
    Task,              \* the tasks that wait for sensors
    BYTE_COUNT, Bits,  \* the bytes of a dump, and the sensors in each
    MAX_TRIGGERED,     \* the length of a list of triggered sensors, with its end mark
    MaxFeed            \* bound on the sensors reported: then the trains stand still

Notifier == "sensorNotifierTask"

ASSUME SensorAssumption ==
    /\ IsFiniteSet(Task) /\ Notifier \notin Task
    /\ {BYTE_COUNT, Bits, MAX_TRIGGERED, MaxFeed} \subseteq Nat \ {0}

VARIABLES
    \* the notifier
    sensor_state,     \* the sensors set in the last bytes read
    byte,             \* the byte of the dump it reads next
    triggered_list,   \* newly set sensors of this dump
    notifier,         \* "read", or "reply" from its Send on
    reported,         \* how many sensors it has reported
    \* the server
    stage,            \* "receive", "push" or "scan"
    senders,          \* who is in Send to it: tasks, or Notifier
    report,           \* what is left of the list it handles
    sensor_requests,  \* the buffered waits, [tid, sensor_id]
    it,               \* the place in them its iterator points to
    tid_sensor_queue, tid_registered,
    \* the tasks
    waiting,          \* what each task waits for, or Nothing
    triggered         \* what its last wait returned
sensorVars == <<sensor_state, byte, triggered_list, notifier, reported, stage, senders,
                report, sensor_requests, it, tid_sensor_queue, tid_registered, waiting,
                triggered>>

notifierVars == <<sensor_state, byte, triggered_list, reported>>
queues       == <<tid_sensor_queue, tid_registered>>
tasks        == <<waiting, triggered>>

Any      == -1
Nothing  == -2
Sensor   == 0 .. BYTE_COUNT * Bits - 1

-----------------------------------------------------------------------------
(* The notifier. *)

\* The newly set ones of the sensors "set" of a byte, as the loop over its bits lists
\* them: it meets the highest number first.
Triggered(set) ==
    LET new == set \ sensor_state
    IN  {q \in [1 .. Cardinality(new) -> new] : \A j, k \in DOMAIN q : j < k => q[j] > q[k]}

\* Getc returns byte number "byte" of the dump, with the sensors of "set"; after the
\* last one the list is sent, if it has any.
ReadByte(set) == \E new \in Triggered(set) :
    LET list == triggered_list \o new
        last == byte = BYTE_COUNT - 1
    IN  /\ notifier = "read"
        /\ Len(list) < MAX_TRIGGERED /\ reported + Len(list) <= MaxFeed
        /\ sensor_state' = {s \in sensor_state : s \div Bits # byte} \cup set
        /\ byte' = (byte + 1) % BYTE_COUNT
        /\ triggered_list' = list
        /\ IF last /\ list # <<>>
           THEN notifier' = "reply" /\ senders' = Append(senders, Notifier)
                /\ reported' = reported + Len(list)
           ELSE UNCHANGED <<notifier, senders, reported>>
        /\ UNCHANGED <<stage, report, sensor_requests, it, queues, tasks>>

-----------------------------------------------------------------------------
(* The tasks. *)

\* WaitOnSensor of interface.c.
WaitOnSensor(t, s) ==
    /\ stage = "receive" /\ senders = <<>>
    /\ waiting[t] = Nothing
    /\ waiting' = [waiting EXCEPT ![t] = s]
    /\ senders' = Append(senders, t)
    /\ UNCHANGED <<notifierVars, notifier, stage, report, sensor_requests, it, queues,
                   triggered>>

-----------------------------------------------------------------------------
(* The server. *)

\* SENSOR_TRIGGERED is handled in several steps, which begin here.
ReceiveTriggered ==
    /\ stage = "receive" /\ senders # <<>> /\ Head(senders) = Notifier
    /\ stage' = "push" /\ report' = triggered_list
    /\ senders' = Tail(senders)
    /\ UNCHANGED <<notifierVars, notifier, sensor_requests, it, queues, tasks>>

\* Mutant of PushSensor: only the tasks that wait at the moment hear of a sensor.
PushSensorWaiting ==
    /\ stage = "push" /\ report # <<>>
    /\ tid_sensor_queue' = [t \in Task |->
           IF tid_registered[t] /\ waiting[t] # Nothing
           THEN push(tid_sensor_queue[t], Head(report)) ELSE tid_sensor_queue[t]]
    /\ report' = Tail(report)
    /\ UNCHANGED <<notifierVars, notifier, stage, senders, sensor_requests, it,
                   tid_registered, tasks>>

PushSensor ==
    /\ stage = "push" /\ report # <<>>
    /\ tid_sensor_queue' = [t \in Task |->
           IF tid_registered[t]
           THEN push(tid_sensor_queue[t], Head(report)) ELSE tid_sensor_queue[t]]
    /\ report' = Tail(report)
    /\ UNCHANGED <<notifierVars, notifier, stage, senders, sensor_requests, it,
                   tid_registered, tasks>>

PushEnd ==
    /\ stage = "push" /\ report = <<>>
    /\ stage' = "scan" /\ it' = 1
    /\ UNCHANGED <<notifierVars, notifier, senders, report, sensor_requests, queues, tasks>>

\* The pops a wait of t for sensor s makes: to the first that matches, or all.
Hits(t, s) ==
    LET q == Contents(tid_sensor_queue[t])
    IN  {i \in 1 .. Len(q) : s \in {Any, q[i]}}
FirstHit(t, s) == CHOOSE i \in Hits(t, s) : \A j \in Hits(t, s) : i <= j

\* The wait of t returns with what its last pop returned.
Found(t, s) ==
    /\ Hits(t, s) # {}
    /\ tid_sensor_queue' = [tid_sensor_queue EXCEPT ![t] = popped(@, FirstHit(t, s))]
    /\ triggered' = [triggered EXCEPT
                       ![t] = Contents(tid_sensor_queue[t])[FirstHit(t, s)]]
    /\ waiting' = [waiting EXCEPT ![t] = Nothing]

NotFound(t, s) ==
    /\ Hits(t, s) = {}
    /\ tid_sensor_queue' = [tid_sensor_queue EXCEPT ![t] = popped(@, @.len)]
    /\ UNCHANGED tasks

Without(s, i) == SubSeq(s, 1, i - 1) \o SubSeq(s, i + 1, Len(s))

\* Mutant of ScanFound: the iterator is moved on past the node after the removed one.
ScanFoundSkips ==
    /\ stage = "scan" /\ it <= Len(sensor_requests)
    /\ Found(sensor_requests[it].tid, sensor_requests[it].sensor_id)
    /\ sensor_requests' = Without(sensor_requests, it)
    /\ it' = it + 1
    /\ UNCHANGED <<notifierVars, notifier, stage, senders, report, tid_registered>>

\* A buffered wait is answered; llist_next has moved the iterator on already, to the
\* node that takes the place of the removed one.
ScanFound ==
    /\ stage = "scan" /\ it <= Len(sensor_requests)
    /\ Found(sensor_requests[it].tid, sensor_requests[it].sensor_id)
    /\ sensor_requests' = Without(sensor_requests, it)
    /\ UNCHANGED <<notifierVars, notifier, stage, senders, report, it, tid_registered>>

\* Mutant of ScanNotFound: the iterator stays where it is.
ScanNotFoundStays ==
    /\ stage = "scan" /\ it <= Len(sensor_requests)
    /\ NotFound(sensor_requests[it].tid, sensor_requests[it].sensor_id)
    /\ UNCHANGED <<notifierVars, notifier, stage, senders, report, sensor_requests, it,
                   tid_registered>>

ScanNotFound ==
    /\ stage = "scan" /\ it <= Len(sensor_requests)
    /\ NotFound(sensor_requests[it].tid, sensor_requests[it].sensor_id)
    /\ it' = it + 1
    /\ UNCHANGED <<notifierVars, notifier, stage, senders, report, sensor_requests,
                   tid_registered>>

\* The notifier is answered; its next dump starts with an empty list.
ScanEnd ==
    /\ stage = "scan" /\ it > Len(sensor_requests)
    /\ stage' = "receive"
    /\ notifier' = "read" /\ triggered_list' = <<>>
    /\ UNCHANGED <<sensor_state, byte, reported, senders, report, sensor_requests, it,
                   queues, tasks>>

\* SENSOR_WAITING.
HandleWaiting(t) ==
    /\ stage = "receive" /\ senders # <<>> /\ Head(senders) = t
    /\ senders' = Tail(senders)
    /\ \/ Found(t, waiting[t]) /\ UNCHANGED <<tid_registered, sensor_requests>>
       \/ /\ NotFound(t, waiting[t])
          /\ tid_registered' = [tid_registered EXCEPT ![t] = TRUE]
          /\ sensor_requests' = Append(sensor_requests,
                                       [tid |-> t, sensor_id |-> waiting[t]])
    /\ UNCHANGED <<notifierVars, notifier, stage, report, it>>

SensorStep ==
    \/ ReceiveTriggered \/ PushSensor \/ PushEnd \/ ScanFound \/ ScanNotFound \/ ScanEnd
    \/ \E t \in Task : HandleWaiting(t)

SensorInit ==
    /\ sensor_state = {} /\ byte = 0 /\ triggered_list = <<>>
    /\ notifier = "read" /\ reported = 0
    /\ stage = "receive" /\ senders = <<>> /\ report = <<>>
    /\ sensor_requests = <<>> /\ it = 1
    /\ tid_sensor_queue = [t \in Task |-> new_byte_queue]
    /\ tid_registered = [t \in Task |-> FALSE]
    /\ waiting = [t \in Task |-> Nothing]
    /\ triggered = [t \in Task |-> Any]

SensorNext ==
    \/ \E set \in SUBSET Sensor :
          (\A s \in set : s \div Bits = byte) /\ ReadByte(set)
    \/ SensorStep
    \/ \E t \in Task, s \in Sensor \cup {Any} : WaitOnSensor(t, s)

\* The server has the highest priority but for the clock; tasks and trains need
\* not do anything.
SensorSpec == SensorInit /\ [][SensorNext]_sensorVars /\ WF_sensorVars(SensorStep)

-----------------------------------------------------------------------------
(* Properties. *)

\* Every variable has its type.
SensorTypeOK ==
    /\ sensor_state \subseteq Sensor
    /\ byte \in 0 .. BYTE_COUNT - 1
    /\ triggered_list \in Seq(Sensor) /\ report \in Seq(Sensor)
    /\ Len(triggered_list) < MAX_TRIGGERED
    /\ notifier \in {"read", "reply"}
    /\ reported \in 0 .. MaxFeed
    /\ stage \in {"receive", "push", "scan"}
    /\ senders \in Seq(Task \cup {Notifier}) /\ Len(senders) <= 2
    /\ sensor_requests \in Seq([tid : Task, sensor_id : Sensor \cup {Any}])
    /\ Len(sensor_requests) <= Cardinality(Task)
    /\ it \in 1 .. Cardinality(Task) + 1
    /\ tid_sensor_queue \in [Task -> Ring(Sensor)]
    /\ tid_registered \in [Task -> BOOLEAN]
    /\ waiting \in [Task -> Sensor \cup {Any, Nothing}]
    /\ triggered \in [Task -> Sensor \cup {Any}]

\* No task sleeps while there is a sensor for it: between two messages of the
\* server, the queue of every task whose wait is buffered is empty.
NoSleepingWaiter ==
    stage = "receive" =>
        \A i \in 1 .. Len(sensor_requests) :
            isEmpty(tid_sensor_queue[sensor_requests[i].tid])

\* However the messages of the notifier and the tasks interleave, a wait is buffered only
\* while there is no sensor for it.
SensorInv == SensorTypeOK /\ NoSleepingWaiter

\* The server implements its contract: rings, registration and the walk over the
\* buffered waits give every task the sensors since its first wait, in order and
\* once, and answer every wait that can be answered.
Feed == INSTANCE SensorFeed WITH
    Capacity <- MAX_QUEUE_LENGTH,
    enrolled <- {t \in Task : tid_registered[t]},
    unread <- [t \in Task |-> Contents(tid_sensor_queue[t])],
    want <- waiting,
    answer <- triggered
FeedContract == Feed!Spec

\* The track is never left unread: the notifier gets its reply for every report,
\* however many tasks are waiting and being answered.
NotifierAnswered == notifier = "reply" ~> notifier = "read"
=============================================================================
