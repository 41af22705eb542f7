----------------------------- MODULE SensorFeed -----------------------------
(***************************************************************************)
(* What the sensor server promises the tasks that call WaitOnSensor: from  *)
(* its first wait on, a task reads every sensor that trains trigger, in    *)
(* order and once, however long it is away between two waits, until it     *)
(* has Capacity of them to read.                                           *)
(***************************************************************************)
EXTENDS Integers, Sequences

CONSTANTS Task, Sensor, Any, Nothing, Capacity

VARIABLES
    enrolled,  \* the tasks that have waited
    unread,    \* what each task has still to read
    want,      \* what it waits for: a sensor, Any, or Nothing
    answer     \* what its last wait returned
vars == <<enrolled, unread, want, answer>>

Matches(t, i) == want[t] \in {Any, unread[t][i]}
Readable(t)   == {i \in 1 .. Len(unread[t]) : Matches(t, i)}

Trigger(s) ==
    /\ unread' = [t \in Task |-> IF t \in enrolled /\ Len(unread[t]) < Capacity
                                 THEN Append(unread[t], s) ELSE unread[t]]
    /\ UNCHANGED <<enrolled, want, answer>>

Ask(t, s) ==
    /\ want[t] = Nothing
    /\ want' = [want EXCEPT ![t] = s]
    /\ UNCHANGED <<enrolled, unread, answer>>

\* The first sensor that matches is the answer; those before it are skipped.
Answer(t) ==
    /\ want[t] # Nothing
    /\ \E i \in Readable(t) :
          /\ \A j \in Readable(t) : i <= j
          /\ answer' = [answer EXCEPT ![t] = unread[t][i]]
          /\ unread' = [unread EXCEPT ![t] = SubSeq(@, i + 1, Len(@))]
    /\ want' = [want EXCEPT ![t] = Nothing]
    /\ UNCHANGED enrolled

\* Nothing matches: the task goes on waiting and has read all there was.
Skip(t) ==
    /\ want[t] # Nothing /\ Readable(t) = {}
    /\ enrolled' = enrolled \cup {t}
    /\ unread' = [unread EXCEPT ![t] = <<>>]
    /\ UNCHANGED <<want, answer>>

Init ==
    /\ enrolled = {}
    /\ unread = [t \in Task |-> <<>>]
    /\ want = [t \in Task |-> Nothing]
    /\ answer = [t \in Task |-> Any]

Next ==
    \/ \E s \in Sensor : Trigger(s)
    \/ \E t \in Task : Answer(t) \/ Skip(t) \/ \E s \in Sensor \cup {Any} : Ask(t, s)

\* A wait that can be answered is.
Spec == Init /\ [][Next]_vars /\ \A t \in Task : WF_vars(Answer(t))
=============================================================================
