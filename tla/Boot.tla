-------------------------------- MODULE Boot --------------------------------
(***************************************************************************)
(* How the system starts: initTask (src/user/init_tasks.c) creates the     *)
(* servers, they register with the name server (src/user/nameserver.c),    *)
(* create their notifiers and look each other up, and so do the tasks of   *)
(* the user interface.  A name stands for the server that registers it.    *)
(*                                                                         *)
(* A task is what it does to the others until it starts its loop, then     *)
(* its loop.  The kernel runs a task of the highest priority that is       *)
(* ready, here any of them; interrupts come at any time, but no more than  *)
(* MaxInterrupts before the tasks that wait for them wait again.           *)
(***************************************************************************)
EXTENDS Integers, Sequences, FiniteSets

CONSTANTS init, names,
          clock, console, marklin, sensor, switch, zone, trainsys, rand, pactrain,
          tick, conReceive, conSend, marReceive, marSend, sensorNotifier, zoneNotifier,
          ui, clockUI, renderSwitch, renderSensor, prompt, predict, idlePerf,
          MaxInterrupts   \* bounds the interrupts that are being reported at a time

Server   == {clock, console, marklin, sensor, switch, zone, trainsys, rand, pactrain}
Notifier == {tick, conReceive, conSend, marReceive, marSend, sensorNotifier, zoneNotifier}
UI       == {ui, clockUI, renderSwitch, renderSensor, prompt, predict, idlePerf}
Task     == {init, names} \cup Server \cup Notifier \cup UI

ASSUME TasksDiffer == Cardinality(Task) = 25

\* The priorities the tasks are created with: 0 is the highest.
Priority(t) ==
    CASE t \in {clock, tick} -> 1
      [] t \in {console, marklin, sensor, switch, conReceive, conSend, marReceive, marSend,
                sensorNotifier, clockUI, prompt} -> 2
      [] t \in {names, renderSwitch, renderSensor} -> 3
      [] t \in {zone, zoneNotifier, trainsys, ui, predict} -> 4
      [] t \in {rand, pactrain} -> 5
      [] t = idlePerf -> 15
      [] t = init -> 30

RegisterAs  == [op |-> "register", who |-> names]
WhoIs(s)    == [op |-> "whois", who |-> s]
WhoIsNow(s) == [op |-> "lookup", who |-> s]   \* unless it is known
Create(t)   == [op |-> "create", who |-> t]
Call(s)     == [op |-> "call", who |-> s]     \* Send to a server that answers at once
Await       == [op |-> "await", who |-> init] \* AwaitEvent, Delay, Getc, ...: until an interrupt
Serve       == [op |-> "serve", who |-> init] \* Receive and Reply
Answer(t)   == [op |-> "answer", who |-> t]

\* Mutant of initTask: the UI is created before the servers of the games.
initTaskUIFirst ==
    <<Create(names), Create(clock), Create(console), Create(marklin), Call(marklin),
      WhoIs(console), Create(sensor), Create(switch), Create(zone), Create(trainsys),
      Create(ui), Create(rand), Create(pactrain)>>

initTask ==
    <<Create(names), Create(clock), Create(console), Create(marklin), Call(marklin),
      WhoIs(console), Create(sensor), Create(switch), Create(zone), Create(trainsys),
      Create(rand), Create(pactrain), Create(ui)>>

\* What a task does until its loop, under the name of its function.
ClockServer       == <<RegisterAs, Create(tick)>>
ConsoleIOServer   == <<RegisterAs, Create(conReceive), Create(conSend)>>
MarklinIOServer   == <<RegisterAs, Create(marReceive), Create(marSend)>>
SensorServer      == <<RegisterAs, Create(sensorNotifier)>>
SwitchServer      == <<RegisterAs, WhoIs(marklin)>>
ZoneServer        == <<RegisterAs, WhoIs(clock), Create(zoneNotifier)>>
TrainSystemServer == <<RegisterAs, WhoIs(marklin), WhoIs(switch), WhoIs(zone), Call(zone)>>
\* RandomDestinationServer and PacTrainServer.
GameServer        == <<RegisterAs>>

sensorNotifierTask == <<WhoIs(marklin), WhoIs(clock)>>
\* The other notifiers, clockUITask and idlePerformanceTask look up one server.
UsesOnly(s)        == <<WhoIs(s)>>

trainsys_init == <<WhoIs(trainsys), WhoIs(clock), WhoIs(switch), WhoIs(rand), WhoIs(pactrain)>>
UITask ==
    trainsys_init \o <<Create(clockUI), Create(renderSwitch), Create(renderSensor),
                       Create(prompt), Create(predict), Create(idlePerf)>>
renderSwitchTask == <<WhoIs(switch), WhoIs(clock), WhoIs(trainsys)>>
renderSensorTask == <<WhoIs(sensor), WhoIs(clock)>>
promptTask       == <<WhoIs(console), WhoIs(clock), Call(switch), Call(trainsys)>>
predictTask      == <<WhoIs(clock), WhoIs(sensor), WhoIs(trainsys), WhoIs(pactrain)>>

Start(t) ==
    CASE t = init -> initTask
      [] t = names -> <<>>
      [] t = clock -> ClockServer
      [] t = console -> ConsoleIOServer
      [] t = marklin -> MarklinIOServer
      [] t = sensor -> SensorServer
      [] t = switch -> SwitchServer
      [] t = zone -> ZoneServer
      [] t = trainsys -> TrainSystemServer
      [] t \in {rand, pactrain} -> GameServer
      [] t \in {tick, zoneNotifier, clockUI, idlePerf} -> UsesOnly(clock)
      [] t \in {conReceive, conSend} -> UsesOnly(console)
      [] t \in {marReceive, marSend} -> UsesOnly(marklin)
      [] t = sensorNotifier -> sensorNotifierTask
      [] t = ui -> UITask
      [] t = renderSwitch -> renderSwitchTask
      [] t = renderSensor -> renderSensorTask
      [] t = prompt -> promptTask
      [] t = predict -> predictTask

\* What it does again and again; nothing when it exits.
Loop(t) ==
    CASE t \in {init, ui} -> <<>>
      [] t = zone -> <<Serve, WhoIsNow(pactrain), Call(clock), Call(pactrain),
                        Answer(zoneNotifier)>>
      [] t \in (Server \cup {names}) \ {zone} -> <<Serve>>
      [] t = tick -> <<Await, Call(clock)>>
      [] t \in {conReceive, conSend} -> <<Await, Call(console)>>
      [] t \in {marReceive, marSend} -> <<Await, Call(marklin)>>
      [] t = sensorNotifier -> <<Call(marklin), Await, Call(sensor)>>
      [] t = zoneNotifier -> <<Await, Call(zone)>>
      [] t \in UI \ {ui} -> <<Await>>

VARIABLES
    status,   \* "none", "ready", "event", "reply", "receive" or "exited"
    pc,       \* the place of the task in its start and its loop
    inbox,    \* the messages sent to a server and not received: [from, op, who]
    map,      \* nameserver_map: the task registered under each server's name, if any
    found,    \* the servers each task has found
    missed    \* the pairs of a task and the server it has looked up in vain
vars == <<status, pc, inbox, map, found, missed>>

Does(t) == Start(t) \o Loop(t)
Op(t)   == Does(t)[pc[t]]

\* The next place of task t; 0 where it exits.
After(t) == IF pc[t] < Len(Does(t)) THEN pc[t] + 1
            ELSE IF Loop(t) = <<>> THEN 0 ELSE Len(Start(t)) + 1

\* The tasks the kernel may run.
Running == LET ready == {t \in Task : status[t] = "ready"}
           IN  {t \in ready : \A u \in ready : Priority(t) <= Priority(u)}

Runs(t, op) == pc[t] > 0 /\ Op(t).op = op

\* The tasks that have an interrupt to report.
Reporting == {t \in Notifier \cup UI : pc[t] > Len(Start(t)) /\ status[t] \in {"ready", "reply"}}

-----------------------------------------------------------------------------

Exit(t) ==
    /\ pc[t] = 0
    /\ status' = [status EXCEPT ![t] = "exited"]
    /\ UNCHANGED <<pc, inbox, map, found, missed>>

DoCreate(t) ==
    /\ Runs(t, "create")
    /\ status' = [status EXCEPT ![Op(t).who] = "ready"]
    /\ pc' = [pc EXCEPT ![t] = After(t)]
    /\ UNCHANGED <<inbox, map, found, missed>>

\* Send: the receiver runs when it waits, and the sender when it is answered.
SendTo(t, s) ==
    /\ status' = [status EXCEPT ![t] = "reply", ![s] = IF @ = "receive" THEN "ready" ELSE @]
    /\ inbox' = [inbox EXCEPT ![s] = Append(@, [from |-> t, op |-> Op(t).op, who |-> Op(t).who])]
    /\ UNCHANGED <<pc, map, found, missed>>

AskName(t) ==
    /\ \/ Runs(t, "register") \/ Runs(t, "whois")
       \/ Runs(t, "lookup") /\ Op(t).who \notin found[t]
    /\ SendTo(t, names)

\* The tid of a server is known to the task that created it and to those it creates, and to the tasks
\* that have found it; promptTask takes those UITask has found (SystemState).
Known(t, s) == \/ \E i \in 1 .. Len(Start(t)) : Start(t)[i] = Create(s)
               \/ \E i \in 1 .. Len(Start(s)) : Start(s)[i] = Create(t)
               \/ s \in found[t] \/ (t = prompt /\ s \in found[ui])

DoCall(t) ==
    /\ Runs(t, "call") /\ Known(t, Op(t).who)
    /\ SendTo(t, Op(t).who)

\* There is nothing to look up, or nobody to send to: Send fails.
Skip(t) ==
    /\ Runs(t, "lookup") \/ Runs(t, "call")
    /\ IF Op(t).op = "lookup" THEN Op(t).who \in found[t] ELSE ~Known(t, Op(t).who)
    /\ pc' = [pc EXCEPT ![t] = After(t)]
    /\ UNCHANGED <<status, inbox, map, found, missed>>

DoAwait(t) ==
    /\ Runs(t, "await")
    /\ status' = [status EXCEPT ![t] = "event"]
    /\ UNCHANGED <<pc, inbox, map, found, missed>>

\* What a task waits for happens.
Interrupt(t) ==
    /\ status[t] = "event" /\ Cardinality(Reporting) < MaxInterrupts
    /\ status' = [status EXCEPT ![t] = "ready"]
    /\ pc' = [pc EXCEPT ![t] = After(t)]
    /\ UNCHANGED <<inbox, map, found, missed>>

Receive(s) ==
    /\ Runs(s, "serve") /\ inbox[s] = <<>>
    /\ status' = [status EXCEPT ![s] = "receive"]
    /\ UNCHANGED <<pc, inbox, map, found, missed>>

\* A server answers the first message at once; the zone server goes through its loop
\* for its notifier, and answers it at the end.
DoServe(s) ==
    /\ s # names /\ Runs(s, "serve") /\ inbox[s] # <<>>
    /\ LET from == Head(inbox[s]).from
       IN  IF from = zoneNotifier /\ s = zone
           THEN /\ pc' = [pc EXCEPT ![s] = After(s)]
                /\ UNCHANGED status
           ELSE /\ pc' = [pc EXCEPT ![from] = After(from)]
                /\ status' = [status EXCEPT ![from] = "ready"]
    /\ inbox' = [inbox EXCEPT ![s] = Tail(@)]
    /\ UNCHANGED <<map, found, missed>>

DoAnswer(s) ==
    /\ Runs(s, "answer")
    /\ LET to == Op(s).who
       IN  /\ pc' = [pc EXCEPT ![to] = After(to), ![s] = After(s)]
           /\ status' = [status EXCEPT ![to] = "ready"]
    /\ UNCHANGED <<inbox, map, found, missed>>

\* NameServerTask: a name is given to its last sender; one that is not registered is -1.
NameServerTask(s) ==
    /\ s = names /\ Runs(s, "serve") /\ inbox[s] # <<>>
    /\ LET m == Head(inbox[names])
           t == m.from
       IN  /\ IF m.op = "register"
              THEN map' = [map EXCEPT ![t] = {t}] /\ UNCHANGED <<found, missed>>
              ELSE /\ found' = [found EXCEPT ![t] = @ \cup map[m.who]]
                   /\ missed' = IF map[m.who] = {} THEN missed \cup {<<t, m.who>>} ELSE missed
                   /\ UNCHANGED map
           /\ pc' = [pc EXCEPT ![t] = After(t)]
           /\ status' = [status EXCEPT ![t] = "ready"]
    /\ inbox' = [inbox EXCEPT ![names] = Tail(@)]

-----------------------------------------------------------------------------

Init ==
    /\ status = [t \in Task |-> IF t = init THEN "ready" ELSE "none"]
    /\ pc = [t \in Task |-> 1]
    /\ inbox = [s \in Server \cup {names} |-> <<>>]
    /\ map = [s \in Server |-> {}]
    /\ found = [t \in Task |-> {}]
    /\ missed = {}

Next ==
    \/ \E t \in Running :
          \/ Exit(t) \/ DoCreate(t) \/ AskName(t) \/ DoCall(t) \/ Skip(t) \/ DoAwait(t)
          \/ Receive(t) \/ DoServe(t) \/ DoAnswer(t) \/ NameServerTask(t)
    \/ \E t \in Task : Interrupt(t)

Spec == Init /\ [][Next]_vars

-----------------------------------------------------------------------------
(* Properties. *)

\* Every variable has its type.
TypeOK ==
    /\ status \in [Task -> {"none", "ready", "event", "reply", "receive", "exited"}]
    /\ pc \in [Task -> 0 .. 13]
    /\ \A s \in Server \cup {names} : \A i \in 1 .. Len(inbox[s]) : inbox[s][i].from \in Task
    /\ map \in [Server -> SUBSET Server]
    /\ found \in [Task -> SUBSET Server]

\* The order of creation and the priorities suffice for every server to be registered
\* before somebody looks it up, so that nobody keeps -1 for its tid; only the zone server
\* may ask for the game's in vain, and asks again.
NamesFound == missed \subseteq {<<zone, pactrain>>}

\* Both.
BootInv == TypeOK /\ NamesFound
=============================================================================
