# choochoo-os: a TLA+ verification project

choochoo-os is a micro-kernel for a Raspberry Pi that runs model trains: a kernel with
tasks, priorities, message passing and interrupts (`src/kern`), and on it servers for
time, IO, sensors, switches, trains, track zones, paths and a game (`src/user`). This
directory holds TLA+ models of the kernel and of the servers, the TLC runs that check them
on small instances, and proofs for instances of every size.

All paths below are relative to the repository, `src/`.

## 1. The system

### 1.1 Inventory

| Component | State | Operations | Modelled by |
|---|---|---|---|
| Kernel (`kern/kern.c`, `svc_helpers.c`, `scheduler.c`, `task_descriptor.c`) | task table, run queues, send queues, `SEND_STATE`/`RECEIVE_STATE` blocks, current task | Create, Yield, Exit, Kill, MyTid, Send, Receive, Reply, AwaitEvent, interrupts | `Kernel`, `Rendezvous` |
| Task memory (`addrspace.c`, `task_descriptor.c`) | page table, switch frames, descriptors | `create_task`, `delete_task` | `Memory` |
| Slab allocator (`kalloc.c`, `lib/alloc.c`) | the `in_use` marks of a partition | `slab_alloc`, `slab_free` | `Slab`, `BlockPool` |
| Boot order, name server (`user/init_tasks.c`, `nameserver.c`, the start of every task) | name to tid map, the tids each task has looked up | Create, RegisterAs, WhoIs | `Boot` |
| Clock server (`user/clock-server`) | `tick_count`, list of delayed requests | Time, Delay, DelayUntil, tick | `ClockServer` |
| IO servers and notifiers (`user/io-server`, `handle_irq`) | queued characters, `clearToSend`, the waiting reader, the kernel's receive queue | Getc, Putc, Puts, receive and send events | `IOServer`, `ByteQueue` |
| Sensor server and notifier (`user/sensor-server`) | a queue of sensors per task, buffered waits | dump, report, wait | `SensorServer`, `SensorFeed`, `ByteQueue` |
| Switch server (`user/switch-server`) | mode of each switch, the waiter | set, wait | `SwitchServer` |
| Train system server (`user/trainsys-server`) | speed, position, next sensors and reversal of each train | set speed, stop, reverse, sensor hit, switch changed | `TrainSystem` |
| Zone server (`user/zone-server`) | reservations, buffered waits | reserve, unreserve (one, all, all except), wait, wait_change, deadlock check | `ZoneServer` |
| Path finder (`user/pathfinder-server`) and the trains | route, place in it, `zone_sem`, `deadlock_counter` | search, reserve, partial path, wait, recompute, drive, turn, release | `PathFinder`, `TrackSearch` |
| Game server (`user/pactrain-server`) | helpers, route trains, food, score | start, end, destination reached, game over, food eaten, queries | `PacTrain`, `Errands`, composed in `Routing` |
| Random destinations (`user/random-dest-server`) | helpers | start, end, destination reached | `RandomDest`, `Errands`, composed in `Routing` |
| `AwaitTid` (`lib/syscall_utils.c`) | | look the task up, await the end of one, again | `Errands` |
| User interface (`user/ui`) | | starting, and what it sends to the servers | in part: `Boot`, `TrainSystem`, `Routing` |
| Containers and conversions (`lib/`) | lists, hash map, ring buffer | | in part: `ByteQueue`, the iterators in `ClockServer` and `SensorServer` |
| Train and track tables, drivers, boot code, system call stubs, measurement program | | | not modelled (section 7) |

### 1.2 How they interact

Everything between tasks is Send/Receive/Reply. The kernel runs with interrupts masked: a
system call or an interrupt is handled to the end, and each ends with
`scheduler_next_task`. Devices reach the tasks through AwaitEvent: a *notifier* task waits
for an interrupt, sends it to its server, and waits again. A server handles one message at
a time and answers a client at once or keeps its tid in a list to be answered later. The
chain that drives a train: UI or game -> `PlanPath` creates a path finder task -> zone
server (reserve) -> train system and switch servers -> Marklin IO server; back: UART ->
IO server -> sensor notifier -> sensor server -> path finder, which releases zones. The
game server gives each train a *helper* task that plans a path, awaits its end with
`AwaitTid` and reports; the zone server asks the game server which train is pacman's. The
clock server wakes the zone server's deadlock notifier every 500 ticks. The user tasks share
three pieces of memory without messages: the slab allocator, the tables of
`user/sensor-server/server.c`, and the receive queue the interrupt handler fills.

### 1.3 What is hard

| Where | Behaviour | What makes it correct |
|---|---|---|
| Scheduler | one pass rotates every list it looks at, over runnable and blocked tasks alike; Create, Exit and Kill change the lists in between | no task lost or run twice, highest priority runs, round robin starves nobody |
| Message passing | either side may come first; replies by anyone, at any time; the partner may exit | a message is delivered once, in order; a sender goes on only after a reply to it; no block is leaked |
| Kill | takes a task out of any state | run queues and blocks of the others survive (a send queue does not: 8.2) |
| Task memory | four resources, each may run out | each returned, none shared (pages are: 8.3) |
| Slab allocator | used by preemptible tasks | a block has one owner (in user mode it may have two: 8.4) |
| Boot | names looked up while they are being registered | nobody keeps an invalid tid |
| Clock | ticks lost while the notifier is away; list changed while iterated | no Delay ends early or never |
| IO | interrupts lost while a notifier is away; queue shared with the interrupt handler; replies to a reader without a byte | bytes in order, once, never to a busy box; nobody waits beside a ready line |
| Sensors | tasks away between two waits; queues that fill; waits removed while they are walked over | every task gets every sensor since its first wait, once, in order |
| Trains | a reversal is stop, delay, reverse, delay, restart by another task, with commands, sensors and switch changes in between | one reversal at a time, the speed asked for last, predictions that follow the train |
| Zone server | one waiter woken per release; time-outs | nobody sleeps on for ever, nobody is overtaken, one train gives way at a time |
| Path finder | reservation zone by zone, waiting, waking and asking again; turns; routes that pass a zone twice | a train drives only into zones it has reserved (8.1) |
| Game | helpers killed anywhere, `AwaitTid` racing the end it waits for, servers that call each other | no helper forgotten or doubled, the server is never blocked for good, games end |

`PROJECT.json` lists each hazard at its line with the properties that watch it, or why none
does.

## 2. Plan

Done, in this order: `Kernel` with its contract `Rendezvous` and `KernelProofs`;
`Memory` and `Slab` with its contract `BlockPool`, and `MemoryProofs` for both; `ClockServer` and `ClockProofs`;
`ZoneServer` and `ZoneProofs`; `PathFinder` with `TrackSearch` and `PathProofs`; `SensorServer` with its contract
`SensorFeed`; `IOServer`, and `IOProofs` for both; `TrainSystem` with `SwitchServer` and `TrainProofs`;
`Routing` from `Errands`, `PacTrain` and `RandomDest`, and `RoutingProofs`; `Boot`.

Next:

1. Composition: the zone server with the game server it asks; path finders across a game
   over, where two tasks drive one train; `FETCH_ALL_FOOD`, whose reader goes through the
   game server's table while the server changes it.
2. Pure algorithms: the iterator and removal of `linked_list.c`, `hashmap.c`, `ui2a` and
   `format_clock`, each against a reference definition.

## 3. The modules

`MC*` modules only give values to constants.

**Kernel.** One action per system call and outcome, one for interrupts. Every action ends
with `Dispatch`, which is `scheduler_next_task`: `FirstRunnable` is the node the scan stops
at, `Rotate` the list afterwards. `status`, `pri`, `eventWait` and `listeners` are fields of
the descriptors; `status[t] = "NONE"` stands for a null entry in `task_list.tasks`.
`sendState` and `receiveState` say whether the task's block exists. A message is its
sender's tid. Using a null descriptor sets `wild`, after which nothing more happens. Which
call the running task makes is open within `Calls`, the constant that says what each
program contains; the idle task makes none. What needs two words of memory (buffers, copied
lengths) is left out.

**Rendezvous** is what Send, Receive and Reply promise, with no scheduler. `Kernel!SrrContract`
is that specification under the refinement mapping `phase <- Phase`, `pending <- listeners`,
`got <- sender`.

**Memory.** `create_task` with each of its failures and `delete_task`. First-fit scans are
`FirstFit`. `DeletePage` keeps what the code does: it clears entry `i + Shift`, because the
index is computed from `&pagetable` where it should be from `USER_BASE`. `Shift` is a
constant of the linked image.

**Slab.** `slab_alloc` and `slab_free` with a step between the test of a mark and its
change. `Masked` says whether another task can run there: not in the kernel, but in user
tasks, which call the same code through `lib/alloc.c`. **BlockPool** is the contract.

**Boot.** A task is the sequence of what it does to the others before its loop: create,
register, look up, call, wait. Each function of the code that starts a task is an operator of
that name. Among the ready tasks one of the highest priority goes on; an interrupt readies
any task that waits for one. `missed` collects the look-ups that found nothing.

**ClockServer.** The server's loop with its iteration over the list step by step, the
notifier, the timer and the clients. Server and notifier are of the highest priority, so
`ClientsRun` lets a client act only when both are blocked; this is what `HighestRuns` of
`Kernel` proves of the scheduler. The other server modules use priorities in the same way,
and each header says which.

**ByteQueue.** The ring of `byte_queue.c`; `Contents` is the sequence it stands for.

**IOServer.** One line, either of the two. An interrupt is an action of its own and
changes `receive_q` even inside the server's pop, which is a step for the load and one for
the store. Characters are numbered, so that order and loss can be stated. Three flags record
what the code lets go wrong: `lostSend` and `lostReceive` (an interrupt that does not find
its notifier in AwaitEvent, or an edge of CTS between reading and clearing) and `torn` (an
interrupt inside a pop). The properties hold up to these flags, and say what each costs.

**SensorServer.** The notifier that reads the dump byte by byte, the server, and the tasks
that wait. Walking over the buffered waits while answering them is a step per wait. It
implements **SensorFeed**, which has one sequence per task and no server: `FeedContract` is
that specification with the rings for sequences.

**SwitchServer** and **TrainSystem.** The switch server has priority 2 and handles a request
in one step. The train system server has priority 4: its walk along the track
(`find_next_sensor` in the code) asks the switch server at each switch, and `job` holds how
far it has come, so that commands, switches and the steps of a `ReverseTask` come in
between; a walk may read one switch before it is set and the next after. `TrackAssumption`
says that every way ends, and that none, however the switches are set meanwhile, comes back
to its own place without another sensor between; this is so on tracks A and B of
`track_data.c`, where up to three switches lie between two sensors. `garbled` marks a walk from an uninitialised value
(8.11). `flipped` and `unannounced` are history: whether the train has turned since it was
last seen, and whether the predictions were not told (8.10).

**Errands** is what the game and random destination servers have in common: helpers, their
paths, `AwaitTid` as three steps (`AwaitLooks`, `AwaitsEvent`, the wake-up), and the sends
the server has still to make (`todo`). **PacTrain** and **RandomDest** add the handlers of
each. **Routing** composes one of the two with the helpers and the callers. `lost` says that
the kernel has followed a null descriptor, after which nothing more happens.

**ZoneServer.** One action per request. The age of a waiting request is counted in deadlock
checks up to `OldAge`: checks come every 500 ticks and a request is stale after 500, so the
stale requests are a prefix of the list that contains at least those two checks old.

**TrackSearch.** `do_djikstra` as a recursive function of the round, with the code's choice
among equally near nodes, and `do_edge_trace` as the walk back along `prev`, then turned round;
that it gives up after 130 edges is left out. `WayFound` is the reference definition, by paths and their
lengths, with the least distances (`Least`) computed without choosing nodes. `LengthAssumption`: with 144
nodes and edges up to 875, no distance comes near `INF`.
`TrackAssumption` says what tracks A and B of `track_data.c` have in common: an edge can be
driven both ways, sensors have numbers of their own, some edges have length 0, and the zone
behind a node is the one before the next, but at the ends of the track, which have none.

**PathFinder** composes `ZoneServer` (`Z == INSTANCE ZoneServer`, a train for a client) with
one path finder per train and the trains. A route is a sequence of nodes, driven in legs from
one turn to the next; `next`, `target`, `lo`, `cutoff`, `seen` and `at` are places in it: what
is reserved, where the drive ends, where the leg begins, what is given back, where the task
takes the train to be, where it is. The search may return what it finds for any set of zones
others may have, since what it read may be out of date by the time the zones are asked for.
`slipped` marks the trains that have left the protocol in one of the ways of 8.1.

## 4. The runs

| Run | Question | Bounds |
|---|---|---|
| `kernel` | run queues, dispatch, send queues, blocks, the contract of message passing, round robin, with Kill and interrupts | 4 tids: idle, a server that creates and kills, two tasks that send, receive, wait and exit; 2 levels; two UART events beside the tick and the end of a task |
| `memory_tasks` | frames, descriptors and low pages are owned and returned | 8 tids, 8 pages, 5 frames, 4 descriptors, `Shift` 3 |
| `slab_kernel` | refinement of `BlockPool`, interrupts masked | 2 tasks, 5 offsets of which the last is unusable |
| `boot` | every look-up succeeds but one | all 25 tasks, one interrupt under way at a time |
| `clock` | no Delay ends early, every call returns | 2 clients, arguments to 2, 5 ticks |
| `io` | order, the token of CTS, nobody waits for ever | 2 writers, Puts of 3 characters in blocks of 2, receive queue of 2, 3 characters sent, 3 received; both lines |
| `sensor` | refinement of `SensorFeed` | 2 tasks, 2 bytes of 1 sensor, queues of 2, 4 reports |
| `trains` | reversals, speeds, predictions | 1 train, a loop with a dead end behind a coupled pair of switches in series, 4 sensors, 2 `ReverseTask`s, speeds 0 and 1 |
| `routing` | helpers, sends, `AwaitTid`, game over, food | 2 trains, 3 helpers, 4 sensors of which 3 have food; either server |
| `zone` | any requests of any clients; every wait ends | 3 clients, 3 trains, 2 zones |
| `path` | the interlock, one zone at rest, shortest free ways | 2 trains, a ring of 4 zones with a siding, 12 nodes, 2 destinations |
| `path_collision` | finding 8.1 | the same |

Why these are enough. Four tids hold the idle task, a receiver and two senders, so that a
queue has an order, and any of the three may answer for another; two levels give a task
above and one beside. `MaxTid` bounds the number of Creates, as `TASK_SIZE` does in the code,
where tids are never reused; with `MaxLive = MaxTid` a Create is refused for want of a tid
only, and `Memory` has the other refusals. In `Memory` every resource runs out first in
some behaviour, and pages lie on both sides of `Shift`. In `ClockServer`, `MaxTicks` exceeds
two delays of the largest argument. In `IOServer` a Puts takes two blocks, the last one
short, another writer comes between them, and the receive queue overflows. In `SensorServer`
a queue overflows, one dump reports two sensors, and a task with an empty queue waits beside
one with a full queue. In `TrainSystem` the second `ReverseTask` is the last the tids allow,
so a reversal is also refused; the pair lies in series, so a walk can read one switch before a
change and the other after. In `Routing` the third helper is the one created after another has gone, so that a
game is played over with a train that had a helper before; 3 food sensors with two at one place
let one arrival eat two; `MaxScore` is where the last ghost joins. In `ZoneServer` three waiters can queue on one zone, barred by one
train or by different ones. In `PathFinder` the ring lets two trains meet head on and follow
each other, the siding forces turns, and a switch has the number of a sensor. With 2 deadlock
time-outs before a task gives up, each train can plan anew and then give up.

`clock`, `io`, `kernel` and `routing` do not check for deadlock: the bounds end them (the timer
goes silent, no more characters come, no more helpers can be created), the kernel stops where
it has used a null descriptor or spins because the idle task was killed, and a helper may wait
for ever in `AwaitTid`. No run uses symmetry.

## 5. Fairness

- `Kernel!FairSpec`, `WF(Next)`: the processor does not stop, and the timer interrupts a
  task that makes no call. `RoundRobin` assumes in its own statement that the processor
  keeps coming back to the task's priority.
- `ClockServer!FairSpec`: weak fairness of the timer, of the notifier's steps and of the
  server's. The two tasks have the highest priority and the scheduler is round robin
  (`Kernel!RoundRobin`). Clients need not call.
- `SensorServer!SensorSpec`: weak fairness of the server, which has priority 2; nothing is assumed of
  the track or of the tasks.
- `IOServer!Spec`: weak fairness of the server and of both notifiers, as above, and of
  `Ready`: the box or the console finishes with every character. Nothing arrives by fairness.
- `TrainSystem!Spec`: weak fairness of the server, of the notification by
  `renderSwitchTask`, and of each `ReverseTask`, which waits in Delay (`ClockServer`
  shows that it returns). Nobody need send a command and no train need pass a sensor.
- `Routing!Spec`: weak fairness of the server and of each helper. The end of a path, of
  other tasks, and calls are not fair; `GameEnds` states that paths end as its assumption.
- `ZoneServer!ZoneFairSpec`: weak fairness of the deadlock check, which
  `zoneDeadlockNotifier` asks for in an endless loop of Delay and Send. Nothing is assumed
  of the clients.

## 6. What is proved

`KernelProofs` holds for every number of tids, levels and events, every `Calls` (Kill
included), under `KernelAssumption`.

- **Scheduling**: `TypeOK`, `RunQueues` and `HighestRuns` are invariants. The first two are
  inductive together: a new task is appended to a queue that cannot hold it, as every queued
  tid is live and `nextTid` is not; the lists are otherwise only rotated (`Rotate` is a
  permutation of the list) or cut at one node (`Unlink`, which removes the only node of the
  task since it is on one list, once). `HighestRuns` is not inductive alone: that the chosen
  task is of the highest runnable priority follows from every live task being in the list
  of its own priority. `TypeOK` needs `CutAt` and `Rotate` to return sequences of tids.
- **Messaging**: `SendersQueued`, `NoLostMessage` and `BlocksHeld`. They strengthen each
  other: that a sender popped by Receive is in one queue only comes from `SendersQueued`,
  that an accepted Send finds the sender in no queue yet from its being RUNNING, which is
  `HighestRuns`, and that a queue of a waiting receiver stays empty from the case split in
  `svc_send`, which relies on `BlocksHeld` (a waiting receiver has its `RECEIVE_STATE`, so the
  send is not refused).
- **CleanExit**: `ExitLeavesNothing`. A task that exits is RUNNING (`HighestRuns`), so it
  holds no block (`BlocksHeld`) and is in no queue (`SendersQueued`); its own Exit changes
  neither, and no other call ends the task that makes it (`CallerStays`).

- **Contract**: `SrrContract`, the refinement. Under the mapping a step of the kernel moves at
  most the caller and one partner from one phase to another, and what the scheduler does is
  a stutter: `DispatchPhase` (RUNNING, READY and EVENT_WAIT are all "active"). Each action is
  then one action of `Rendezvous`: `CreateContract`, `DeleteContract`, `SendContract`,
  `ReceiveContract`, `ReplyContract`; the others are stutters (`QuietContract`). The guards of
  `Rendezvous` come from the invariants above: that a Send finds its sender in no queue, that
  a Receive on an empty queue really has none pending.

The queues of dead tasks are covered: `SendersQueued` allows a queued tid whose task is gone
("NONE"), which is what Kill leaves behind (8.2). The type invariant of `Kernel` is proved
and not listed in the run.

`ZoneProofs` holds for every set of clients, trains and zones, under `ZoneAssumption`.

- **Requests**: `ZoneInv` is an invariant. Counting a client's requests in the list is not
  inductive in a form the provers use, so the invariant proved is `Listed`: every request is
  a waiting client's, every waiting client has one, and no two requests have the same
  client. A client that has its answer cannot have a request, so `ZoneWait` appends a new
  one; whatever is answered is removed in the same step. Both need `Others`, the list
  without the places answered, to hold each other request once and in order:
  `OthersProperties`, from the rank of a place among those that stay, a bijection.
- **Reservations**: `NeverStolen`, without an invariant but the types.
- **Turns**: `InTurn`. That an older request of the zone stays barred is the definition of
  `FirstFreed`; that the answer a client gets is that of the request in question needs
  `Listed`. One deadlock check answers one place, hence by `Listed` one client.

`IOProofs` holds for any number of writers and every bound, under `IOAssumption` and
`QueueAssumption`; for the sensor server see below.

- **Token**: `SendToken`. Of the four places the right to send can be in (`clearToSend`, the
  busy box, a woken notifier, a send event queued on the server) it is in one at most:
  `OneToken`. That needs `OneEvent`: the notifier sends one event at a time, so the inbox
  holds at most one, while the notifier waits for the answer. `EventsOfAppend` and
  `EventsOfTail` say where the events are when a message is queued or received. The
  invariant claims the token only for the line to the box: the terminal has no CTS.
- **Output**: `IOInv`. The type of the inbox needs `CallersInv`: every task has one message on
  its way at most and is in Send meanwhile, so that no second one is queued. The order of the
  output is arithmetic on runs of numbers: `RunConcat` for what a Put or Puts appends,
  `RunTail` for what is sent.
- **Input**: `InputFifo`. A pop of the server is in two steps with interrupts in between.
  `InputInv` says what is left of the ring buffer after an interrupt inside a pop (its length
  is at most what has arrived and not been read, so a pop never finds it empty), and `InOrder`
  that until then it is consistent and holds the characters that arrived and were neither
  dropped nor read. It rests on what push and pop do to the contents of the ring
  (`PushContents`, `PopContents`), which rests on places modulo its size: `RingPlace`,
  `RingPlacesDiffer`, `RingNextFront`.

About `SensorServer` it shows, for every set of tasks, every number of sensors and every size of
the queues, under `SensorAssumption` and `QueueAssumption`:

- **NobodySleeps**: `SensorInv`. The invariant `FeedInv` says who can be in Send to the server
  (`Arrivals`): one task at most, whose wait is not buffered, the notifier behind it, and
  nobody while a report is handled. So a task has one buffered wait at most (`Buffered`), what
  the walk takes from a queue is taken for that wait alone, and the queues of the waits it has
  passed stay empty (`Walked`), which removing at the iterator keeps (`WithoutProperties`).
- **SensorIsFeed**: the initial states and steps of `SensorServer` are those of `SensorFeed`, or
  stutter. Pushing to a ring appends to its contents or, when it is full, does nothing
  (`PushAppends`); popping up to the first match cuts them (`PopsSkip`); a wait that is
  walked over is the one its task is in (`Buffered`). The fairness that `FeedContract` states
  beyond this is checked by TLC.

`MemoryProofs` holds for every number of tids, pages, frames and descriptors and wherever the
page table lies, under `MemoryAssumption`.

- **Ownership**: `MemoryInv`, inductive with `LiveHavePages`: a live task has a page of the
  arena, so what `pagetable_deletepage` unmarks is `Shift` pages above one, and never a page
  below `Shift` (`LowPagesKept`). A failing Create gives back what it took, except the frame.
- **FramesLost**: `FrameLostOnlyFull`, from the same invariant.
- **SlabIsPool**: `PoolContract`, the refinement of `BlockPool` by `Slab`, for every number of
  tasks and every size of the buffer and of its blocks, under `SlabAssumption` and with
  `Masked`; without it the statement is false (8.4). The inductive invariant `SlabInv` says
  that the marks are the blocks that are held or being freed, each of one task (`Marked`), and
  that a scan has found every block before its place marked (`Scanned`), so that the request
  it refuses is one that no block is left for. `Masked` keeps the marks still between the test
  and the change: another task that is in the allocator cannot be there at once (`Alone`).

`ClockProofs` holds for every set of clients and every bound on ticks and arguments, under
`ClockAssumption`.

- **Clock**: `ClockInv`. The inductive invariant has four parts. `TickUnderWay`: the notifier
  waits for its reply exactly while its message is queued or handled, so that a server in
  Receive, which is when clients run, finds it in AwaitEvent. `Owned`: a waiting client has
  its request in the list, once, or in the server's hands; `OneRequest`, a count, follows
  (`OwnedCount`). `Scanned`: what the loop has passed is not due, which needs that removing
  at the iterator leaves the places before it (`WithoutProperties`). `Elapsed`: see below.
- **Delays**: `NotEarly`. `Elapsed` relates the two clocks: the interrupts since a call are
  at least `tick_count` minus the tick of the append, and one more while there is an interrupt
  the server has yet to count. Counting it raises `tick_count` and uses up the one. It holds
  when the call is made because clients run only between ticks: a Delay never gets credit for
  a tick that was under way before it.

`PathProofs` holds for every track, every set of trains and destinations and every stopping
distance, under `TrackAssumption`, `LengthAssumption` and `PathAssumption`.

- **FindsShortestWays**: `ShortestWays`, for every source and destination and every set of zones
  to avoid. A round keeps `Searching` (`RoundKeeps`): the nodes visited are no farther than the
  others seen (`Ordered`); a node seen is reached by an edge from one visited before, which
  accounts for its distance (`Linked`); the edges of those visited have been relaxed, but for the
  end found (`Spread`); the predecessors of the nodes visited decrease in some order, so they do
  not go round in circles (`Acyclic`), edges of length 0 notwithstanding; and distances stay
  below `INF` (`Bounded`), so that a node reached is never taken for one not seen. Each round
  visits a node more, so that the search is over after as many rounds as there are nodes
  (`SearchEnds`). The walk back from the end then meets the source before it has gone
  through all nodes, by the pigeonhole principle (`BackToSource`), which makes the trace a way
  without repetition (`TracedIsGone`), no longer than the distance of its end (`WayIsNear`). The
  reference, step by step, finds nothing nearer and nothing else (`LeastReached`).
- **Interlocked**: `Interlock`. It is not inductive: what a train may drive into is its own
  because the task counts each place of the route it has reserved and gives a zone back with
  the last count. The invariant `IInv` has, for each train, four parts. `InOrder`: the places
  in the route are in order, and no sensor lies between the target and what is reserved. `Phased`:
  what they are at each stage of the task; a train that is taken to have reached the end of
  its leg stands there. `Resting`: a task that is not driving has no zones but those from the
  train on. `Kept`, only of a train that has not slipped: every zone from the first place not
  yet counted down (`Low`) is reserved, and `zone_sem` is no less than the places counted for
  each zone (`CountedFor`), so that a zone the route passes twice is not given back at the first
  pass (`ReleaseStep`, by `PlacesFirst`). Sensors name places (`ReportedAtStop`): a report taken
  for the end of the leg is of the sensor there, as sensors have numbers of their own and no
  route has one twice. A task moves, takes and gives back zones only for itself: a step of one
  train keeps what is said of the others (`OwnStep`, with the effects of the zone server's
  requests), which is where the reservations keep tasks apart. `OneZone`: from the last sensor
  reserved on, the places reserved are in one zone, so a train that waits keeps the zone it is in.
- **Orderly**: `PathInv`, from the same invariant and `FindsShortestWays`. The use of the latter for
  both: a way leads from its source along edges and passes no node twice (`FoundIsWay`).

`TrainProofs` holds for every set of trains, every track and any number of `ReverseTask`s, under
`TrainAssumption` and `TrackAssumption`.

- **OneReversal**: `TrainsInv`. Counting owners is not inductive: `Owned` says that
  `ReverseTask`s are created in the order of their tids (so that a new tid is free), that those
  at work are the ones the entries name, and that no two entries name one. `Sent`: a message
  of a `ReverseTask` finds it at the stage the message is about, and `renderSwitchTask` has
  one on its way only while it waits for the answer.
- **LastSpeed**: `SpeedKept`, inductive with `Owned`, since what restarts a train finds the
  entry of that train.
- **TurnsFollowed**: `TurnsPredicted` holds only between requests. `Turned` says what the walks
  under way will make of it: a train is taken to be expected back if its second walk starts
  at the reverse of its position. A first walk cannot come out there, which is what
  `TrackAssumption` is for (`NeverBack`): `Walks` says that it starts at the train's position
  and has come to a node a way from there can reach (`OnWay`).
- **SwitchesFollowed**: `SwitchesPredicted`. `Switched` follows a change: while none is under
  way each walk is `Right`, where the switches lead from where it started, and each train not
  still to be walked for is `Predicted`; once `renderSwitchTask` has been answered, all placed
  trains are still to be walked for and no walk has read a switch (`Fresh`). That the server
  takes no step between that answer and the next wait, its priority being the lower, is what
  makes a change during the walk come back as another request.

`RoutingProofs` holds for every number of trains and of helpers, every list of food and every
score at which a ghost joins, under `ErrandsAssumption` and `PacTrainAssumption`, for the game and for
the random routing.

- **RoutingIsSafe**: `RoutingInv`. That the server knows every helper at work needs `Asked`:
  the helpers still to be created are for entries that have none, each once, and the one that
  has reported is last in `todo` and stays in Receive until it is answered. `Endings`: the
  server waits in AwaitTid for a helper that it has told to end and still has an entry for.
- **NeverBlocks**: `ServerNeverBlocks`, from `Asked`.
- **OnePathOnly**: `OnePath`. `Paths` says that a helper is in AwaitTid as long as its path runs
  and that AwaitTid comes to its end only after the path did.
- **FoodIsCounted**: `FoodCounted`. The invariant `Food` adds that before the first helper of a
  game nothing is left to do, so that the food is put out before anybody can eat it.

Checked by TLC only: liveness (`RoundRobin`, `CallsReturn`, `NotifierAnswered`,
`EverythingSent`, `ReaderAnswered`, `ReversalsEnd`, `CallsAnswered`, `GameEnds`, `WaitEnds`), the fairness
in `FeedContract` (its steps are a theorem), and `BootInv`. `Boot` has no parameter: it
is the 25 tasks of the system, and TLC goes through every order they can start in, so that
there is no larger instance for a theorem to speak of. Liveness and ENABLED are outside the reach of the proof system.
That the search is right (`FindsShortestWays`) is a theorem all the same: induction and recursion
are stated there of sets and functions (`Upward`, `Recursion`), which the provers can instantiate.

## 7. What is not modelled

- Text: rendering and the command parser of `ui/` (characters in, characters out), logging,
  `util.c`'s conversions.
- Tables: `traindata`, `trainsys` and `traintrack` (constants and look-ups); the models take
  small tracks in their place, with the fields of `track_node.h`.
- Hardware: `boot.S`, `exception_table.S`, `enter_modes.S`, `gic.c`, `timer.c`, `rpi.c`,
  `idle-perf.c` and the system call stubs are register access. `measurements/` is a separate
  stand-alone program; calibration data and scripts are not code of the system.
- Within the modelled parts: message contents and lengths, register contents, priorities
  outside their range (refused, as `Yield`), lights of the trains, real times: delays end
  at any time.

Assumptions a model makes on its environment, which the code does not enforce:

- `SensorServer`: a dump has fewer than `MAX_TRIGGERED` new sensors. More are written behind
  the array (8.13).
- `PathFinder`: one path finder per train, who finds it standing. A game over breaks it
  (`user/pactrain-server/server.c:337`): the paths of killed helpers run on. The switches of a
  leg are set as it needs them.
- `Routing`: the prompt starts a game or a routing with different trains, when no helper is
  left of the last, and Create succeeds. `FETCH_ALL_FOOD`, which hands out a pointer to the
  server's table, and `FETCH_NEW_FOOD`, which nobody sends, are left out.
- Lists never run out of nodes (8.12).

## 8. What the models show of the code

The run `path_collision` is expected to find a violation:

1. **NoCollision** (`user/pathfinder-server/server.c:275`). When a partial path ends with a
   turn, the task gives back the zone the train stands in and keeps the one it is to
   enter; another train is then sent into the first. `README-TC2.md:62` has the zone server
   "prevent trains from crashing into each other". The same end is reached when a short leg
   before a turn gives back the zone of the turn (`:135`-`:148`), when a zone freed for a
   waiting train is taken before it asks again (`:453`-`:455`), and when a sensor of another
   train has the number of a switch of the route (`:198`). `Interlock` holds for trains none
   of this has happened to.

The others are part of a model, which keeps what the code does, and bound what its properties
say:

2. Killing a task queued on a receiver leaves its tid in the queue, and the receiver uses a
   null descriptor (`kern/kern.c:96`, `kern/svc_helpers.c:144`, whose check says a queued
   sender is in SEND_WAIT). `wild` in `Kernel`. The game over does this to helpers: `lost`
   in `Routing`.
3. `pagetable_deletepage` (`kern/addrspace.c:54`) computes another index than
   `pagetable_createpage` (`:40`): the end of a task unmarks the page of another, which a
   Create gives away, and its own stays marked, against `README-K1.md:74`. `LowPagesOwned` is
   what remains.
4. User tasks share the slab allocator with interrupts enabled (`kern/kalloc.c:56`): two can
   get one block. With `Masked = FALSE`, `PoolContract` fails.
5. `WhoIs` of the game server by the zone server may come before its registration; it asks
   again later. `NamesFound` allows this one.
6. `AwaitTid` (`lib/syscall_utils.c:15`) can miss the end it waits for and then waits for the
   end of any other task, perhaps for ever. `Missed` in `Routing`.
7. An edge of CTS between the kernel's reading and its clearing (`kern/kern.c:178`), or an
   interrupt while the notifier is sending, is lost; with it, for good, the right to
   send to the box. `lostSend` and `lostReceive` in `IOServer`.
8. An interrupt inside a pop (`lib/byte_queue.c:38`) has its increment of the length
   overwritten: the reader is one character behind from then on. `torn` in `IOServer`.
9. A receive event that finds the queue empty answers the reader with a 0 that was never
   received (`user/io-server/server.c:204`).
10. Reversing a standing train twice, or stopping it with `SYSTEM_STOP_TRAIN`, turns it
    without a word to the predictions (`README-TC2.md:58` says reversing updates them). Exempt
    as `unannounced` in `TurnsPredicted`.
11. `user/trainsys-server/server.c:463` reads `is_unknown2` before it is set. `garbled`
    lets either outcome happen.
12. An iterator of a list is taken from a slab and never returned
    (`user/sensor-server/server.c:121` and others): some thousand requests exhaust it.
13. `triggered_list` (`user/sensor-server/server.c:46`) has room for seven sensors of a dump.
14. `render_train_destination` (`user/pathfinder-server/server.c:400`) reads the edge before
    the first of a route that is empty.
