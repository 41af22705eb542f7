------------------------------- MODULE Kernel -------------------------------
(***************************************************************************)
(* The choochoo-os micro-kernel: tasks, the 32-level round-robin scheduler,*)
(* Send/Receive/Reply message passing, AwaitEvent, interrupts, Create,     *)
(* Exit and Kill (src/kern).                                               *)
(*                                                                         *)
(* The kernel runs with interrupts masked, so a system call and an         *)
(* interrupt handler are each one atomic action, from the trap to the      *)
(* dispatch of the next task that ends every one of them.  Which call the  *)
(* running task makes is left open, within Calls; an interrupt may come    *)
(* between any two calls.  Message contents are abstracted to the sender's *)
(* tid: a task has at most one message outstanding.                        *)
(***************************************************************************)
EXTENDS Integers, Sequences, FiniteSets

CONSTANTS
    MaxTid,     \* TASK_SIZE - 1: tids are never reused, so also the number of Creates
    MaxLive,    \* task descriptors that fit in the TASK slab
    NumLevels,  \* NUM_PRIORITY_LEVELS
    BootLevel,  \* priority of the task that boots the system (initTask)
    Event,      \* the EventTypes the tasks may wait for
    Calls       \* Calls[t]: the system calls the program of task t contains

Tid    == 1 .. MaxTid
NoTask == 0
Levels == 0 .. NumLevels - 1

Syscall == {"Create", "Yield", "Exit", "Kill", "Send", "Receive", "Reply", "AwaitEvent"}

\* The tasks main.c creates before it enters user mode.
IdleTid == 1
InitTid == 2

ASSUME KernelAssumption ==
    /\ MaxTid \in Nat /\ MaxTid >= 2
    /\ MaxLive \in Nat /\ MaxLive >= 2
    /\ NumLevels \in Nat /\ NumLevels >= 2
    /\ BootLevel \in 0 .. NumLevels - 2     \* above the idle task
    /\ {"CLOCK_TICK", "TASK_FINISHED"} \subseteq Event
    /\ "NONE" \notin Event
    /\ Calls \in [Tid -> SUBSET Syscall]

VARIABLES
    nextTid,       \* task_list.next_tid
    status,        \* TaskDescriptor.status; "NONE" where task_list.tasks[tid] is null
    pri,           \* TaskDescriptor.pri
    eventWait,     \* TaskDescriptor.eventWaitType
    listeners,     \* TaskDescriptor.send_listeners_queue
    sendState,     \* a SEND_STATE block is allocated for the task
    receiveState,  \* a RECEIVE_STATE block is allocated for the task
    sender,        \* what the task's last Receive stored through its tid pointer
    mlfq,          \* the scheduler's list of tids, per level
    current,       \* current_task; NoTask once svc_yield has found nothing to run
    wild           \* the kernel has read or written through a null TaskDescriptor

tables  == <<pri, nextTid>>
ipc     == <<listeners, sendState, receiveState, sender>>
vars    == <<nextTid, status, pri, eventWait, listeners, sendState, receiveState,
             sender, mlfq, current, wild>>

Waits  == {"SEND_WAIT", "RECEIVE_WAIT", "REPLY_WAIT", "EVENT_WAIT"}
Ready  == {"READY", "RUNNING"}
Status == {"NONE"} \cup Ready \cup Waits

Live == {t \in Tid : status[t] # "NONE"}

-----------------------------------------------------------------------------
(* The run queues. *)

\* Mutants of Rotate: the nodes stay in place; the last one is not linked again.
RotateNot(q, k)  == q
RotateLose(q, k) == SubSeq(q, k + 1, Len(q)) \o SubSeq(q, 1, k - 1)

\* The list after its first k nodes have been moved, in order, to its tail.
Rotate(q, k) == SubSeq(q, k + 1, Len(q)) \o SubSeq(q, 1, k)

\* The level of the first list with a node of task t, and its place there.
LevelOf(q, t) == CHOOSE l \in Levels : \E i \in 1 .. Len(q[l]) : q[l][i] = t
PlaceOf(q, t) == CHOOSE i \in 1 .. Len(q[LevelOf(q, t)]) : q[LevelOf(q, t)][i] = t

CutAt(s, i) == SubSeq(s, 1, i - 1) \o SubSeq(s, i + 1, Len(s))

\* The lists without the node of task t.
Unlink(q, t) == [q EXCEPT ![LevelOf(q, t)] = CutAt(@, PlaceOf(q, t))]

\* Mutant of FirstRunnable: the higher levels are not looked at first.
FirstInLevel(st, q, l, k) ==
    st[q[l][k]] \in Ready /\ \A j \in 1 .. k - 1 : st[q[l][j]] \notin Ready

\* Node k of level l is the first one of the lists q, in scheduling order,
\* whose task can run.
FirstRunnable(st, q, l, k) ==
    /\ st[q[l][k]] \in Ready
    /\ \A j \in 1 .. k - 1 : st[q[l][j]] \notin Ready
    /\ \A h \in 0 .. l - 1 : \A j \in 1 .. Len(q[h]) : st[q[h][j]] \notin Ready

\* scheduler_next_task, then set_current_task and the return to user mode; with
\* nothing to run the kernel spins for ever with interrupts masked.
Dispatch(st, q) ==
    \/ \E l \in Levels : \E k \in 1 .. Len(q[l]) :
          /\ FirstRunnable(st, q, l, k)
          /\ mlfq' = [q EXCEPT ![l] = Rotate(@, k)]
          /\ status' = [st EXCEPT ![q[l][k]] = "RUNNING"]
          /\ current' = q[l][k]
    \/ /\ \A l \in Levels : \A k \in 1 .. Len(q[l]) : st[q[l][k]] \notin Ready
       /\ mlfq' = q
       /\ status' = st
       /\ current' = NoTask

\* The task in user mode makes system call c.
Invokes(c) == current # NoTask /\ ~wild /\ c \in Calls[current]

\* A null TaskDescriptor has been used: nothing is known of what follows.
GoWild ==
    /\ wild' = TRUE
    /\ UNCHANGED <<tables, status, eventWait, ipc, mlfq, current>>

-----------------------------------------------------------------------------
(* Create, Yield, Exit, Kill. *)

\* create_task can allocate a descriptor.
CanCreate == nextTid <= MaxTid /\ Cardinality(Live) < MaxLive

Create(p) ==
    /\ Invokes("Create")
    /\ CanCreate
    /\ nextTid' = nextTid + 1
    /\ pri' = [pri EXCEPT ![nextTid] = p]
    /\ Dispatch([status EXCEPT ![nextTid] = "READY"],
                [mlfq EXCEPT ![p] = Append(@, nextTid)])
    /\ UNCHANGED <<eventWait, ipc, wild>>

\* The calls that change nothing but the schedule: Yield, MyTid, MyParentTid, a
\* bad priority or event number, and a Create that finds no tid, descriptor, switch
\* frame or page (the latter two are counted in module Memory).
Yield ==
    /\ Invokes("Yield") \/ Invokes("Create")
    /\ Dispatch(status, mlfq)
    /\ UNCHANGED <<tables, eventWait, ipc, wild>>

\* The tasks waiting for one of the events E: those an interrupt or exit unblocks.
Waiting(E) == {t \in Tid : status[t] = "EVENT_WAIT" /\ eventWait[t] \in E}

Unblock(E) == [t \in Tid |-> IF t \in Waiting(E) THEN "READY" ELSE status[t]]

ClearWait(E) == [t \in Tid |-> IF t \in Waiting(E) THEN "NONE" ELSE eventWait[t]]

\* scheduler_unblock_event, scheduler_delete_task and delete_task of task t, then
\* the dispatch.  The descriptor is freed: its queue is unreachable from here on
\* (get_task returns null and tids are not reused), and its SEND_STATE and
\* RECEIVE_STATE blocks, if any, stay allocated.
Delete(t) ==
    /\ eventWait' = [ClearWait({"TASK_FINISHED"}) EXCEPT ![t] = "NONE"]
    /\ Dispatch([u \in Tid |-> IF u = t THEN "NONE" ELSE Unblock({"TASK_FINISHED"})[u]],
                Unlink(mlfq, t))
    /\ UNCHANGED <<tables, ipc, wild>>

Exit ==
    /\ Invokes("Exit")
    /\ Delete(current)

Kill(t) ==
    /\ Invokes("Kill")
    /\ \/ status[t] # "NONE" /\ Delete(t)
       \/ status[t] = "NONE" /\ GoWild

-----------------------------------------------------------------------------
(* Send, Receive, Reply. *)

\* svc_send returns -1 or -2.
SendRefused(r) ==
    \/ status[r] = "NONE"
    \/ sendState[current]
    \/ status[r] = "RECEIVE_WAIT" /\ ~receiveState[r]

\* Mutants of SendFirst: a waiting receiver is not noticed; the queue is a stack.
SendAlwaysQueues(r) ==
    /\ listeners' = [listeners EXCEPT ![r] = Append(@, current)]
    /\ Dispatch([status EXCEPT ![current] = "SEND_WAIT"], mlfq)
    /\ UNCHANGED <<receiveState, sender>>

SendPushesFront(r) ==
    /\ status[r] # "RECEIVE_WAIT"
    /\ listeners' = [listeners EXCEPT ![r] = <<current>> \o @]
    /\ Dispatch([status EXCEPT ![current] = "SEND_WAIT"], mlfq)
    /\ UNCHANGED <<receiveState, sender>>

\* The receiver is not waiting: the sender queues up on it.
SendFirst(r) ==
    /\ status[r] # "RECEIVE_WAIT"
    /\ listeners' = [listeners EXCEPT ![r] = Append(@, current)]
    /\ Dispatch([status EXCEPT ![current] = "SEND_WAIT"], mlfq)
    /\ UNCHANGED <<receiveState, sender>>

\* Mutant of ReceiveFirst: the ReceiveState is not released.
ReceiveFirstKeeps(r) ==
    /\ status[r] = "RECEIVE_WAIT"
    /\ sender' = [sender EXCEPT ![r] = current]
    /\ Dispatch([status EXCEPT ![r] = "READY", ![current] = "REPLY_WAIT"], mlfq)
    /\ UNCHANGED <<listeners, receiveState>>

\* The receiver is waiting: the message goes straight into its buffer.
ReceiveFirst(r) ==
    /\ status[r] = "RECEIVE_WAIT"
    /\ receiveState' = [receiveState EXCEPT ![r] = FALSE]
    /\ sender' = [sender EXCEPT ![r] = current]
    /\ Dispatch([status EXCEPT ![r] = "READY", ![current] = "REPLY_WAIT"], mlfq)
    /\ UNCHANGED listeners

Send(r) ==
    /\ Invokes("Send")
    /\ \/ /\ SendRefused(r)
          /\ Dispatch(status, mlfq)
          /\ UNCHANGED ipc
       \/ /\ ~SendRefused(r)
          /\ sendState' = [sendState EXCEPT ![current] = TRUE]
          /\ SendFirst(r) \/ ReceiveFirst(r)
    /\ UNCHANGED <<tables, eventWait, wild>>

\* Mutant of ReceiveQueued: the sender is read from the queue but not removed.
ReceivePeeks(s) ==
    /\ sender' = [sender EXCEPT ![current] = s]
    /\ Dispatch([status EXCEPT ![s] = "REPLY_WAIT"], mlfq)
    /\ UNCHANGED <<tables, eventWait, listeners, sendState, receiveState, wild>>

\* The head of the queue is served.  Only its descriptor is looked up: a status
\* other than SEND_WAIT is logged and overwritten.
ReceiveQueued(s) ==
    /\ listeners' = [listeners EXCEPT ![current] = Tail(@)]
    /\ sender' = [sender EXCEPT ![current] = s]
    /\ Dispatch([status EXCEPT ![s] = "REPLY_WAIT"], mlfq)
    /\ UNCHANGED <<tables, eventWait, sendState, receiveState, wild>>

ReceiveEmpty ==
    /\ receiveState' = [receiveState EXCEPT ![current] = TRUE]
    /\ sender' = [sender EXCEPT ![current] = NoTask]
    /\ Dispatch([status EXCEPT ![current] = "RECEIVE_WAIT"], mlfq)
    /\ UNCHANGED <<tables, eventWait, listeners, sendState, wild>>

Receive ==
    /\ Invokes("Receive")
    /\ \/ /\ listeners[current] # <<>>
          /\ LET s == Head(listeners[current])
             IN  IF status[s] = "NONE" THEN GoWild ELSE ReceiveQueued(s)
       \/ /\ listeners[current] = <<>>
          /\ ReceiveEmpty

\* Mutant of Reply: a sender not yet received is answered too.
ReplyEarly(s) ==
    /\ Invokes("Reply")
    /\ \/ /\ status[s] \in {"SEND_WAIT", "REPLY_WAIT"}
          /\ sendState' = [sendState EXCEPT ![s] = FALSE]
          /\ Dispatch([status EXCEPT ![s] = "READY"], mlfq)
       \/ /\ status[s] \notin {"SEND_WAIT", "REPLY_WAIT"}
          /\ Dispatch(status, mlfq)
          /\ UNCHANGED sendState
    /\ UNCHANGED <<tables, eventWait, listeners, receiveState, sender, wild>>

Reply(s) ==
    /\ Invokes("Reply")
    /\ \/ /\ status[s] = "REPLY_WAIT"
          /\ sendState' = [sendState EXCEPT ![s] = FALSE]
          /\ Dispatch([status EXCEPT ![s] = "READY"], mlfq)
       \/ /\ status[s] # "REPLY_WAIT"
          /\ Dispatch(status, mlfq)
          /\ UNCHANGED sendState
    /\ UNCHANGED <<tables, eventWait, listeners, receiveState, sender, wild>>

-----------------------------------------------------------------------------
(* Events and interrupts. *)

AwaitEvent(e) ==
    /\ Invokes("AwaitEvent")
    /\ eventWait' = [eventWait EXCEPT ![current] = e]
    /\ Dispatch([status EXCEPT ![current] = "EVENT_WAIT"], mlfq)
    /\ UNCHANGED <<tables, ipc, wild>>

UartEvent == Event \ {"CLOCK_TICK", "TASK_FINISHED"}

\* The timer raises one event; one UART interrupt may raise several, or none
\* (a CTS edge to low).  An event nobody waits for is gone.
Interrupts == {{"CLOCK_TICK"}} \cup SUBSET UartEvent

Irq(E) ==
    /\ current # NoTask /\ ~wild
    /\ eventWait' = ClearWait(E)
    /\ Dispatch(Unblock(E), mlfq)
    /\ UNCHANGED <<tables, ipc, wild>>

-----------------------------------------------------------------------------

\* kmain has created the idle task and the first task, and svc_yield_first has
\* dispatched the latter.
Init ==
    /\ nextTid = InitTid + 1
    /\ status = [t \in Tid |-> CASE t = IdleTid -> "READY"
                                 [] t = InitTid -> "RUNNING"
                                 [] OTHER -> "NONE"]
    /\ pri = [t \in Tid |-> IF t = InitTid THEN BootLevel ELSE NumLevels - 1]
    /\ eventWait = [t \in Tid |-> "NONE"]
    /\ listeners = [t \in Tid |-> <<>>]
    /\ sendState = [t \in Tid |-> FALSE]
    /\ receiveState = [t \in Tid |-> FALSE]
    /\ sender = [t \in Tid |-> NoTask]
    /\ mlfq = [l \in Levels |-> CASE l = BootLevel -> <<InitTid>>
                                  [] l = NumLevels - 1 -> <<IdleTid>>
                                  [] OTHER -> <<>>]
    /\ current = InitTid
    /\ wild = FALSE

Next ==
    \/ \E p \in Levels : Create(p)
    \/ Yield
    \/ Exit
    \/ Receive
    \/ \E t \in Tid : Kill(t) \/ Send(t) \/ Reply(t)
    \/ \E e \in Event : AwaitEvent(e)
    \/ \E E \in Interrupts : Irq(E)

Spec == Init /\ [][Next]_vars

\* The processor never stops: a task runs until its next call, and the timer
\* interrupts the one that makes none.
FairSpec == Spec /\ WF_vars(Next)

-----------------------------------------------------------------------------
(* Invariants. *)

\* Every variable has its type; a descriptor is never seen FINISHED, the state
\* delete_task passes through before it frees it.
TypeOK ==
    /\ nextTid \in 3 .. MaxTid + 1
    /\ status \in [Tid -> Status]
    /\ pri \in [Tid -> Levels]
    /\ eventWait \in [Tid -> Event \cup {"NONE"}]
    /\ listeners \in [Tid -> Seq(Tid)]
    /\ sendState \in [Tid -> BOOLEAN]
    /\ receiveState \in [Tid -> BOOLEAN]
    /\ sender \in [Tid -> Tid \cup {NoTask}]
    /\ mlfq \in [Levels -> Seq(Tid)]
    /\ current \in Tid \cup {NoTask}
    /\ wild \in BOOLEAN

\* The run queues hold each live task exactly once, at its own priority, and
\* nothing else: no task is lost by a rotation and none is run after its
\* descriptor is freed (scheduler.c).
RunQueues ==
    /\ \A l \in Levels : \A i \in 1 .. Len(mlfq[l]) :
          /\ status[mlfq[l][i]] # "NONE"
          /\ pri[mlfq[l][i]] = l
          /\ \A j \in 1 .. Len(mlfq[l]) : mlfq[l][i] = mlfq[l][j] => i = j
    /\ \A t \in Tid : status[t] # "NONE" =>
          \E i \in 1 .. Len(mlfq[pri[t]]) : mlfq[pri[t]][i] = t

\* Whenever a task is in user mode, it can run and no task of a higher priority
\* (a lower level) can; the kernel spins only when no task at all can run.
HighestRuns ==
    /\ current # NoTask =>
          /\ status[current] = "RUNNING"
          /\ \A t \in Tid : status[t] \in Ready => pri[current] <= pri[t]
    /\ current = NoTask => \A t \in Tid : status[t] \notin Ready

\* A live task is in a send queue, once and in one queue only, exactly while it
\* is in SEND_WAIT.  (The receiver may have exited meanwhile: then it waits for
\* ever.)
SendersQueued ==
    /\ \A r \in Tid : \A i \in 1 .. Len(listeners[r]) :
          LET s == listeners[r][i]
          IN  /\ status[s] \in {"SEND_WAIT", "NONE"}
              /\ \A q \in Tid : \A j \in 1 .. Len(listeners[q]) :
                    listeners[q][j] = s => q = r /\ j = i
    /\ \A s \in Tid : status[s] = "SEND_WAIT" =>
          \E r \in Tid : \E i \in 1 .. Len(listeners[r]) : listeners[r][i] = s

\* A task waiting in Receive has nobody queued: a message never lies unseen.
NoLostMessage ==
    \A r \in Tid : status[r] = "RECEIVE_WAIT" => listeners[r] = <<>>

\* A live task holds a SendState from its Send to its Reply and a ReceiveState
\* while it waits in Receive: the refusals of svc_send for a task that is already
\* sending or a receiver without state are never taken, and svc_reply never
\* finds the state missing.
BlocksHeld ==
    \A t \in Tid : status[t] # "NONE" =>
        /\ sendState[t] <=> status[t] \in {"SEND_WAIT", "REPLY_WAIT"}
        /\ receiveState[t] <=> status[t] = "RECEIVE_WAIT"

\* A task that exits leaves nothing behind: no block it holds, no queue with its tid
\* (delete_task releases neither, svc_receive does not expect a tid without a
\* descriptor).  Only Kill can leave such remains.
ExitLeavesNothing ==
    [][\A t \in Tid : t = current /\ status'[t] = "NONE" =>
          /\ ~sendState'[t] /\ ~receiveState'[t]
          /\ \A r \in Tid : \A i \in 1 .. Len(listeners'[r]) : listeners'[r][i] # t]_vars

-----------------------------------------------------------------------------
(* The contract of message passing. *)

Phase(t) ==
    CASE status[t] = "NONE" -> IF t < nextTid THEN "gone" ELSE "unborn"
      [] status[t] = "SEND_WAIT" -> "sending"
      [] status[t] = "REPLY_WAIT" -> "served"
      [] status[t] = "RECEIVE_WAIT" -> "receiving"
      [] OTHER -> "active"

\* The kernel keeps the promises of Rendezvous: whatever the scheduler, the
\* interrupts and the other calls do, a message is delivered once and in order,
\* and only a Reply sets a served sender going again.
Srr == INSTANCE Rendezvous WITH
           Task <- Tid, phase <- [t \in Tid |-> Phase(t)], pending <- listeners, got <- sender
SrrContract == Srr!Spec

-----------------------------------------------------------------------------
(* Liveness. *)

\* Round robin: a task that stays runnable gets the processor again and again, as
\* long as the processor keeps coming back to tasks of its priority, however often
\* tasks of higher priorities take it away in between.
RoundRobin ==
    \A t \in Tid :
        /\ <>[](status[t] \in Ready)
        /\ []<>(~wild /\ current # NoTask /\ pri[current] = pri[t])
        => []<>(current = t)

=============================================================================
