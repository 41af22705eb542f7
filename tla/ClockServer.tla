---------------------------- MODULE ClockServer ----------------------------
(***************************************************************************)
(* The clock server, its notifier and the tasks that call Time, Delay and  *)
(* DelayUntil (src/user/clock-server), on the kernel of module Kernel.     *)
(*                                                                         *)
(* Server and notifier share priority 1 and interleave freely; every other *)
(* task has a lower priority, so by Kernel!HighestRuns it runs only while  *)
(* neither of the two can.  A client therefore always finds the server in  *)
(* Receive, and only the notifier ever queues on it.  The server is past   *)
(* its start-up: registered, the notifier created, the timer set.          *)
(***************************************************************************)
EXTENDS Integers, Sequences, FiniteSets

CONSTANTS
    Client,    \* the tasks that use the clock
    MaxArg,    \* bound on the ticks a client passes
    MaxTicks   \* bound on tick_count: then the timer goes silent

\* The notifier's tid.
Notifier == "awaitTick"

ASSUME ClockAssumption == MaxArg \in Nat /\ MaxTicks \in Nat /\ Notifier \notin Client

VARIABLES
    tick_count,  \* the server's local of that name
    clk_requests,\* its list: [tid, absolute_tick_delay], and the tick of the append
    server,      \* where it stands in its loop
    from_tid,    \* whose request it handles
    it,          \* the place in clk_requests its iterator points to
    inbox,       \* the notifier's message is queued on the server
    notifier,    \* where the notifier stands in its loop
    client,      \* "run", or "wait" from a call to its reply
    request,     \* the request of each client
    since        \* timer interrupts since the client's call, up to MaxArg
vars == <<tick_count, clk_requests, server, from_tid, it, inbox, notifier, client,
          request, since>>

serverState == <<tick_count, clk_requests, server, from_tid, it, inbox>>
clients     == <<client, request, since>>

Requests == [type : {"TIME", "DELAY", "DELAY_UNTIL"}, ticks : 0 .. MaxArg]

\* The scheduler gives the processor to the clients: the server waits in Receive,
\* and the notifier waits for the interrupt or for its reply.
ClientsRun == server = "receive" /\ notifier \in {"event", "reply"}

-----------------------------------------------------------------------------
(* The timer and the notifier. *)

\* An interrupt that does not find the notifier in AwaitEvent is lost.
Interrupt ==
    /\ tick_count < MaxTicks
    /\ notifier' = IF notifier = "event" THEN "woken" ELSE notifier
    /\ since' = [c \in Client |->
                   IF client[c] = "wait" /\ since[c] < MaxArg THEN since[c] + 1 ELSE since[c]]
    /\ UNCHANGED <<serverState, client, request>>

\* waitTick: the message goes to the waiting server or is queued.
NotifierSends ==
    /\ notifier = "woken"
    /\ notifier' = "reply"
    /\ \/ /\ server = "receive"
          /\ server' = "handle" /\ from_tid' = Notifier
          /\ UNCHANGED inbox
       \/ /\ server # "receive"
          /\ inbox' = TRUE
          /\ UNCHANGED <<server, from_tid>>
    /\ UNCHANGED <<tick_count, clk_requests, it, clients>>

NotifierAwaits ==
    /\ notifier = "replied"
    /\ notifier' = "event"
    /\ UNCHANGED <<serverState, clients>>

-----------------------------------------------------------------------------
(* The clients. *)

\* Time, Delay and DelayUntil of clock-server/interface.c; they return before the
\* Send when ticks < 0.
Call(c, r) ==
    /\ ClientsRun
    /\ client[c] = "run"
    /\ client' = [client EXCEPT ![c] = "wait"]
    /\ request' = [request EXCEPT ![c] = r]
    /\ since' = [since EXCEPT ![c] = 0]
    /\ server' = "handle" /\ from_tid' = c
    /\ UNCHANGED <<tick_count, clk_requests, it, inbox, notifier>>

ReplyTo(c) == client' = [client EXCEPT ![c] = "run"] /\ UNCHANGED <<request, since>>

-----------------------------------------------------------------------------
(* The server. *)

\* Mutant of Receive: the message is read but stays queued.
ReceiveKeeps ==
    /\ server = "loop"
    /\ \/ inbox /\ server' = "handle" /\ from_tid' = Notifier
       \/ ~inbox /\ server' = "receive" /\ UNCHANGED from_tid
    /\ UNCHANGED <<tick_count, clk_requests, it, inbox, notifier, clients>>

Receive ==
    /\ server = "loop"
    /\ \/ inbox /\ inbox' = FALSE /\ server' = "handle" /\ from_tid' = Notifier
       \/ ~inbox /\ server' = "receive" /\ UNCHANGED <<inbox, from_tid>>
    /\ UNCHANGED <<tick_count, clk_requests, it, notifier, clients>>

\* CLOCK_TIME.
HandleTime ==
    /\ server = "handle" /\ from_tid # Notifier
    /\ request[from_tid].type = "TIME"
    /\ ReplyTo(from_tid)
    /\ server' = "loop"
    /\ UNCHANGED <<tick_count, clk_requests, from_tid, it, inbox, notifier>>

\* Mutant of Until: the ticks of a Delay are not counted from now.
UntilAbsolute(r) == r.ticks

\* absolute_tick_delay for request r.
Until(r) == IF r.type = "DELAY" THEN r.ticks + tick_count ELSE r.ticks

\* CLOCK_DELAY and CLOCK_DELAY_UNTIL: the request is queued, even one already due.
HandleDelay ==
    /\ server = "handle" /\ from_tid # Notifier
    /\ request[from_tid].type # "TIME"
    /\ clk_requests' = Append(clk_requests,
                              [tid |-> from_tid, until |-> Until(request[from_tid]),
                               added |-> tick_count])
    /\ server' = "loop"
    /\ UNCHANGED <<tick_count, from_tid, it, inbox, notifier, clients>>

\* Mutant of HandleTick: the notifier is not answered.
HandleTickSilently ==
    /\ server = "handle" /\ from_tid = Notifier
    /\ tick_count' = tick_count + 1
    /\ server' = "scan" /\ it' = 1
    /\ UNCHANGED <<clk_requests, from_tid, inbox, notifier, clients>>

\* CLOCK_TICK, up to the loop over the requests.
HandleTick ==
    /\ server = "handle" /\ from_tid = Notifier
    /\ tick_count' = tick_count + 1
    /\ notifier' = "replied"
    /\ server' = "scan" /\ it' = 1
    /\ UNCHANGED <<clk_requests, from_tid, inbox, clients>>

Without(s, i) == SubSeq(s, 1, i - 1) \o SubSeq(s, i + 1, Len(s))

\* Mutants of ScanDue: the iterator is advanced past the node after the removed one;
\* the request stays in the list.
ScanDueSkips ==
    /\ server = "scan" /\ it <= Len(clk_requests)
    /\ clk_requests[it].until <= tick_count
    /\ ReplyTo(clk_requests[it].tid)
    /\ clk_requests' = Without(clk_requests, it)
    /\ it' = it + 1
    /\ UNCHANGED <<tick_count, server, from_tid, inbox, notifier>>

ScanDueKeeps ==
    /\ server = "scan" /\ it <= Len(clk_requests)
    /\ clk_requests[it].until <= tick_count
    /\ ReplyTo(clk_requests[it].tid)
    /\ it' = it + 1
    /\ UNCHANGED <<tick_count, clk_requests, server, from_tid, inbox, notifier>>

\* A request that is due: llist_next has moved the iterator on before the node is
\* removed, to the node that now takes its place.
ScanDue ==
    /\ server = "scan" /\ it <= Len(clk_requests)
    /\ clk_requests[it].until <= tick_count
    /\ ReplyTo(clk_requests[it].tid)
    /\ clk_requests' = Without(clk_requests, it)
    /\ UNCHANGED <<tick_count, server, from_tid, it, inbox, notifier>>

ScanOther ==
    /\ server = "scan" /\ it <= Len(clk_requests)
    /\ clk_requests[it].until > tick_count
    /\ it' = it + 1
    /\ UNCHANGED <<tick_count, clk_requests, server, from_tid, inbox, notifier, clients>>

ScanEnd ==
    /\ server = "scan" /\ it > Len(clk_requests)
    /\ server' = "loop"
    /\ UNCHANGED <<tick_count, clk_requests, from_tid, it, inbox, notifier, clients>>

ServerStep == Receive \/ HandleTime \/ HandleDelay \/ HandleTick
              \/ ScanDue \/ ScanOther \/ ScanEnd

Init ==
    /\ tick_count = 0
    /\ clk_requests = <<>>
    /\ server = "receive" /\ from_tid = Notifier
    /\ it = 1
    /\ inbox = FALSE
    /\ notifier = "event"
    /\ client = [c \in Client |-> "run"]
    /\ request = [c \in Client |-> [type |-> "TIME", ticks |-> 0]]
    /\ since = [c \in Client |-> 0]

Next ==
    \/ Interrupt
    \/ NotifierSends \/ NotifierAwaits
    \/ ServerStep
    \/ \E c \in Client, r \in Requests : Call(c, r)

Spec == Init /\ [][Next]_vars

\* The timer does not stop, and Kernel!RoundRobin serves the two tasks of the
\* highest priority; a client need never call.
FairSpec == Spec /\ WF_vars(Interrupt) /\ WF_vars(NotifierSends) /\ WF_vars(NotifierAwaits)
                 /\ WF_vars(ServerStep)

-----------------------------------------------------------------------------
(* Properties. *)

\* Every variable has its type; at most one tick is under way at a time.
TypeOK ==
    /\ tick_count \in 0 .. MaxTicks
    /\ clk_requests \in Seq([tid : Client, until : Nat, added : Nat])
    /\ server \in {"loop", "receive", "handle", "scan"}
    /\ from_tid \in Client \cup {Notifier}
    /\ it \in Nat \ {0}
    /\ inbox \in BOOLEAN
    /\ notifier \in {"event", "woken", "reply", "replied"}
    /\ client \in [Client -> {"run", "wait"}]
    /\ request \in [Client -> Requests]
    /\ since \in [Client -> 0 .. MaxArg]

\* Whenever a client can run, the notifier is in AwaitEvent: the only interrupts
\* lost are those during the server's own work on a tick.
NotifierListens == ClientsRun => notifier = "event"

\* A Delay of n ticks lasts at least n timer interrupts, lost ones included,
\* whatever the server was doing when it was called.
NotEarly ==
    [][\A c \in Client :
          client[c] = "wait" /\ client'[c] = "run" /\ request[c].type = "DELAY"
          => since[c] >= request[c].ticks]_vars

\* Every request that a tick makes due is answered in that tick: outside the loop
\* over the list, the only due requests are those queued since the last tick.
NoneOverdue ==
    server # "scan" =>
        \A i \in 1 .. Len(clk_requests) :
            clk_requests[i].until <= tick_count => clk_requests[i].added = tick_count

\* A waiting client has one request, in the list or in the server's hands: it is
\* neither forgotten nor answered twice.
OneRequest ==
    \A c \in Client :
        LET listed == {i \in 1 .. Len(clk_requests) : clk_requests[i].tid = c}
            held   == IF server = "handle" /\ from_tid = c THEN 1 ELSE 0
        IN  Cardinality(listed) + held = IF client[c] = "wait" THEN 1 ELSE 0

\* Between any two steps of the server, the notifier and the clients: no tick is missed
\* but by the server's own work, and every request is answered once, by the tick that
\* makes it due.
ClockInv == TypeOK /\ NotifierListens /\ NoneOverdue /\ OneRequest

\* Every call returns, if the timer ticks long enough.
CallsReturn ==
    \A c \in Client :
        client[c] = "wait" ~> client[c] = "run" \/ tick_count >= MaxTicks
=============================================================================
