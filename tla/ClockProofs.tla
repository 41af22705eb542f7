---------------------------- MODULE ClockProofs ----------------------------
(***************************************************************************)
(* Theorems about ClockServer, for every set of clients and every bound on *)
(* ticks and arguments.                                                    *)
(***************************************************************************)
EXTENDS ClockServer, FiniteSetTheorems, SequenceTheorems, TLAPS

-----------------------------------------------------------------------------
(* The inductive invariant. *)

\* The server has a message of the notifier in its hands.
Ticking == server = "handle" /\ from_tid = Notifier

\* Where a tick is under way: the notifier waits for its reply exactly while its message
\* is queued or handled, and a server in Receive has none queued.
TickUnderWay ==
    /\ inbox => server # "receive" /\ notifier = "reply"
    /\ Ticking => ~inbox /\ notifier = "reply"
    /\ notifier = "reply" => inbox \/ Ticking
    /\ notifier \in {"woken", "reply"} => tick_count < MaxTicks

Places  == 1 .. Len(clk_requests)
Tid(i)  == clk_requests[i].tid
Held(c) == server = "handle" /\ from_tid = c

\* A waiting client has its request in the list, once, or in the server's hands, and
\* nobody else has any.
Owned ==
    /\ \A i \in Places : client[Tid(i)] = "wait" /\ ~Held(Tid(i))
    /\ \A i, j \in Places : Tid(i) = Tid(j) => i = j
    /\ \A c \in Client : Held(c) => client[c] = "wait"
    /\ \A c \in Client : client[c] = "wait" => Held(c) \/ \E i \in Places : Tid(i) = c

\* What the loop over the list has passed is not due.
Scanned ==
    /\ NoneOverdue
    /\ server = "scan" => \A i \in Places : i < it => clk_requests[i].until > tick_count

\* The interrupt the server has yet to count.
Uncounted == IF notifier \in {"woken", "reply"} THEN 1 ELSE 0

\* Of the interrupts since a call, at most those the server has counted since the append,
\* and the one under way, are the client's delay.
Elapsed ==
    /\ \A i \in Places :
          LET r == clk_requests[i]
          IN  /\ r.added <= tick_count
              /\ request[r.tid].type = "DELAY" => r.until = r.added + request[r.tid].ticks
              /\ since[r.tid] = MaxArg \/ since[r.tid] >= (tick_count - r.added) + Uncounted
    /\ \A c \in Client : Held(c) => since[c] = MaxArg \/ since[c] >= Uncounted

Inductive == TypeOK /\ TickUnderWay /\ Owned /\ Scanned /\ Elapsed

\* The list and the clocks in the form the steps use.
LEMMA Types ==
    ASSUME TypeOK
    PROVE  /\ Len(clk_requests) \in Nat
           /\ \A i \in Places : /\ Tid(i) \in Client
                                /\ clk_requests[i].until \in Nat
                                /\ clk_requests[i].added \in Nat
           /\ tick_count \in Nat /\ MaxArg \in Nat /\ MaxTicks \in Nat
           /\ \A c \in Client : request[c].ticks \in 0 .. MaxArg /\ since[c] \in 0 .. MaxArg
           /\ Notifier \notin Client
<1>1. clk_requests \in Seq([tid : Client, until : Nat, added : Nat])
  BY DEF TypeOK
<1>2. Len(clk_requests) \in Nat
      /\ \A i \in Places : clk_requests[i] \in [tid : Client, until : Nat, added : Nat]
  BY <1>1, LenProperties, ElementOfSeq DEF Places
<1> QED
  BY <1>2, ClockAssumption DEF TypeOK, Requests, Tid

-----------------------------------------------------------------------------
(* The steps that leave the list alone. *)

LEMMA InterruptKeepsInv == Inductive /\ Interrupt => Inductive'
<1> SUFFICES ASSUME Inductive, Interrupt
             PROVE  Inductive'
  OBVIOUS
<1>1. TypeOK /\ TickUnderWay /\ Owned /\ Scanned /\ Elapsed
  BY DEF Inductive
<1>2. /\ tick_count < MaxTicks
      /\ notifier' = IF notifier = "event" THEN "woken" ELSE notifier
      /\ since' = [c \in Client |->
                     IF client[c] = "wait" /\ since[c] < MaxArg THEN since[c] + 1 ELSE since[c]]
      /\ UNCHANGED <<tick_count, clk_requests, server, from_tid, it, inbox, client, request>>
  BY DEF Interrupt, serverState
<1>3. TypeOK'
  <2>1. since' \in [Client -> 0 .. MaxArg]
    BY <1>1, <1>2, Types
  <2> QED
    BY <1>1, <1>2, <2>1 DEF TypeOK
<1>4. TickUnderWay'
  BY <1>1, <1>2 DEF TickUnderWay, Ticking, TypeOK
<1>5. Owned'
  BY <1>1, <1>2 DEF Owned, Places, Tid, Held
<1>6. Scanned'
  BY <1>1, <1>2 DEF Scanned, NoneOverdue, Places
<1>7. Elapsed'
  <2>1. Uncounted \in {0, 1} /\ Uncounted' \in {0, 1} /\ Uncounted' <= Uncounted + 1
    BY DEF Uncounted
  <2>2. \A c \in Client : client[c] = "wait" =>
            since'[c] = MaxArg \/ since'[c] = since[c] + 1
    BY <1>1, <1>2, Types
  <2>3. ASSUME NEW i \in Places
        PROVE  LET r == clk_requests[i]
               IN  since'[r.tid] = MaxArg
                   \/ since'[r.tid] >= (tick_count - r.added) + Uncounted'
    <3> DEFINE r == clk_requests[i]
    <3>1. /\ r.tid \in Client /\ client[r.tid] = "wait" /\ r.added \in Nat /\ tick_count \in Nat
          /\ since[r.tid] \in 0 .. MaxArg /\ MaxArg \in Nat
      BY <1>1, Types DEF Owned, Tid
    <3>2. since[r.tid] = MaxArg \/ since[r.tid] >= (tick_count - r.added) + Uncounted
      BY <1>1 DEF Elapsed
    <3>3. since[r.tid] = MaxArg => since'[r.tid] = MaxArg
      BY <1>2, <3>1
    <3> HIDE DEF r
    <3>4. since'[r.tid] = MaxArg \/ since'[r.tid] >= (tick_count - r.added) + Uncounted'
      BY <2>1, <2>2, <3>1, <3>2, <3>3
    <3> QED
      BY <3>4 DEF r
  <2>4. ASSUME NEW c \in Client, Held(c)
        PROVE  since'[c] = MaxArg \/ since'[c] >= Uncounted'
    <3>1. client[c] = "wait" /\ since[c] \in 0 .. MaxArg /\ MaxArg \in Nat
      BY <1>1, <2>4, Types DEF Owned
    <3> QED
      BY <2>1, <2>2, <3>1
  <2>5. Places' = Places /\ \A c : Held(c)' <=> Held(c)
    BY <1>2 DEF Places, Held
  <2> QED
    BY <1>1, <1>2, <2>3, <2>4, <2>5 DEF Elapsed
<1> QED
  BY <1>3, <1>4, <1>5, <1>6, <1>7 DEF Inductive

\* A step that changes neither the list, the clients nor the clocks, and takes no
\* client's request out of the server's hands.
LEMMA PassingStep ==
    ASSUME Inductive,
           UNCHANGED <<tick_count, clk_requests, client, request, since>>,
           \A c \in Client : Held(c)' <=> Held(c),
           Uncounted' = Uncounted,
           server' = "scan" <=> server = "scan",
           server = "scan" => it' = it
    PROVE  Owned' /\ Scanned' /\ Elapsed'
<1>1. TypeOK /\ Owned /\ Scanned /\ Elapsed
  BY DEF Inductive
<1>2. Places' = Places /\ \A i \in Places : Tid(i)' = Tid(i) /\ Tid(i) \in Client
  BY <1>1, Types DEF Places, Tid
<1>3. Owned'
  BY <1>1, <1>2 DEF Owned
<1>4. Scanned'
  BY <1>1, <1>2 DEF Scanned, NoneOverdue, Places
<1>5. Elapsed'
  BY <1>1, <1>2 DEF Elapsed
<1> QED
  BY <1>3, <1>4, <1>5

LEMMA NotifierKeepsInv == Inductive /\ (NotifierSends \/ NotifierAwaits) => Inductive'
<1> SUFFICES ASSUME Inductive, NotifierSends \/ NotifierAwaits
             PROVE  Inductive'
  OBVIOUS
<1>1. TypeOK /\ TickUnderWay /\ Notifier \notin Client
  BY Types DEF Inductive
<1>2. UNCHANGED <<tick_count, clk_requests, client, request, since, it>>
  BY DEF NotifierSends, NotifierAwaits, serverState, clients
<1>3. TypeOK'
  BY <1>1, <1>2 DEF NotifierSends, NotifierAwaits, TypeOK, serverState
<1>4. TickUnderWay'
  BY <1>1, <1>2 DEF NotifierSends, NotifierAwaits, TickUnderWay, Ticking, TypeOK, serverState
<1>5. Uncounted' = Uncounted
  BY DEF NotifierSends, NotifierAwaits, Uncounted
<1>6. \A c \in Client : Held(c)' <=> Held(c)
  BY <1>1 DEF NotifierSends, NotifierAwaits, Held, serverState
<1>7. server' = "scan" <=> server = "scan"
  BY DEF NotifierSends, NotifierAwaits, serverState
<1> QED
  BY <1>2, <1>3, <1>4, <1>5, <1>6, <1>7, PassingStep DEF Inductive

LEMMA ReceiveKeepsInv == Inductive /\ Receive => Inductive'
<1> SUFFICES ASSUME Inductive, Receive
             PROVE  Inductive'
  OBVIOUS
<1>1. TypeOK /\ TickUnderWay /\ Notifier \notin Client
  BY Types DEF Inductive
<1>2. UNCHANGED <<tick_count, clk_requests, client, request, since, it, notifier>>
  BY DEF Receive, clients
<1>3. TypeOK'
  BY <1>1, <1>2 DEF Receive, TypeOK
<1>4. TickUnderWay'
  BY <1>1, <1>2 DEF Receive, TickUnderWay, Ticking, TypeOK
<1>5. Uncounted' = Uncounted
  BY <1>2 DEF Uncounted
<1>6. \A c \in Client : Held(c)' <=> Held(c)
  BY <1>1 DEF Receive, Held
<1>7. server' = "scan" <=> server = "scan"
  BY DEF Receive
<1> QED
  BY <1>2, <1>3, <1>4, <1>5, <1>6, <1>7, PassingStep DEF Inductive

\* A call finds the server in Receive, with no tick under way.
LEMMA CallKeepsInv ==
    ASSUME Inductive, NEW c \in Client, NEW r \in Requests, Call(c, r)
    PROVE  Inductive'
<1>1. TypeOK /\ TickUnderWay /\ Owned /\ Scanned /\ Elapsed
  BY DEF Inductive
<1>2. /\ server = "receive" /\ notifier \in {"event", "reply"} /\ client[c] = "run"
      /\ client' = [client EXCEPT ![c] = "wait"]
      /\ request' = [request EXCEPT ![c] = r]
      /\ since' = [since EXCEPT ![c] = 0]
      /\ server' = "handle" /\ from_tid' = c
      /\ UNCHANGED <<tick_count, clk_requests, it, inbox, notifier>>
  BY DEF Call, ClientsRun
<1>3. notifier = "event" /\ ~inbox
  BY <1>1, <1>2 DEF TickUnderWay, Ticking, TypeOK
<1>4. Places' = Places /\ \A i \in Places : Tid(i)' = Tid(i) /\ Tid(i) \in Client /\ Tid(i) # c
  BY <1>1, <1>2, Types DEF Places, Tid, Owned
<1>5. /\ client'[c] = "wait" /\ since'[c] = 0 /\ request'[c] = r
      /\ \A d \in Client : d # c =>
            client'[d] = client[d] /\ since'[d] = since[d] /\ request'[d] = request[d]
      /\ \A d \in Client : Held(d)' <=> d = c
      /\ \A d \in Client : ~Held(d)
  BY <1>1, <1>2 DEF TypeOK, Held
<1>6. TypeOK'
  BY <1>1, <1>2, Types DEF TypeOK
<1>7. TickUnderWay'
  BY <1>1, <1>2, <1>3, Types DEF TickUnderWay, Ticking
<1>8. Owned'
  BY <1>1, <1>4, <1>5 DEF Owned
<1>9. Scanned'
  BY <1>1, <1>2 DEF Scanned, NoneOverdue, Places
<1>10. Elapsed'
  <2>1. Uncounted = 0 /\ Uncounted' = 0
    BY <1>2, <1>3 DEF Uncounted
  <2>2. ASSUME NEW i \in Places
        PROVE  LET q == clk_requests[i]
               IN  /\ q.added <= tick_count
                   /\ request'[q.tid].type = "DELAY" => q.until = q.added + request'[q.tid].ticks
                   /\ since'[q.tid] = MaxArg
                      \/ since'[q.tid] >= (tick_count - q.added) + Uncounted
    <3>1. clk_requests[i].tid \in Client /\ clk_requests[i].tid # c
      BY <1>4 DEF Tid
    <3> QED
      BY <1>1, <1>5, <3>1 DEF Elapsed
  <2> QED
    BY <1>2, <1>4, <1>5, <2>1, <2>2 DEF Elapsed
<1> QED
  BY <1>6, <1>7, <1>8, <1>9, <1>10 DEF Inductive

LEMMA HandleTimeKeepsInv == Inductive /\ HandleTime => Inductive'
<1> SUFFICES ASSUME Inductive, HandleTime
             PROVE  Inductive'
  OBVIOUS
<1>1. TypeOK /\ TickUnderWay /\ Owned /\ Scanned /\ Elapsed
  BY DEF Inductive
<1>2. /\ server = "handle" /\ from_tid \in Client
      /\ client' = [client EXCEPT ![from_tid] = "run"]
      /\ server' = "loop"
      /\ UNCHANGED <<request, since, tick_count, clk_requests, from_tid, it, inbox, notifier>>
  BY <1>1 DEF HandleTime, ReplyTo, TypeOK
<1>3. Places' = Places /\ \A i \in Places : Tid(i)' = Tid(i) /\ Tid(i) \in Client
                                            /\ Tid(i) # from_tid
  BY <1>1, <1>2, Types DEF Places, Tid, Owned, Held
<1>4. /\ client'[from_tid] = "run" /\ Held(from_tid)
      /\ \A d \in Client : d # from_tid => client'[d] = client[d] /\ ~Held(d)
      /\ \A d \in Client : ~Held(d)'
  BY <1>1, <1>2 DEF TypeOK, Held
<1>5. TypeOK'
  BY <1>1, <1>2 DEF TypeOK
<1>6. TickUnderWay'
  BY <1>1, <1>2, Types DEF TickUnderWay, Ticking, TypeOK
<1>7. Owned'
  BY <1>1, <1>3, <1>4 DEF Owned
<1>8. Scanned'
  BY <1>1, <1>2 DEF Scanned, NoneOverdue, Places
<1>9. Elapsed'
  BY <1>1, <1>2, <1>3, <1>4 DEF Elapsed, Uncounted
<1> QED
  BY <1>5, <1>6, <1>7, <1>8, <1>9 DEF Inductive

\* A tick counted is no longer under way.
LEMMA HandleTickKeepsInv == Inductive /\ HandleTick => Inductive'
<1> SUFFICES ASSUME Inductive, HandleTick
             PROVE  Inductive'
  OBVIOUS
<1>1. TypeOK /\ TickUnderWay /\ Owned /\ Scanned /\ Elapsed
  BY DEF Inductive
<1>2. /\ Ticking /\ tick_count' = tick_count + 1 /\ notifier' = "replied"
      /\ server' = "scan" /\ it' = 1
      /\ UNCHANGED <<clk_requests, from_tid, inbox, client, request, since>>
  BY DEF HandleTick, Ticking, clients
<1>3. notifier = "reply" /\ ~inbox /\ tick_count < MaxTicks
  BY <1>1, <1>2 DEF TickUnderWay
<1>4. Places' = Places /\ \A i \in Places : Tid(i)' = Tid(i) /\ Tid(i) \in Client
  BY <1>1, <1>2, Types DEF Places, Tid
<1>5. \A c \in Client : ~Held(c) /\ ~Held(c)'
  BY <1>1, <1>2, Types DEF Held, Ticking
<1>6. TypeOK'
  <2>1. tick_count' \in 0 .. MaxTicks
    BY <1>1, <1>2, <1>3, Types DEF TypeOK
  <2> QED
    BY <1>1, <1>2, <2>1 DEF TypeOK
<1>7. TickUnderWay'
  BY <1>2, <1>3 DEF TickUnderWay, Ticking
<1>8. Owned'
  BY <1>1, <1>2, <1>4, <1>5 DEF Owned
<1>9. Scanned'
  BY <1>1, <1>2 DEF Scanned, NoneOverdue, Places
<1>10. Elapsed'
  <2>1. Uncounted = 1 /\ Uncounted' = 0
    BY <1>2, <1>3 DEF Uncounted
  <2>2. ASSUME NEW i \in Places
        PROVE  LET q == clk_requests[i]
               IN  /\ q.added <= tick_count'
                   /\ request[q.tid].type = "DELAY" => q.until = q.added + request[q.tid].ticks
                   /\ since[q.tid] = MaxArg \/ since[q.tid] >= (tick_count' - q.added) + 0
    <3>1. clk_requests[i].added \in Nat /\ tick_count \in Nat
      BY <1>1, Types
    <3> QED
      BY <1>1, <1>2, <2>1, <3>1 DEF Elapsed
  <2> QED
    BY <1>2, <1>4, <1>5, <2>1, <2>2 DEF Elapsed
<1> QED
  BY <1>6, <1>7, <1>8, <1>9, <1>10 DEF Inductive

LEMMA ScanOnKeepsInv == Inductive /\ (ScanOther \/ ScanEnd) => Inductive'
<1> SUFFICES ASSUME Inductive, ScanOther \/ ScanEnd
             PROVE  Inductive'
  OBVIOUS
<1>1. TypeOK /\ TickUnderWay /\ Owned /\ Scanned /\ Elapsed
  BY DEF Inductive
<1>2. /\ server = "scan" /\ server' \in {"scan", "loop"}
      /\ UNCHANGED <<tick_count, clk_requests, from_tid, inbox, notifier, client, request, since>>
  BY DEF ScanOther, ScanEnd, clients
<1>3. Places' = Places /\ \A i \in Places : Tid(i)' = Tid(i) /\ Tid(i) \in Client
  BY <1>1, <1>2, Types DEF Places, Tid
<1>4. TypeOK'
  BY <1>1, <1>2 DEF ScanOther, ScanEnd, TypeOK
<1>5. TickUnderWay'
  BY <1>1, <1>2 DEF TickUnderWay, Ticking
<1>6. \A c \in Client : ~Held(c) /\ ~Held(c)'
  BY <1>2 DEF Held
<1>7. Owned'
  BY <1>1, <1>2, <1>3, <1>6 DEF Owned
<1>8. Scanned'
  <2>1. \A i \in Places : /\ i \in Nat /\ clk_requests[i].until \in Nat /\ i <= Len(clk_requests)
                          /\ i < it => clk_requests[i].until > tick_count
    BY <1>1, <1>2, Types DEF Scanned, Places
  <2>2. it \in Nat /\ Len(clk_requests) \in Nat /\ tick_count \in Nat
    BY <1>1, Types DEF TypeOK
  <2>3. CASE ScanOther
    <3>1. it' = it + 1 /\ it \in Places /\ clk_requests[it].until > tick_count /\ server' = "scan"
      BY <1>1, <1>2, <2>2, <2>3 DEF ScanOther, Places, TypeOK
    <3> QED
      BY <1>2, <1>3, <2>1, <2>2, <3>1 DEF Scanned, NoneOverdue, Places
  <2>4. CASE ScanEnd
    <3>1. it > Len(clk_requests) /\ server' = "loop"
      BY <2>4 DEF ScanEnd
    <3>2. \A i \in Places : clk_requests[i].until > tick_count
      BY <2>1, <2>2, <3>1
    <3> QED
      BY <1>2, <1>3, <2>1, <2>2, <3>1, <3>2 DEF Scanned, NoneOverdue, Places
  <2> QED
    BY <2>3, <2>4
<1>9. Elapsed'
  BY <1>1, <1>2, <1>3, <1>6 DEF Elapsed, Uncounted
<1> QED
  BY <1>4, <1>5, <1>7, <1>8, <1>9 DEF Inductive

-----------------------------------------------------------------------------
(* The steps that change the list. *)

LEMMA HandleDelayKeepsInv == Inductive /\ HandleDelay => Inductive'
<1> SUFFICES ASSUME Inductive, HandleDelay
             PROVE  Inductive'
  OBVIOUS
<1> DEFINE r == [tid |-> from_tid, until |-> Until(request[from_tid]), added |-> tick_count]
<1>1. TypeOK /\ TickUnderWay /\ Owned /\ Scanned /\ Elapsed
  BY DEF Inductive
<1>0. PICK n \in Nat : n = Len(clk_requests)
  BY <1>1, Types
<1>2. /\ server = "handle" /\ from_tid \in Client
      /\ clk_requests' = Append(clk_requests, r)
      /\ server' = "loop"
      /\ UNCHANGED <<tick_count, from_tid, it, inbox, notifier, client, request, since>>
  BY <1>1 DEF HandleDelay, TypeOK, clients
<1>3. /\ r \in [tid : Client, until : Nat, added : Nat]
      /\ r.tid = from_tid /\ r.added = tick_count
      /\ request[from_tid].type = "DELAY" => r.until = r.added + request[from_tid].ticks
  <2>1. request[from_tid].ticks \in Nat /\ tick_count \in Nat
    BY <1>1, <1>2, Types
  <2> QED
    BY <1>2, <2>1 DEF Until
<1> HIDE DEF r
<1>4. /\ clk_requests' \in Seq([tid : Client, until : Nat, added : Nat])
      /\ Len(clk_requests') = n + 1
      /\ clk_requests'[n + 1] = r
      /\ \A i \in 1 .. n : clk_requests'[i] = clk_requests[i]
  <2>1. clk_requests \in Seq([tid : Client, until : Nat, added : Nat])
    BY <1>1 DEF TypeOK
  <2> QED
    BY <1>2, <1>0, <1>3, <2>1, AppendProperties, LenProperties
<1>5. /\ Places = 1 .. n /\ \A i : i \in Places' <=> i \in Places \/ i = n + 1
      /\ Tid(n + 1)' = from_tid /\ n + 1 \in Places'
      /\ \A i \in Places : Tid(i)' = Tid(i) /\ Tid(i) \in Client /\ Tid(i) # from_tid
  <2>1. Places = 1 .. n /\ Places' = 1 .. n + 1
    BY <1>0, <1>4 DEF Places
  <2>2. \A i \in Places : Tid(i)' = Tid(i) /\ Tid(i) \in Client /\ Tid(i) # from_tid
    BY <1>1, <1>2, <1>4, <2>1, Types DEF Tid, Owned, Held
  <2> QED
    BY <1>3, <1>4, <2>1, <2>2 DEF Tid
<1>6. /\ Held(from_tid) /\ \A d \in Client : ~Held(d)' /\ (Held(d) => d = from_tid)
  BY <1>2 DEF Held
<1>7. TypeOK'
  BY <1>1, <1>2, <1>4 DEF TypeOK
<1>8. TickUnderWay'
  BY <1>1, <1>2, Types DEF TickUnderWay, Ticking
<1>9. Owned'
  <2>1. \A i \in Places' : client'[Tid(i)'] = "wait" /\ ~Held(Tid(i))'
    BY <1>1, <1>2, <1>5, <1>6 DEF Owned
  <2>2. \A i, j \in Places' : Tid(i)' = Tid(j)' => i = j
    BY <1>1, <1>5 DEF Owned
  <2>3. \A c \in Client : client'[c] = "wait" => \E i \in Places' : Tid(i)' = c
    <3> TAKE c \in Client
    <3>1. CASE c = from_tid
      BY <1>5, <3>1
    <3>2. CASE c # from_tid
      BY <1>1, <1>2, <1>5, <1>6, <3>2 DEF Owned
    <3> QED
      BY <3>1, <3>2
  <2> QED
    BY <1>6, <2>1, <2>2, <2>3 DEF Owned
<1>10. Scanned'
  <2>1. \A i \in Places : clk_requests[i].until <= tick_count => clk_requests[i].added = tick_count
    BY <1>1, <1>2 DEF Scanned, NoneOverdue, Places
  <2>2. \A i \in Places' : clk_requests'[i].until <= tick_count => clk_requests'[i].added = tick_count
    BY <1>3, <1>4, <1>5, <2>1
  <2> QED
    BY <1>2, <2>2 DEF Scanned, NoneOverdue, Places
<1>11. Elapsed'
  <2>1. Uncounted' = Uncounted /\ Uncounted \in {0, 1} /\ tick_count \in Nat
    BY <1>1, <1>2, Types DEF Uncounted
  <2>2. \A i \in Places : clk_requests'[i] = clk_requests[i]
    BY <1>4, <1>5
  <2>3. since[from_tid] = MaxArg \/ since[from_tid] >= (tick_count - tick_count) + Uncounted
    BY <1>1, <1>2, <1>6, <2>1 DEF Elapsed
  <2>4. ASSUME NEW i \in Places'
        PROVE  LET q == clk_requests'[i]
               IN  /\ q.added <= tick_count
                   /\ request[q.tid].type = "DELAY" => q.until = q.added + request[q.tid].ticks
                   /\ since[q.tid] = MaxArg \/ since[q.tid] >= (tick_count - q.added) + Uncounted
    <3>1. CASE i \in Places
      BY <1>1, <2>2, <3>1 DEF Elapsed
    <3>2. CASE clk_requests'[i] = r
      BY <1>3, <2>1, <2>3, <3>2
    <3> QED
      BY <1>4, <1>5, <3>1, <3>2
  <2> QED
    BY <1>2, <1>6, <2>1, <2>4 DEF Elapsed
<1> QED
  BY <1>7, <1>8, <1>9, <1>10, <1>11 DEF Inductive

\* Unlinking a request leaves the others, in their order.
LEMMA WithoutProperties ==
    ASSUME NEW S, NEW q \in Seq(S), NEW at \in 1 .. Len(q)
    PROVE  /\ Without(q, at) \in Seq(S)
           /\ Len(Without(q, at)) = Len(q) - 1
           /\ \A i \in 1 .. Len(q) - 1 :
                 Without(q, at)[i] = IF i < at THEN q[i] ELSE q[i + 1]
<1> DEFINE a == SubSeq(q, 1, at - 1)
           b == SubSeq(q, at + 1, Len(q))
<1>1. /\ a \in Seq(S) /\ Len(a) = at - 1 /\ \A i \in 1 .. at - 1 : a[i] = q[i]
      /\ b \in Seq(S) /\ Len(b) = Len(q) - at /\ \A i \in 1 .. Len(q) - at : b[i] = q[i + at]
  BY LenProperties, ElementOfSeq
<1>2. Without(q, at) = a \o b
  BY DEF Without
<1> HIDE DEF a, b
<1>3. Len(q) \in Nat /\ Len(a) + Len(b) = Len(q) - 1
  BY <1>1, LenProperties
<1>4. /\ a \o b \in Seq(S) /\ Len(a \o b) = Len(a) + Len(b)
      /\ \A i \in 1 .. Len(a) + Len(b) :
            (a \o b)[i] = IF i <= Len(a) THEN a[i] ELSE b[i - Len(a)]
  BY <1>1, ConcatProperties
<1>5. ASSUME NEW i \in 1 .. Len(q) - 1
      PROVE  (a \o b)[i] = IF i < at THEN q[i] ELSE q[i + 1]
  <2>1. (a \o b)[i] = IF i < at THEN a[i] ELSE b[i - (at - 1)]
    BY <1>1, <1>3, <1>4
  <2>2. i < at => i \in 1 .. at - 1 /\ a[i] = q[i]
    BY <1>1
  <2>3. ~(i < at) => i - (at - 1) \in 1 .. Len(q) - at /\ (i - (at - 1)) + at = i + 1
    BY <1>3
  <2> QED
    BY <1>1, <2>1, <2>2, <2>3
<1> QED
  BY <1>2, <1>3, <1>4, <1>5

\* The request answered is the only one of its client; the places behind it move up.
LEMMA ScanDueKeepsInv == Inductive /\ ScanDue => Inductive'
<1> SUFFICES ASSUME Inductive, ScanDue
             PROVE  Inductive'
  OBVIOUS
<1> DEFINE n == Len(clk_requests)
           was(i) == IF i < it THEN i ELSE i + 1
           c == Tid(it)
<1>1. TypeOK /\ TickUnderWay /\ Owned /\ Scanned /\ Elapsed
  BY DEF Inductive
<1>2. /\ server = "scan" /\ it \in Places
      /\ clk_requests' = Without(clk_requests, it)
      /\ client' = [client EXCEPT ![c] = "run"]
      /\ UNCHANGED <<tick_count, server, from_tid, it, inbox, notifier, request, since>>
  BY <1>1, Types DEF ScanDue, ReplyTo, Places, Tid, TypeOK
<1>3. /\ clk_requests' \in Seq([tid : Client, until : Nat, added : Nat])
      /\ Len(clk_requests') = n - 1
      /\ \A i \in 1 .. n - 1 : clk_requests'[i] = clk_requests[was(i)]
  <2>1. clk_requests \in Seq([tid : Client, until : Nat, added : Nat]) /\ it \in 1 .. Len(clk_requests)
    BY <1>1, <1>2 DEF TypeOK, Places
  <2> QED
    BY <1>2, <2>1, WithoutProperties
<1>4. /\ \A i \in Places' : was(i) \in Places /\ was(i) # it /\ clk_requests'[i] = clk_requests[was(i)]
      /\ \A i, j \in Places' : was(i) = was(j) => i = j
      /\ \A j \in Places : j # it => \E i \in Places' : was(i) = j
  <2>1. n \in Nat /\ it \in 1 .. n /\ Places = 1 .. n /\ Places' = 1 .. n - 1
    BY <1>1, <1>2, <1>3, Types DEF Places
  <2>2. \A i \in 1 .. n - 1 : was(i) \in 1 .. n /\ was(i) # it
    BY <2>1
  <2>3. \A i, j \in 1 .. n - 1 : was(i) = was(j) => i = j
    BY <2>1
  <2>4. ASSUME NEW j \in 1 .. n, j # it
        PROVE  \E i \in 1 .. n - 1 : was(i) = j
    <3>1. CASE j < it
      <4>1. j \in 1 .. n - 1 /\ was(j) = j
        BY <2>1, <3>1
      <4> QED
        BY <4>1
    <3>2. CASE j > it
      <4>1. j - 1 \in 1 .. n - 1 /\ was(j - 1) = j
        BY <2>1, <3>2
      <4> QED
        BY <4>1
    <3> QED
      BY <2>1, <2>4, <3>1, <3>2
  <2> QED
    BY <1>3, <2>1, <2>2, <2>3, <2>4
<1>5. \A i \in Places' : i < it => was(i) = i
  OBVIOUS
<1> HIDE DEF n, was
<1>6. /\ \A i \in Places' : Tid(i)' = Tid(was(i)) /\ Tid(was(i)) # c /\ Tid(was(i)) \in Client
      /\ c \in Client
  BY <1>1, <1>2, <1>4, Types DEF Tid, Owned
<1>7. /\ client'[c] = "run" /\ \A d \in Client : d # c => client'[d] = client[d]
      /\ \A d \in Client : ~Held(d) /\ ~Held(d)'
  BY <1>1, <1>2, <1>6 DEF TypeOK, Held
<1>8. TypeOK'
  BY <1>1, <1>2, <1>3, <1>6 DEF TypeOK
<1>9. TickUnderWay'
  BY <1>1, <1>2 DEF TickUnderWay, Ticking
<1>10. Owned'
  <2>1. \A i \in Places' : client'[Tid(i)'] = "wait" /\ ~Held(Tid(i))'
    BY <1>1, <1>4, <1>6, <1>7 DEF Owned
  <2>2. \A i, j \in Places' : Tid(i)' = Tid(j)' => i = j
    BY <1>1, <1>4, <1>6 DEF Owned
  <2>3. \A d \in Client : client'[d] = "wait" => \E i \in Places' : Tid(i)' = d
    <3> SUFFICES ASSUME NEW d \in Client, client'[d] = "wait"
                 PROVE  \E i \in Places' : Tid(i)' = d
      OBVIOUS
    <3>1. PICK j \in Places : Tid(j) = d
      BY <1>1, <1>7 DEF Owned
    <3>2. j # it
      BY <1>7, <3>1
    <3> QED
      BY <1>4, <1>6, <3>1, <3>2
  <2> QED
    BY <1>7, <2>1, <2>2, <2>3 DEF Owned
<1>11. Scanned'
  <2>1. \A i \in Places' : i < it => clk_requests'[i].until > tick_count
    BY <1>1, <1>2, <1>4, <1>5 DEF Scanned
  <2> QED
    BY <1>2, <2>1 DEF Scanned, NoneOverdue
<1>12. Elapsed'
  BY <1>1, <1>2, <1>4, <1>7 DEF Elapsed, Uncounted
<1> QED
  BY <1>8, <1>9, <1>10, <1>11, <1>12 DEF Inductive

-----------------------------------------------------------------------------
(* The theorems. *)

LEMMA InductiveInit == Init => Inductive
<1> SUFFICES ASSUME Init
             PROVE  Inductive
  OBVIOUS
<1>1. /\ clk_requests = <<>> /\ server = "receive" /\ from_tid = Notifier /\ ~inbox
      /\ tick_count = 0 /\ notifier = "event" /\ \A c \in Client : client[c] = "run"
  BY DEF Init
<1>2. Places = {} /\ \A c \in Client : ~Held(c)
  BY <1>1 DEF Places, Held
<1>3. TypeOK
  <2>1. 0 \in 0 .. MaxArg /\ 0 \in 0 .. MaxTicks
    BY ClockAssumption
  <2>2. clk_requests \in Seq([tid : Client, until : Nat, added : Nat])
    BY <1>1
  <2>3. [type |-> "TIME", ticks |-> 0] \in Requests
    BY <2>1 DEF Requests
  <2>4. request \in [Client -> Requests] /\ client \in [Client -> {"run", "wait"}]
    BY <2>3 DEF Init
  <2>5. since \in [Client -> 0 .. MaxArg]
    BY <2>1 DEF Init
  <2>6. it = 1 /\ inbox \in BOOLEAN
    BY DEF Init
  <2> QED
    BY <1>1, <2>1, <2>2, <2>4, <2>5, <2>6 DEF TypeOK
<1>4. TickUnderWay
  BY <1>1 DEF TickUnderWay, Ticking
<1>5. Owned /\ Scanned /\ Elapsed
  BY <1>1, <1>2 DEF Owned, Scanned, NoneOverdue, Elapsed, Places
<1> QED
  BY <1>3, <1>4, <1>5 DEF Inductive

LEMMA InductiveStep == Inductive /\ [Next]_vars => Inductive'
<1>1. Inductive /\ UNCHANGED vars => Inductive'
  BY DEF vars, Inductive, TypeOK, TickUnderWay, Ticking, Owned, Scanned, NoneOverdue, Elapsed,
         Uncounted, Places, Tid, Held
<1> QED
  BY <1>1, InterruptKeepsInv, NotifierKeepsInv, CallKeepsInv, ReceiveKeepsInv,
     HandleTimeKeepsInv, HandleDelayKeepsInv, HandleTickKeepsInv, ScanDueKeepsInv,
     ScanOnKeepsInv
     DEF Next, ServerStep

LEMMA InductiveInvariant == Spec => []Inductive
<1> QED
  BY InductiveInit, InductiveStep, PTL DEF Spec

\* Counted in the list and in the server's hands, a client has the requests Owned says.
LEMMA OwnedCount == Inductive => OneRequest
<1> SUFFICES ASSUME Inductive, NEW c \in Client
             PROVE  LET listed == {i \in 1 .. Len(clk_requests) : clk_requests[i].tid = c}
                        held   == IF server = "handle" /\ from_tid = c THEN 1 ELSE 0
                    IN  Cardinality(listed) + held = IF client[c] = "wait" THEN 1 ELSE 0
  BY DEF OneRequest
<1> DEFINE listed == {i \in 1 .. Len(clk_requests) : clk_requests[i].tid = c}
<1>1. TypeOK /\ Owned
  BY DEF Inductive
<1>2. \A i : i \in listed <=> i \in Places /\ Tid(i) = c
  BY DEF Places, Tid
<1> HIDE DEF listed
<1>3. CASE listed = {}
  <2>1. Cardinality(listed) = 0
    BY <1>3, FS_EmptySet
  <2>2. client[c] = "wait" <=> Held(c)
    BY <1>1, <1>2, <1>3 DEF Owned
  <2> QED
    BY <2>1, <2>2 DEF Held, listed
<1>4. CASE listed # {}
  <2>1. PICK i : i \in listed
    BY <1>4
  <2>2. listed = {i} /\ client[c] = "wait" /\ ~Held(c)
    BY <1>1, <1>2, <2>1 DEF Owned
  <2>3. Cardinality(listed) = 1
    BY <2>2, FS_Singleton
  <2> QED
    BY <2>2, <2>3 DEF Held, listed
<1> QED
  BY <1>3, <1>4

\* Whenever a client runs the notifier waits for the timer; a tick answers every request
\* that it makes due; and a waiting client has one request (user/clock-server/server.c).
THEOREM Clock == Spec => []ClockInv
<1>1. Inductive => NotifierListens
  BY DEF Inductive, TickUnderWay, Ticking, NotifierListens, ClientsRun
<1>2. Inductive => ClockInv
  BY <1>1, OwnedCount DEF Inductive, Scanned, ClockInv
<1> QED
  BY <1>2, InductiveInvariant, PTL

\* A Delay of n ticks lasts at least n timer interrupts (CLOCK_DELAY and CLOCK_TICK of
\* user/clock-server/server.c).
THEOREM Delays == Spec => NotEarly
<1> DEFINE Lasted == \A c \in Client :
                        client[c] = "wait" /\ client'[c] = "run" /\ request[c].type = "DELAY"
                        => since[c] >= request[c].ticks
<1>1. ASSUME Inductive, [Next]_vars
      PROVE  Lasted
  <2>1. TypeOK /\ Elapsed
    BY <1>1 DEF Inductive
  <2>2. ASSUME NEW c \in Client, client[c] = "wait", client'[c] = "run",
               request[c].type = "DELAY"
        PROVE  since[c] >= request[c].ticks
    <3>1. HandleTime \/ ScanDue
      <4>1. ~(HandleTime \/ ScanDue) =>
                client' = client
                \/ \E d \in Client : client' = [client EXCEPT ![d] = "wait"]
        BY <1>1 DEF Next, ServerStep, Interrupt, NotifierSends, NotifierAwaits, Receive,
                    HandleDelay, HandleTick, ScanOther, ScanEnd, Call, clients, serverState, vars
      <4> QED
        BY <2>1, <2>2, <4>1 DEF TypeOK
    <3>2. CASE HandleTime
      <4>1. from_tid \in Client /\ client' = [client EXCEPT ![from_tid] = "run"]
            /\ request[from_tid].type = "TIME"
        BY <2>1, <3>2 DEF HandleTime, ReplyTo, TypeOK
      <4> QED
        BY <2>1, <2>2, <4>1 DEF TypeOK
    <3>3. CASE ScanDue
      <4> DEFINE r == clk_requests[it]
      <4>1. /\ it \in Places /\ r.until <= tick_count
            /\ client' = [client EXCEPT ![r.tid] = "run"]
        BY <2>1, <3>3, Types DEF ScanDue, ReplyTo, Places, TypeOK
      <4>2. c = r.tid
        BY <2>1, <2>2, <4>1 DEF TypeOK
      <4>3. /\ r.until = r.added + request[c].ticks
            /\ since[c] = MaxArg \/ since[c] >= (tick_count - r.added) + Uncounted
        BY <2>1, <2>2, <4>1, <4>2 DEF Elapsed
      <4>4. /\ r.added \in Nat /\ tick_count \in Nat /\ Uncounted \in {0, 1}
            /\ request[c].ticks \in 0 .. MaxArg /\ since[c] \in Nat /\ MaxArg \in Nat
        BY <2>1, <4>1, Types DEF Uncounted
      <4> HIDE DEF r
      <4> QED
        BY <4>1, <4>3, <4>4
    <3> QED
      BY <3>1, <3>2, <3>3
  <2> QED
    BY <2>2
<1>2. Inductive /\ [Next]_vars => [Lasted]_vars
  BY <1>1
<1>3. Spec => [][Lasted]_vars
  BY <1>2, InductiveInvariant, PTL DEF Spec
<1> QED
  BY <1>3, PTL DEF NotEarly
=============================================================================
