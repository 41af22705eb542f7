------------------------------ MODULE IOProofs ------------------------------
(***************************************************************************)
(* Theorems about IOServer, for every number of writers and every bound on *)
(* lengths, queues and characters, and about SensorServer, whose queues    *)
(* are rings too, for every set of tasks and every number of sensors.      *)
(***************************************************************************)
EXTENDS IOServer, SensorServer, FiniteSetTheorems, SequenceTheorems, WellFoundedInduction, TLAPS

-----------------------------------------------------------------------------
(* The send events on their way to the server. *)

\* The places of the send events in a list of messages.
Events(q) == {i \in 1 .. Len(q) : q[i].type = "SEND_EVENT"}

\* A message that is no send event adds no place, a send event the last.
LEMMA EventsOfAppend ==
    ASSUME NEW M, NEW q \in Seq(M), NEW m \in M
    PROVE  Events(Append(q, m))
               = Events(q) \cup IF m.type = "SEND_EVENT" THEN {Len(q) + 1} ELSE {}
<1> DEFINE r == Append(q, m)
<1>1. /\ Len(q) \in Nat /\ Len(r) = Len(q) + 1
      /\ \A i \in 1 .. Len(q) : r[i] = q[i]
      /\ r[Len(q) + 1] = m
  BY AppendProperties, LenProperties
<1> HIDE DEF r
<1>2. 1 .. Len(r) = (1 .. Len(q)) \cup {Len(q) + 1}
  BY <1>1
<1>3. \A i : i \in Events(r) <=>
          i \in Events(q) \cup IF m.type = "SEND_EVENT" THEN {Len(q) + 1} ELSE {}
  BY <1>1, <1>2 DEF Events
<1> QED
  BY <1>3 DEF r

\* With the first message gone the places move up by one.
LEMMA EventsOfTail ==
    ASSUME NEW M, NEW q \in Seq(M), q # <<>>
    PROVE  /\ Events(Tail(q)) = {i \in 1 .. Len(q) - 1 : i + 1 \in Events(q)}
           /\ 1 \in Events(q) <=> Head(q).type = "SEND_EVENT"
<1>1. /\ Len(q) \in Nat \ {0} /\ Head(q) = q[1]
      /\ Len(Tail(q)) = Len(q) - 1
      /\ \A i \in 1 .. Len(Tail(q)) : Tail(q)[i] = q[i + 1]
  BY HeadTailProperties, EmptySeq
<1>2. \A i : i \in Events(Tail(q)) <=> i \in 1 .. Len(q) - 1 /\ i + 1 \in Events(q)
  BY <1>1 DEF Events
<1>3. 1 \in Events(q) <=> Head(q).type = "SEND_EVENT"
  BY <1>1 DEF Events
<1> QED
  BY <1>2, <1>3

-----------------------------------------------------------------------------
(* The invariant. *)

\* What the proof needs of the types.
OutputTypeOK ==
    /\ line \in {"MARKLIN", "CONSOLE"}
    /\ inbox \in Seq(Messages)
    /\ {clearToSend, busy, overrun, lostSend} \subseteq BOOLEAN
    /\ line = "MARKLIN" => server # "drain"

\* A send event is on its way only while its notifier is in Send, and is the only one.
OneEvent ==
    /\ Events(inbox) # {} => sendNotifier = "send"
    /\ \A i, j \in Events(inbox) : i = j

\* The token: in one place at most, and in one unless it has been lost.
OneToken ==
    /\ ~overrun
    /\ clearToSend => ~busy /\ sendNotifier # "woken" /\ Events(inbox) = {}
    /\ busy => sendNotifier # "woken" /\ Events(inbox) = {}
    /\ lostSend \/ clearToSend \/ busy \/ sendNotifier = "woken" \/ Events(inbox) # {}

TokenInv == OutputTypeOK /\ OneEvent /\ (line = "MARKLIN" => OneToken)

\* A message other than a send event changes nothing.
LEMMA MessageSent ==
    ASSUME TokenInv, NEW m \in Messages, m.type # "SEND_EVENT", inbox' = Append(inbox, m),
           UNCHANGED <<line, server, clearToSend, busy, overrun, lostSend, sendNotifier>>
    PROVE  TokenInv'
<1>1. inbox' \in Seq(Messages) /\ Events(inbox') = Events(inbox)
  <2>1. inbox \in Seq(Messages)
    BY DEF TokenInv, OutputTypeOK
  <2>2. Events(Append(inbox, m)) = Events(inbox) \cup {}
    BY <2>1, EventsOfAppend
  <2> QED
    BY <2>1, <2>2, AppendProperties
<1> QED
  BY <1>1 DEF TokenInv, OutputTypeOK, OneEvent, OneToken

\* Nor does taking one from the queue; and taking a send event leaves none.
LEMMA MessageTaken ==
    ASSUME TokenInv, inbox # <<>>
    PROVE  /\ Tail(inbox) \in Seq(Messages)
           /\ Head(inbox).type # "SEND_EVENT" =>
                 /\ Events(Tail(inbox)) = {} <=> Events(inbox) = {}
                 /\ \A i, j \in Events(Tail(inbox)) : i = j
           /\ Head(inbox).type = "SEND_EVENT" =>
                 Events(Tail(inbox)) = {} /\ Events(inbox) # {}
<1>1. /\ inbox \in Seq(Messages) /\ Tail(inbox) \in Seq(Messages)
      /\ Len(inbox) \in Nat \ {0}
  BY HeadTailProperties, EmptySeq DEF TokenInv, OutputTypeOK
<1>2. \A i \in Events(inbox) : i \in 1 .. Len(inbox)
  BY DEF Events
<1>3. \A i, j \in Events(inbox) : i = j
  BY DEF TokenInv, OneEvent
<1>4. /\ Events(Tail(inbox)) = {i \in 1 .. Len(inbox) - 1 : i + 1 \in Events(inbox)}
      /\ 1 \in Events(inbox) <=> Head(inbox).type = "SEND_EVENT"
  BY <1>1, EventsOfTail
<1>5. ASSUME Head(inbox).type # "SEND_EVENT"
      PROVE  /\ Events(Tail(inbox)) = {} <=> Events(inbox) = {}
             /\ \A i, j \in Events(Tail(inbox)) : i = j
  <2>1. \A i \in Events(inbox) : i - 1 \in Events(Tail(inbox))
    <3> TAKE i \in Events(inbox)
    <3>1. i \in 2 .. Len(inbox)
      BY <1>1, <1>2, <1>4, <1>5
    <3>2. i - 1 \in 1 .. Len(inbox) - 1 /\ (i - 1) + 1 = i
      BY <1>1, <3>1
    <3> QED
      BY <1>4, <3>2
  <2>2. \A i \in Events(Tail(inbox)) : i \in Nat /\ i + 1 \in Events(inbox)
    BY <1>4
  <2>3. \A i, j \in Events(Tail(inbox)) : i = j
    <3> SUFFICES ASSUME NEW i \in Events(Tail(inbox)), NEW j \in Events(Tail(inbox))
                 PROVE  i = j
      OBVIOUS
    <3>1. i + 1 = j + 1
      BY <1>3, <2>2
    <3> QED
      BY <2>2, <3>1
  <2> QED
    BY <2>1, <2>2, <2>3
<1>6. ASSUME Head(inbox).type = "SEND_EVENT"
      PROVE  Events(Tail(inbox)) = {} /\ Events(inbox) # {}
  <2>1. 1 \in Events(inbox)
    BY <1>4, <1>6
  <2>2. \A i \in Events(Tail(inbox)) : i \in Nat \ {0} /\ i + 1 = 1
    BY <1>3, <1>4, <2>1
  <2>3. Events(Tail(inbox)) = {}
    BY <2>2
  <2> QED
    BY <2>1, <2>3
<1> QED
  BY <1>1, <1>5, <1>6

\* A message that is no send event is handled without a change of the token.
LEMMA OtherMessageHandled ==
    ASSUME TokenInv, inbox # <<>>, Head(inbox).type # "SEND_EVENT", inbox' = Tail(inbox),
           server' # "drain",
           UNCHANGED <<line, clearToSend, busy, overrun, lostSend, sendNotifier>>
    PROVE  TokenInv'
<1>1. /\ inbox' \in Seq(Messages)
      /\ Events(inbox') = {} <=> Events(inbox) = {}
      /\ \A i, j \in Events(inbox') : i = j
  BY MessageTaken
<1> QED
  BY <1>1 DEF TokenInv, OutputTypeOK, OneEvent, OneToken

-----------------------------------------------------------------------------
(* The steps. *)

\* The box gets ready: its token goes to the notifier or is lost.
LEMMA ReadyKeepsInv == TokenInv /\ Ready => TokenInv'
<1> SUFFICES ASSUME TokenInv, Ready PROVE TokenInv'
  OBVIOUS
<1>1. /\ busy /\ busy' = FALSE
      /\ UNCHANGED <<line, server, inbox, clearToSend, overrun>>
      /\ \/ sendNotifier = "event" /\ sendNotifier' = "woken" /\ lostSend' = lostSend
         \/ lostSend' = TRUE /\ sendNotifier' = sendNotifier
  BY DEF Ready
<1>2. OutputTypeOK'
  <2>1. lostSend' \in BOOLEAN /\ busy' \in BOOLEAN
    BY <1>1 DEF TokenInv, OutputTypeOK
  <2> QED
    BY <1>1, <2>1 DEF TokenInv, OutputTypeOK
<1>3. OneEvent'
  <2>1. Events(inbox)' = Events(inbox)
    BY <1>1 DEF Events
  <2>2. Events(inbox) # {} => sendNotifier' = "send"
    BY <1>1 DEF TokenInv, OneEvent
  <2> QED
    BY <2>1, <2>2 DEF TokenInv, OneEvent
<1>4. ASSUME line' = "MARKLIN" PROVE OneToken'
  <2>1. OneToken /\ ~clearToSend /\ Events(inbox) = {} /\ sendNotifier # "woken"
    BY <1>1, <1>4 DEF TokenInv, OneToken
  <2> QED
    BY <1>1, <2>1 DEF OneToken
<1> QED
  BY <1>2, <1>3, <1>4 DEF TokenInv

\* The notifier sends its event.
LEMMA SendNotifierKeepsInv == TokenInv /\ SendNotifierSends => TokenInv'
<1> SUFFICES ASSUME TokenInv, SendNotifierSends PROVE TokenInv'
  OBVIOUS
<1> DEFINE m == [type |-> "SEND_EVENT"]
<1>1. /\ sendNotifier = "woken" /\ sendNotifier' = "send" /\ inbox' = Append(inbox, m)
      /\ UNCHANGED <<line, server, clearToSend, busy, overrun, lostSend>>
  BY DEF SendNotifierSends, output, device
<1>2. inbox \in Seq(Messages) /\ Events(inbox) = {}
  BY <1>1 DEF TokenInv, OutputTypeOK, OneEvent
<1>3. m \in Messages /\ m.type = "SEND_EVENT"
  BY DEF Messages
<1> HIDE DEF m
<1>4. Events(Append(inbox, m)) = Events(inbox) \cup {Len(inbox) + 1}
  BY <1>2, <1>3, EventsOfAppend
<1>5. inbox' \in Seq(Messages) /\ Events(inbox') = {Len(inbox) + 1}
  BY <1>1, <1>2, <1>3, <1>4, AppendProperties
<1>6. OutputTypeOK' /\ OneEvent'
  BY <1>1, <1>5 DEF TokenInv, OutputTypeOK, OneEvent
<1>7. ASSUME line' = "MARKLIN" PROVE OneToken'
  <2>1. OneToken /\ ~clearToSend /\ ~busy
    BY <1>1, <1>7 DEF TokenInv, OneToken
  <2> QED
    BY <1>1, <1>5, <2>1 DEF OneToken
<1> QED
  BY <1>6, <1>7 DEF TokenInv

\* A character is put: with the token it goes to the box, which has it then.
LEMMA PutKeepsInv == TokenInv /\ HandlePut => TokenInv'
<1> SUFFICES ASSUME TokenInv, HandlePut PROVE TokenInv'
  OBVIOUS
<1>1. /\ server = "loop" /\ inbox # <<>> /\ Head(inbox).type = "PUT" /\ inbox' = Tail(inbox)
      /\ UNCHANGED <<line, server, sendNotifier, lostSend>>
  BY DEF HandlePut, Handles, device
<1>2. CASE UNCHANGED <<clearToSend, busy, overrun>>
  BY <1>1, <1>2, OtherMessageHandled
<1>3. CASE clearToSend /\ ~clearToSend' /\ busy' /\ overrun' = (overrun \/ busy)
  <2>1. /\ inbox' \in Seq(Messages)
        /\ Events(inbox') = {} <=> Events(inbox) = {}
        /\ \A i, j \in Events(inbox') : i = j
    BY <1>1, MessageTaken
  <2>2. OutputTypeOK'
    <3>1. busy' \in BOOLEAN /\ clearToSend' \in BOOLEAN
      BY DEF HandlePut, uart_putc, TokenInv, OutputTypeOK
    <3>2. overrun' \in BOOLEAN
      BY <1>3
    <3> QED
      BY <1>1, <2>1, <3>1, <3>2 DEF TokenInv, OutputTypeOK
  <2>3. OneEvent'
    BY <1>1, <2>1 DEF TokenInv, OneEvent
  <2>4. ASSUME line' = "MARKLIN" PROVE OneToken'
    <3>1. OneToken
      BY <1>1, <2>4 DEF TokenInv
    <3>2. ~overrun /\ ~busy /\ sendNotifier # "woken" /\ Events(inbox) = {}
      BY <1>3, <3>1 DEF OneToken
    <3> QED
      BY <1>1, <1>3, <2>1, <3>2 DEF OneToken
  <2> QED
    BY <2>2, <2>3, <2>4 DEF TokenInv
<1>4. \/ UNCHANGED <<clearToSend, busy, overrun>>
      \/ clearToSend /\ ~clearToSend' /\ busy' /\ overrun' = (overrun \/ busy)
  BY DEF HandlePut, uart_putc
<1> QED
  BY <1>2, <1>3, <1>4

\* The server gets the token back, and keeps it or sends the next character with it.
LEMMA SendEventKeepsInv == TokenInv /\ HandleSendEventMarklin => TokenInv'
<1> SUFFICES ASSUME TokenInv, HandleSendEventMarklin PROVE TokenInv'
  OBVIOUS
<1>1. /\ line = "MARKLIN" /\ server = "loop" /\ inbox # <<>>
      /\ Head(inbox).type = "SEND_EVENT" /\ inbox' = Tail(inbox) /\ sendNotifier' = "replied"
      /\ UNCHANGED <<line, server, lostSend>>
  BY DEF HandleSendEventMarklin, Handles, device
<1>2. \/ busy' = TRUE /\ overrun' = (overrun \/ busy) /\ UNCHANGED clearToSend
      \/ clearToSend' = TRUE /\ UNCHANGED <<busy, overrun>>
  BY DEF HandleSendEventMarklin, uart_putc
<1>3. Tail(inbox) \in Seq(Messages) /\ Events(Tail(inbox)) = {} /\ Events(inbox) # {}
  BY <1>1, MessageTaken
<1>4. OneToken /\ ~overrun /\ ~clearToSend /\ ~busy
  BY <1>1, <1>3 DEF TokenInv, OneToken
<1>5. OutputTypeOK'
  BY <1>1, <1>2, <1>3 DEF TokenInv, OutputTypeOK
<1>6. Events(inbox') = {} /\ sendNotifier' # "woken"
  BY <1>1, <1>3
<1>7. OneEvent'
  BY <1>6 DEF OneEvent
<1>8. OneToken'
  <2>1. \/ busy' /\ ~clearToSend' /\ ~overrun'
        \/ clearToSend' /\ ~busy' /\ ~overrun'
    BY <1>2, <1>4
  <2> QED
    BY <1>6, <2>1 DEF OneToken
<1> QED
  BY <1>5, <1>7, <1>8 DEF TokenInv

\* The console has no token: its events and its loop only keep the types.
LEMMA ConsoleKeepsInv == TokenInv /\ (HandleSendEventConsole \/ Drain \/ DrainEnd) => TokenInv'
<1> SUFFICES ASSUME TokenInv, HandleSendEventConsole \/ Drain \/ DrainEnd PROVE TokenInv'
  OBVIOUS
<1>1. line' = line /\ line = "CONSOLE"
  BY DEF HandleSendEventConsole, Drain, DrainEnd, TokenInv, OutputTypeOK
<1>2. CASE HandleSendEventConsole
  <2>1. /\ inbox # <<>> /\ Head(inbox).type = "SEND_EVENT" /\ inbox' = Tail(inbox)
        /\ UNCHANGED <<clearToSend, busy, overrun, lostSend>>
    BY <1>2 DEF HandleSendEventConsole, Handles, output, device
  <2>2. inbox' \in Seq(Messages) /\ Events(inbox') = {}
    BY <2>1, MessageTaken
  <2> QED
    BY <1>1, <2>1, <2>2 DEF TokenInv, OutputTypeOK, OneEvent
<1>3. CASE Drain
  <2>1. /\ UNCHANGED <<inbox, clearToSend, lostSend, sendNotifier>>
        /\ busy' = TRUE /\ overrun' = (overrun \/ busy)
    BY <1>3 DEF Drain, uart_putc, device
  <2> QED
    BY <1>1, <2>1 DEF TokenInv, OutputTypeOK, OneEvent
<1>4. CASE DrainEnd
  <2>1. UNCHANGED <<inbox, busy, overrun, lostSend, sendNotifier>>
        /\ clearToSend' = (putc_tasks = <<>>)
    BY <1>4 DEF DrainEnd, device
  <2> QED
    BY <1>1, <2>1 DEF TokenInv, OutputTypeOK, OneEvent
<1> QED
  BY <1>2, <1>3, <1>4

\* The notifier waits for the next interrupt.
LEMMA SendNotifierAwaitsKeepsInv == TokenInv /\ SendNotifierAwaits => TokenInv'
BY DEF SendNotifierAwaits, output, device, TokenInv, OutputTypeOK, OneEvent, OneToken

\* The invariant is inductive.
LEMMA TokenStep == TokenInv /\ [Next]_vars => TokenInv'
<1> SUFFICES ASSUME TokenInv, [Next]_vars PROVE TokenInv'
  OBVIOUS
<1>1. CASE Arrive
  BY <1>1 DEF Arrive, output, TokenInv, OutputTypeOK, OneEvent, OneToken
<1>2. CASE ReceiveNotifierSends
  <2>1. [type |-> "RECEIVE_EVENT"] \in Messages
    BY DEF Messages
  <2> QED
    BY <1>2, <2>1, MessageSent DEF ReceiveNotifierSends, output, device
<1>3. CASE ReceiveNotifierAwaits
  BY <1>3 DEF ReceiveNotifierAwaits, output, device, TokenInv, OutputTypeOK, OneEvent, OneToken
<1>4. CASE Getc
  <2>1. [type |-> "GETC"] \in Messages
    BY DEF Messages
  <2> QED
    BY <1>4, <2>1, MessageSent DEF Getc, output, device
<1>5. ASSUME NEW w \in Writer, NEW n \in 1 .. MaxPuts, Puts(w, n)
      PROVE  TokenInv'
  <2>1. [type |-> "PUT", from |-> w, len |-> n] \in Messages
    BY DEF Messages
  <2> QED
    BY <1>5, <2>1, MessageSent DEF Puts, output, device
<1>6. CASE HandleGetc
  BY <1>6, OtherMessageHandled DEF HandleGetc, Handles, PopBegin, output, device
<1>7. CASE HandleReceiveEvent
  BY <1>7, OtherMessageHandled DEF HandleReceiveEvent, Handles, PopBegin, output, device
<1>8. CASE PopEnd
  BY <1>8 DEF PopEnd, output, device, TokenInv, OutputTypeOK, OneEvent, OneToken
<1>9. CASE UNCHANGED vars
  BY <1>9 DEF vars, TokenInv, OutputTypeOK, OneEvent, OneToken
<1> QED
  BY <1>1, <1>2, <1>3, <1>4, <1>5, <1>6, <1>7, <1>8, <1>9, ReadyKeepsInv, SendNotifierKeepsInv,
     PutKeepsInv, SendEventKeepsInv, ConsoleKeepsInv, SendNotifierAwaitsKeepsInv
     DEF Next, ServerStep

LEMMA TokenInit == Init => TokenInv
<1> SUFFICES ASSUME Init PROVE TokenInv
  OBVIOUS
<1>1. inbox = <<>> /\ inbox \in Seq(Messages) /\ Len(inbox) = 0
  BY EmptySeq DEF Init
<1>2. Events(inbox) = {}
  BY <1>1 DEF Events
<1> QED
  BY <1>1, <1>2 DEF Init, TokenInv, OutputTypeOK, OneEvent, OneToken

\* The right to send to the box (clearToSend, the events of CTS) is never in two places, a
\* byte is never sent to a busy box, and the right is lost only with an interrupt
\* (IO_PUTC, IO_PUTS and IO_SEND_EVENT of user/io-server/server.c).
THEOREM Token == Spec => []SendToken
<1>1. TokenInv => SendToken
  <2> SUFFICES ASSUME TokenInv, line = "MARKLIN"
               PROVE  SendToken
    BY DEF SendToken
  <2> DEFINE tokens == {x \in {"server", "box", "notifier", "message"} :
                          \/ x = "server" /\ clearToSend
                          \/ x = "box" /\ busy
                          \/ x = "notifier" /\ sendNotifier = "woken"
                          \/ x = "message" /\ \E i \in 1 .. Len(inbox) :
                                                   inbox[i].type = "SEND_EVENT"}
  <2>1. Events(inbox) # {} <=> \E i \in 1 .. Len(inbox) : inbox[i].type = "SEND_EVENT"
    BY DEF Events
  <2>2. Events(inbox) # {} => sendNotifier # "woken"
    BY DEF TokenInv, OneEvent
  <2>3. ~overrun
    BY DEF TokenInv, OneToken
  <2>4. \A x, y \in tokens : x = y
    BY <2>1, <2>2 DEF TokenInv, OneToken
  <2>5. lostSend \/ tokens # {}
    BY <2>1 DEF TokenInv, OneToken
  <2> QED
    BY <2>3, <2>4, <2>5 DEF SendToken
<1> QED
  BY <1>1, TokenInit, TokenStep, PTL DEF Spec

-----------------------------------------------------------------------------
(* The messages on their way. *)

\* The same task has sent messages m and n: the reader, a notifier or one writer.
Same(m, n) == m.type = n.type /\ (m.type = "PUT" => m.from = n.from)

\* The sender of message m is in Send, and the server has not taken the message.
InSend(m) ==
    /\ m.type = "GETC" => reader = "wait" /\ ~getc_tasks /\ server # "pop"
    /\ m.type = "RECEIVE_EVENT" => receiveNotifier = "send"
    /\ m.type = "SEND_EVENT" => sendNotifier = "send"
    /\ m.type = "PUT" => writer[m.from] = "wait"

\* Every sender has one message on its way.
OneEach ==
    /\ inbox \in Seq(Messages)
    /\ \A i, j \in 1 .. Len(inbox) : Same(inbox[i], inbox[j]) => i = j
    /\ \A i \in 1 .. Len(inbox) : InSend(inbox[i])

TasksOK ==
    /\ server \in {"loop", "pop", "drain"}
    /\ getc_tasks \in BOOLEAN
    /\ receiveNotifier \in {"event", "woken", "send", "replied"}
    /\ sendNotifier \in {"event", "woken", "send", "replied"}
    /\ reader \in {"run", "wait"} /\ writer \in [Writer -> {"run", "wait"}]
    /\ getc_tasks => reader = "wait" /\ server # "pop"
    /\ server = "pop" => reader = "wait"

CallersInv == TasksOK /\ OneEach

\* A sender that is in no Send sends.
LEMMA SendKeepsOneEach ==
    ASSUME CallersInv, NEW m \in Messages, ~InSend(m), InSend(m)',
           \A n \in Messages : InSend(n) => InSend(n)',
           inbox' = Append(inbox, m)
    PROVE  OneEach'
<1>1. /\ inbox \in Seq(Messages) /\ Len(inbox) \in Nat
      /\ inbox' \in Seq(Messages) /\ Len(inbox') = Len(inbox) + 1
      /\ \A i \in 1 .. Len(inbox) : inbox'[i] = inbox[i] /\ inbox[i] \in Messages
      /\ inbox'[Len(inbox) + 1] = m
  BY AppendProperties, LenProperties, ElementOfSeq DEF CallersInv, OneEach
<1>2. \A i \in 1 .. Len(inbox') : i \in 1 .. Len(inbox) \/ i = Len(inbox) + 1
  BY <1>1
<1>3. \A i \in 1 .. Len(inbox) : InSend(inbox[i])
  BY DEF CallersInv, OneEach
<1>4. \A i \in 1 .. Len(inbox) : ~Same(inbox[i], m) /\ ~Same(m, inbox[i])
  <2> TAKE i \in 1 .. Len(inbox)
  <2> QED
    BY <1>3 DEF Same, InSend
<1>5. \A i, j \in 1 .. Len(inbox') : Same(inbox'[i], inbox'[j]) => i = j
  <2> SUFFICES ASSUME NEW i \in 1 .. Len(inbox'), NEW j \in 1 .. Len(inbox'),
                      Same(inbox'[i], inbox'[j])
               PROVE  i = j
    OBVIOUS
  <2>1. CASE i \in 1 .. Len(inbox) /\ j \in 1 .. Len(inbox)
    BY <1>1, <2>1 DEF CallersInv, OneEach
  <2>2. CASE i \in 1 .. Len(inbox) /\ j = Len(inbox) + 1
    BY <1>1, <1>4, <2>2
  <2>3. CASE i = Len(inbox) + 1 /\ j \in 1 .. Len(inbox)
    BY <1>1, <1>4, <2>3
  <2> QED
    BY <1>2, <2>1, <2>2, <2>3
<1>6. \A i \in 1 .. Len(inbox') : InSend(inbox[i])'
  <2> TAKE i \in 1 .. Len(inbox')
  <2>1. CASE i \in 1 .. Len(inbox)
    <3>1. PICK n \in Messages : n = inbox[i]
      BY <1>1, <2>1
    <3>2. InSend(n)
      BY <1>3, <2>1, <3>1
    <3>3. InSend(n)' /\ n = inbox'[i]
      BY <1>1, <2>1, <3>1, <3>2
    <3> QED
      BY <3>3 DEF InSend
  <2>2. CASE i = Len(inbox) + 1
    BY <1>1, <2>2 DEF InSend
  <2> QED
    BY <1>2, <2>1, <2>2
<1> QED
  BY <1>1, <1>5, <1>6 DEF OneEach

\* The first message is handled: what its sender then does concerns no other.
LEMMA TakeKeepsOneEach ==
    ASSUME CallersInv, inbox # <<>>,
           \A n \in Messages : InSend(n) /\ ~Same(n, Head(inbox)) => InSend(n)',
           inbox' = Tail(inbox)
    PROVE  OneEach'
<1>1. /\ inbox \in Seq(Messages) /\ Len(inbox) \in Nat \ {0} /\ Head(inbox) = inbox[1]
      /\ inbox' \in Seq(Messages) /\ Len(inbox') = Len(inbox) - 1
      /\ \A i \in 1 .. Len(inbox') : inbox'[i] = inbox[i + 1]
      /\ \A i \in 1 .. Len(inbox) : inbox[i] \in Messages
  BY HeadTailProperties, LenProperties, EmptySeq, ElementOfSeq DEF CallersInv, OneEach
<1>2. \A i \in 1 .. Len(inbox') : i + 1 \in 1 .. Len(inbox) /\ i + 1 # 1 /\ i \in Nat
  BY <1>1
<1>3. \A i, j \in 1 .. Len(inbox) : Same(inbox[i], inbox[j]) => i = j
  BY DEF CallersInv, OneEach
<1>4. \A i, j \in 1 .. Len(inbox') : Same(inbox'[i], inbox'[j]) => i = j
  <2> SUFFICES ASSUME NEW i \in 1 .. Len(inbox'), NEW j \in 1 .. Len(inbox'),
                      Same(inbox'[i], inbox'[j])
               PROVE  i = j
    OBVIOUS
  <2>1. i + 1 = j + 1
    BY <1>1, <1>2, <1>3
  <2> QED
    BY <1>2, <2>1
<1>5. \A i \in 1 .. Len(inbox') : InSend(inbox[i])'
  <2> TAKE i \in 1 .. Len(inbox')
  <2>1. PICK n \in Messages : n = inbox[i + 1]
    BY <1>1, <1>2
  <2>2. InSend(n)
    BY <1>2, <2>1 DEF CallersInv, OneEach
  <2>3. ~Same(n, Head(inbox))
    <3>1. 1 \in 1 .. Len(inbox)
      BY <1>1
    <3> QED
      BY <1>1, <1>2, <1>3, <2>1, <3>1
  <2>4. InSend(n)' /\ n = inbox'[i]
    BY <1>1, <2>1, <2>2, <2>3
  <2> QED
    BY <2>4 DEF InSend
<1> QED
  BY <1>1, <1>4, <1>5 DEF OneEach

\* A step that sends and handles no message.
LEMMA StayKeepsOneEach ==
    ASSUME CallersInv, \A n \in Messages : InSend(n) => InSend(n)', inbox' = inbox
    PROVE  OneEach'
<1>1. \A i \in 1 .. Len(inbox) : inbox[i] \in Messages /\ InSend(inbox[i])
  BY ElementOfSeq DEF CallersInv, OneEach
<1>2. \A i \in 1 .. Len(inbox) : InSend(inbox[i])'
  <2> TAKE i \in 1 .. Len(inbox)
  <2>1. PICK n \in Messages : n = inbox[i]
    BY <1>1
  <2>2. InSend(n)' /\ n = inbox'[i]
    BY <1>1, <2>1
  <2> QED
    BY <2>2 DEF InSend
<1> QED
  BY <1>2 DEF CallersInv, OneEach

\* The invariant is inductive.
LEMMA CallersStep == CallersInv /\ [Next]_vars => CallersInv'
<1> SUFFICES ASSUME CallersInv, [Next]_vars PROVE CallersInv'
  OBVIOUS
<1>0. TasksOK
  BY DEF CallersInv
<1>1. CASE Ready
  <2>1. TasksOK'
    BY <1>0, <1>1 DEF Ready, TasksOK, input
  <2>2. \A n \in Messages : InSend(n) => InSend(n)'
    BY <1>1 DEF Ready, InSend, input
  <2> QED
    BY <1>1, <2>1, <2>2, StayKeepsOneEach DEF CallersInv, Ready
<1>2. CASE Arrive
  <2>1. TasksOK'
    BY <1>0, <1>2 DEF Arrive, TasksOK
  <2>2. \A n \in Messages : InSend(n) => InSend(n)'
    BY <1>2 DEF Arrive, InSend
  <2> QED
    BY <1>2, <2>1, <2>2, StayKeepsOneEach DEF CallersInv, Arrive
<1>3. CASE ReceiveNotifierSends
  <2> DEFINE m == [type |-> "RECEIVE_EVENT"]
  <2>1. TasksOK'
    BY <1>0, <1>3 DEF ReceiveNotifierSends, TasksOK, input
  <2>2. \A n \in Messages : InSend(n) => InSend(n)'
    BY <1>3 DEF ReceiveNotifierSends, InSend, input
  <2>3. m \in Messages /\ ~InSend(m) /\ InSend(m)' /\ inbox' = Append(inbox, m)
    BY <1>3 DEF ReceiveNotifierSends, InSend, Messages
  <2> HIDE DEF m
  <2> QED
    BY <2>1, <2>2, <2>3, SendKeepsOneEach DEF CallersInv
<1>4. CASE ReceiveNotifierAwaits
  <2>1. TasksOK'
    BY <1>0, <1>4 DEF ReceiveNotifierAwaits, TasksOK, input
  <2>2. \A n \in Messages : InSend(n) => InSend(n)'
    BY <1>4 DEF ReceiveNotifierAwaits, InSend, input
  <2> QED
    BY <1>4, <2>1, <2>2, StayKeepsOneEach DEF CallersInv, ReceiveNotifierAwaits
<1>5. CASE SendNotifierSends
  <2> DEFINE m == [type |-> "SEND_EVENT"]
  <2>1. TasksOK'
    BY <1>0, <1>5 DEF SendNotifierSends, TasksOK, input
  <2>2. \A n \in Messages : InSend(n) => InSend(n)'
    BY <1>5 DEF SendNotifierSends, InSend, input
  <2>3. m \in Messages /\ ~InSend(m) /\ InSend(m)' /\ inbox' = Append(inbox, m)
    BY <1>5 DEF SendNotifierSends, InSend, Messages
  <2> HIDE DEF m
  <2> QED
    BY <2>1, <2>2, <2>3, SendKeepsOneEach DEF CallersInv
<1>6. CASE SendNotifierAwaits
  <2>1. TasksOK'
    BY <1>0, <1>6 DEF SendNotifierAwaits, TasksOK, input
  <2>2. \A n \in Messages : InSend(n) => InSend(n)'
    BY <1>6 DEF SendNotifierAwaits, InSend, input
  <2> QED
    BY <1>6, <2>1, <2>2, StayKeepsOneEach DEF CallersInv, SendNotifierAwaits
<1>7. CASE Getc
  <2> DEFINE m == [type |-> "GETC"]
  <2>1. TasksOK'
    BY <1>0, <1>7 DEF Getc, TasksOK
  <2>2. \A n \in Messages : InSend(n) => InSend(n)'
    BY <1>7 DEF Getc, InSend
  <2>3. m \in Messages /\ ~InSend(m) /\ InSend(m)' /\ inbox' = Append(inbox, m)
    BY <1>0, <1>7 DEF Getc, InSend, Messages, TasksOK
  <2> HIDE DEF m
  <2> QED
    BY <2>1, <2>2, <2>3, SendKeepsOneEach DEF CallersInv
<1>8. ASSUME NEW w \in Writer, NEW l \in 1 .. MaxPuts, Puts(w, l) PROVE CallersInv'
  <2> DEFINE m == [type |-> "PUT", from |-> w, len |-> l]
  <2>1. TasksOK'
    BY <1>0, <1>8 DEF Puts, TasksOK, input
  <2>2. \A n \in Messages : InSend(n) => InSend(n)'
    <3>1. \A v \in Writer : writer[v] = "wait" => writer'[v] = "wait"
      BY <1>0, <1>8 DEF Puts, TasksOK
    <3>2. \A n \in Messages : n.type = "PUT" => n.from \in Writer
      BY DEF Messages
    <3> QED
      BY <1>8, <3>1, <3>2 DEF Puts, InSend, input
  <2>3. m \in Messages /\ ~InSend(m) /\ InSend(m)' /\ inbox' = Append(inbox, m)
    BY <1>0, <1>8 DEF Puts, InSend, Messages, TasksOK
  <2> HIDE DEF m
  <2> QED
    BY <2>1, <2>2, <2>3, SendKeepsOneEach DEF CallersInv
<1>9. CASE HandleGetc
  <2>1. /\ inbox # <<>> /\ Head(inbox).type = "GETC" /\ inbox' = Tail(inbox) /\ server = "loop"
        /\ \/ server' = "pop" /\ UNCHANGED getc_tasks
           \/ getc_tasks' = TRUE /\ UNCHANGED server
        /\ UNCHANGED <<reader, writer, receiveNotifier, sendNotifier>>
    BY <1>9 DEF HandleGetc, Handles, PopBegin
  <2>2. InSend(Head(inbox))
    BY <2>1, HeadTailProperties, EmptySeq DEF CallersInv, OneEach
  <2>3. TasksOK'
    <3>1. reader = "wait" /\ getc_tasks = FALSE
      BY <1>0, <2>1, <2>2 DEF TasksOK, InSend
    <3>2. \/ server' = "pop" /\ getc_tasks' = FALSE
          \/ server' = "loop" /\ getc_tasks' = TRUE
      BY <2>1, <3>1
    <3>3. getc_tasks' \in BOOLEAN /\ server' \in {"loop", "pop"}
      BY <3>2
    <3> QED
      BY <1>0, <2>1, <3>1, <3>2, <3>3 DEF TasksOK
  <2>4. \A n \in Messages : InSend(n) /\ ~Same(n, Head(inbox)) => InSend(n)'
    BY <2>1 DEF InSend, Same
  <2> QED
    BY <2>1, <2>3, <2>4, TakeKeepsOneEach DEF CallersInv
<1>10. CASE PopEnd
  <2>1. TasksOK'
    BY <1>0, <1>10 DEF PopEnd, TasksOK
  <2>2. \A n \in Messages : InSend(n) => InSend(n)'
    BY <1>10 DEF PopEnd, InSend
  <2> QED
    BY <1>10, <2>1, <2>2, StayKeepsOneEach DEF CallersInv, PopEnd
<1>11. CASE HandlePut
  <2>1. /\ inbox # <<>> /\ Head(inbox).type = "PUT" /\ inbox' = Tail(inbox)
        /\ writer' = [writer EXCEPT ![Head(inbox).from] = "run"]
        /\ UNCHANGED <<server, getc_tasks, reader, receiveNotifier, sendNotifier>>
    BY <1>11 DEF HandlePut, Handles, input
  <2>2. TasksOK'
    BY <1>0, <2>1 DEF TasksOK
  <2>3. \A n \in Messages : InSend(n) /\ ~Same(n, Head(inbox)) => InSend(n)'
    <3>1. \A v \in Writer : v # Head(inbox).from => writer'[v] = writer[v]
      BY <1>0, <2>1 DEF TasksOK
    <3>2. \A n \in Messages : n.type = "PUT" => n.from \in Writer
      BY DEF Messages
    <3> QED
      BY <2>1, <3>1, <3>2 DEF InSend, Same
  <2> QED
    BY <2>1, <2>2, <2>3, TakeKeepsOneEach DEF CallersInv
<1>12. CASE HandleReceiveEvent
  <2>1. /\ inbox # <<>> /\ Head(inbox).type = "RECEIVE_EVENT" /\ inbox' = Tail(inbox)
        /\ server = "loop" /\ receiveNotifier' = "replied" /\ getc_tasks' = FALSE
        /\ \/ getc_tasks /\ server' = "pop" /\ UNCHANGED reader
           \/ reader' = (IF getc_tasks THEN "run" ELSE reader) /\ UNCHANGED server
        /\ UNCHANGED <<writer, sendNotifier>>
    BY <1>12 DEF HandleReceiveEvent, Handles, PopBegin
  <2>2. TasksOK'
    BY <1>0, <2>1 DEF TasksOK
  <2>3. \A n \in Messages : InSend(n) /\ ~Same(n, Head(inbox)) => InSend(n)'
    BY <2>1 DEF InSend, Same
  <2> QED
    BY <2>1, <2>2, <2>3, TakeKeepsOneEach DEF CallersInv
<1>13. CASE HandleSendEventMarklin \/ HandleSendEventConsole
  <2>1. /\ inbox # <<>> /\ Head(inbox).type = "SEND_EVENT" /\ inbox' = Tail(inbox)
        /\ server = "loop" /\ server' \in {"loop", "drain"} /\ sendNotifier' = "replied"
        /\ UNCHANGED <<getc_tasks, reader, writer, receiveNotifier>>
    BY <1>13 DEF HandleSendEventMarklin, HandleSendEventConsole, Handles, input
  <2>2. TasksOK'
    BY <1>0, <2>1 DEF TasksOK
  <2>3. \A n \in Messages : InSend(n) /\ ~Same(n, Head(inbox)) => InSend(n)'
    BY <2>1 DEF InSend, Same
  <2> QED
    BY <2>1, <2>2, <2>3, TakeKeepsOneEach DEF CallersInv
<1>14. CASE Drain \/ DrainEnd
  <2>1. /\ server = "drain" /\ server' \in {"loop", "drain"}
        /\ UNCHANGED <<inbox, getc_tasks, reader, writer, receiveNotifier, sendNotifier>>
    BY <1>14 DEF Drain, DrainEnd, input
  <2>2. TasksOK'
    BY <1>0, <2>1 DEF TasksOK
  <2>3. \A n \in Messages : InSend(n) => InSend(n)'
    BY <2>1 DEF InSend
  <2> QED
    BY <2>1, <2>2, <2>3, StayKeepsOneEach DEF CallersInv
<1>15. CASE UNCHANGED vars
  <2>1. UNCHANGED <<inbox, server, getc_tasks, reader, writer, receiveNotifier, sendNotifier>>
    BY <1>15 DEF vars
  <2>2. TasksOK'
    BY <1>0, <2>1 DEF TasksOK
  <2>3. \A n \in Messages : InSend(n) => InSend(n)'
    BY <2>1 DEF InSend
  <2> QED
    BY <2>1, <2>2, <2>3, StayKeepsOneEach DEF CallersInv
<1> QED
  BY <1>1, <1>2, <1>3, <1>4, <1>5, <1>6, <1>7, <1>8, <1>9, <1>10, <1>11, <1>12, <1>13, <1>14,
     <1>15 DEF Next, ServerStep

-----------------------------------------------------------------------------
(* The output. *)

\* The characters numbered from a + 1 to b.
Run(a, b) == [i \in 1 .. b - a |-> a + i]

LEMMA RunIsSeq ==
    ASSUME NEW a \in Nat, NEW b \in Nat, a <= b
    PROVE  /\ Run(a, b) \in Seq(Nat) /\ Len(Run(a, b)) = b - a
           /\ \A i \in 1 .. b - a : Run(a, b)[i] = a + i
           /\ Run(a, b) = <<>> <=> a = b
<1>1. b - a \in Nat /\ Run(a, b) \in [1 .. b - a -> Nat]
  BY DEF Run
<1>2. Run(a, b) \in Seq(Nat) /\ DOMAIN Run(a, b) = 1 .. b - a
  BY <1>1, SeqDef
<1>3. Len(Run(a, b)) = b - a
  BY <1>1, <1>2, LenProperties
<1> QED
  BY <1>1, <1>2, <1>3, EmptySeq DEF Run

LEMMA RunTail ==
    ASSUME NEW a \in Nat, NEW b \in Nat, a < b
    PROVE  Head(Run(a, b)) = a + 1 /\ Tail(Run(a, b)) = Run(a + 1, b)
<1>1. /\ Run(a, b) \in Seq(Nat) /\ Len(Run(a, b)) = b - a
      /\ \A i \in 1 .. b - a : Run(a, b)[i] = a + i
      /\ Run(a, b) # <<>>
  BY RunIsSeq
<1>2. /\ Run(a + 1, b) \in Seq(Nat) /\ Len(Run(a + 1, b)) = b - (a + 1)
      /\ \A i \in 1 .. b - (a + 1) : Run(a + 1, b)[i] = a + 1 + i
  BY RunIsSeq
<1>3. /\ Head(Run(a, b)) = Run(a, b)[1]
      /\ Tail(Run(a, b)) \in Seq(Nat) /\ Len(Tail(Run(a, b))) = b - a - 1
      /\ \A i \in 1 .. b - a - 1 : Tail(Run(a, b))[i] = Run(a, b)[i + 1]
  BY <1>1, HeadTailProperties
<1>4. \A i \in 1 .. b - a - 1 : Tail(Run(a, b))[i] = Run(a + 1, b)[i]
  BY <1>1, <1>2, <1>3
<1>5. Tail(Run(a, b)) = Run(a + 1, b)
  <2>1. /\ Len(Tail(Run(a, b))) = Len(Run(a + 1, b))
        /\ \A i \in 1 .. Len(Tail(Run(a, b))) : Tail(Run(a, b))[i] = Run(a + 1, b)[i]
    BY <1>2, <1>3, <1>4
  <2> QED
    BY <1>2, <1>3, <2>1, SeqEqual
<1> QED
  BY <1>1, <1>3, <1>5

LEMMA RunConcat ==
    ASSUME NEW a \in Nat, NEW b \in Nat, NEW c \in Nat, a <= b, b <= c
    PROVE  Run(a, b) \o Run(b, c) = Run(a, c)
<1>1. /\ Run(a, b) \in Seq(Nat) /\ Len(Run(a, b)) = b - a
      /\ \A i \in 1 .. b - a : Run(a, b)[i] = a + i
  BY RunIsSeq
<1>2. /\ Run(b, c) \in Seq(Nat) /\ Len(Run(b, c)) = c - b
      /\ \A i \in 1 .. c - b : Run(b, c)[i] = b + i
  BY RunIsSeq
<1>3. /\ Run(a, c) \in Seq(Nat) /\ Len(Run(a, c)) = c - a
      /\ \A i \in 1 .. c - a : Run(a, c)[i] = a + i
  BY RunIsSeq
<1>4. /\ Run(a, b) \o Run(b, c) \in Seq(Nat)
      /\ Len(Run(a, b) \o Run(b, c)) = (b - a) + (c - b)
      /\ \A i \in 1 .. (b - a) + (c - b) :
            (Run(a, b) \o Run(b, c))[i] = IF i <= b - a THEN Run(a, b)[i] ELSE Run(b, c)[i - (b - a)]
  <2>1. /\ Run(a, b) \o Run(b, c) \in Seq(Nat)
        /\ Len(Run(a, b) \o Run(b, c)) = Len(Run(a, b)) + Len(Run(b, c))
        /\ \A i \in 1 .. Len(Run(a, b)) + Len(Run(b, c)) :
              (Run(a, b) \o Run(b, c))[i]
                  = IF i <= Len(Run(a, b)) THEN Run(a, b)[i] ELSE Run(b, c)[i - Len(Run(a, b))]
    BY <1>1, <1>2, ConcatProperties
  <2> QED
    BY <1>1, <1>2, <2>1
<1>5. \A i \in 1 .. c - a : (Run(a, b) \o Run(b, c))[i] = Run(a, c)[i]
  <2> TAKE i \in 1 .. c - a
  <2>1. CASE i <= b - a
    BY <1>1, <1>3, <1>4, <2>1
  <2>2. CASE ~(i <= b - a)
    <3>1. PICK j \in 1 .. c - b : i = j + (b - a)
      <4>1. i - (b - a) \in 1 .. c - b /\ i = (i - (b - a)) + (b - a)
        BY <2>2
      <4> QED
        BY <4>1
    <3>2. i - (b - a) = j /\ b + j = a + i /\ i \in 1 .. (b - a) + (c - b)
      BY <3>1
    <3>3. (Run(a, b) \o Run(b, c))[i] = Run(b, c)[j]
      BY <1>4, <2>2, <3>2
    <3>4. Run(b, c)[j] = b + j /\ Run(a, c)[i] = a + i
      BY <1>2, <1>3
    <3> QED
      BY <3>2, <3>3, <3>4
  <2> QED
    BY <2>1, <2>2
<1>6. /\ Len(Run(a, b) \o Run(b, c)) = Len(Run(a, c))
      /\ \A i \in 1 .. Len(Run(a, b) \o Run(b, c)) : (Run(a, b) \o Run(b, c))[i] = Run(a, c)[i]
  BY <1>3, <1>4, <1>5
<1> QED
  BY <1>3, <1>4, <1>6, SeqEqual

OutputInv ==
    /\ sent \in Nat /\ accepted \in Nat /\ sent <= accepted
    /\ clearToSend \in BOOLEAN
    /\ putc_tasks = Run(sent, accepted)
    /\ clearToSend => putc_tasks = <<>>

\* The first of the queue is sent.
LEMMA FirstSent ==
    ASSUME OutputInv, putc_tasks # <<>>, sent' = Head(putc_tasks),
           putc_tasks' = Tail(putc_tasks), UNCHANGED <<accepted, clearToSend>>
    PROVE  OutputInv'
<1>1. sent < accepted
  BY RunIsSeq DEF OutputInv
<1>2. sent' = sent + 1 /\ putc_tasks' = Run(sent + 1, accepted)
  BY <1>1, RunTail DEF OutputInv
<1> QED
  BY <1>1, <1>2 DEF OutputInv

\* The characters of a message are queued, but the first if the line is clear.
LEMMA CharactersTaken ==
    ASSUME OutputInv, CallersInv, HandlePut
    PROVE  OutputInv'
<1> DEFINE m == Head(inbox)
           k == Smaller(PUTS_BLOCK_SIZE, m.len)
           s == Taken(m)
<1>1. m \in Messages /\ m.type = "PUT"
  BY ElementOfSeq, HeadTailProperties DEF CallersInv, OneEach, HandlePut, Handles
<1>2. k \in Nat \ {0}
  BY <1>1, IOAssumption DEF Messages, Smaller
<1>3. PICK c \in Nat : c = accepted + k
  BY <1>2 DEF OutputInv
<1>4. accepted \in Nat /\ accepted < c /\ s = Run(accepted, c)
  BY <1>2, <1>3 DEF Taken, Run, OutputInv
<1>5. Len(s) = c - accepted /\ s[1] = accepted + 1 /\ Tail(s) = Run(accepted + 1, c)
  <2>1. /\ Len(s) = c - accepted
        /\ \A i \in 1 .. c - accepted : s[i] = accepted + i
    BY <1>4, RunIsSeq
  <2>2. Tail(s) = Run(accepted + 1, c)
    BY <1>4, RunTail
  <2> QED
    BY <1>4, <2>1, <2>2
<1>6. /\ accepted' = accepted + Len(s)
      /\ \/ /\ clearToSend /\ sent' = s[1] /\ clearToSend' = FALSE
            /\ putc_tasks' = putc_tasks \o Tail(s)
         \/ /\ ~clearToSend /\ putc_tasks' = putc_tasks \o s
            /\ UNCHANGED <<clearToSend, sent>>
  BY DEF HandlePut, uart_putc
<1> HIDE DEF s, k, m
<1>7. accepted' = c
  BY <1>4, <1>5, <1>6
<1>8. CASE clearToSend /\ sent' = s[1] /\ clearToSend' = FALSE /\ putc_tasks' = putc_tasks \o Tail(s)
  <2>1. Run(accepted + 1, c) \in Seq(Nat)
    BY <1>4, RunIsSeq
  <2>2. putc_tasks' = Run(accepted + 1, c)
    BY <1>5, <1>8, <2>1, ConcatEmptySeq DEF OutputInv
  <2>3. sent' = accepted + 1 /\ sent' \in Nat /\ sent' <= c /\ accepted' = c /\ c \in Nat
    BY <1>4, <1>5, <1>7, <1>8
  <2>4. putc_tasks' = Run(sent', accepted') /\ clearToSend' = FALSE
    BY <1>8, <2>2, <2>3
  <2> QED
    BY <2>3, <2>4 DEF OutputInv
<1>9. CASE ~clearToSend /\ putc_tasks' = putc_tasks \o s /\ UNCHANGED <<clearToSend, sent>>
  <2>1. sent \in Nat /\ sent <= accepted /\ putc_tasks = Run(sent, accepted)
    BY DEF OutputInv
  <2>2. putc_tasks' = Run(sent, accepted) \o Run(accepted, c)
    BY <1>4, <1>9, <2>1
  <2>3. Run(sent, accepted) \o Run(accepted, c) = Run(sent, c)
    <3>1. accepted \in Nat /\ c \in Nat /\ accepted <= c
      BY <1>4
    <3> QED
      BY <2>1, <3>1, RunConcat
  <2>4. sent' = sent /\ accepted' = c /\ sent <= c /\ clearToSend' = FALSE
    BY <1>4, <1>7, <1>9, <2>1 DEF OutputInv
  <2>5. putc_tasks' = Run(sent', accepted')
    BY <2>2, <2>3, <2>4
  <2> QED
    BY <2>1, <2>4, <2>5 DEF OutputInv
<1> QED
  BY <1>6, <1>8, <1>9

LEMMA OutputStep == OutputInv /\ CallersInv /\ [Next]_vars => OutputInv'
<1> SUFFICES ASSUME OutputInv, CallersInv, [Next]_vars PROVE OutputInv'
  OBVIOUS
<1>1. ASSUME UNCHANGED <<sent, accepted, clearToSend, putc_tasks>> PROVE OutputInv'
  BY <1>1 DEF OutputInv
<1>2. CASE HandleSendEventMarklin
  <2>1. CASE /\ putc_tasks # <<>> /\ sent' = Head(putc_tasks)
             /\ putc_tasks' = Tail(putc_tasks) /\ UNCHANGED <<accepted, clearToSend>>
    BY <2>1, FirstSent
  <2>2. CASE /\ putc_tasks = <<>> /\ clearToSend' = TRUE
             /\ UNCHANGED <<sent, accepted, putc_tasks>>
    BY <2>2 DEF OutputInv
  <2> QED
    BY <1>2, <2>1, <2>2 DEF HandleSendEventMarklin, uart_putc
<1>3. CASE Drain
  BY <1>3, FirstSent DEF Drain, uart_putc
<1>4. CASE DrainEnd
  <2>1. /\ clearToSend' = (putc_tasks = <<>>) /\ UNCHANGED <<sent, accepted, putc_tasks>>
    BY <1>4 DEF DrainEnd
  <2>2. clearToSend' \in BOOLEAN /\ (clearToSend' => putc_tasks = <<>>)
    BY <2>1
  <2> QED
    BY <2>1, <2>2 DEF OutputInv
<1>5. ASSUME \/ Ready \/ Arrive \/ ReceiveNotifierSends \/ ReceiveNotifierAwaits
             \/ SendNotifierSends \/ SendNotifierAwaits \/ Getc
             \/ (\E w \in Writer, n \in 1 .. MaxPuts : Puts(w, n))
             \/ HandleGetc \/ PopEnd \/ HandleReceiveEvent \/ HandleSendEventConsole
             \/ UNCHANGED vars
      PROVE  OutputInv'
  BY <1>1, <1>5 DEF Ready, Arrive, ReceiveNotifierSends, ReceiveNotifierAwaits, SendNotifierSends,
     SendNotifierAwaits, Getc, Puts, HandleGetc, PopEnd, HandleReceiveEvent,
     HandleSendEventConsole, output, vars
<1> QED
  BY <1>2, <1>3, <1>4, <1>5, CharactersTaken DEF Next, ServerStep

-----------------------------------------------------------------------------
(* The places of a ring of n, counted from its front f. *)

\* The place k after the front, which wraps at most once.
LEMMA RingPlace ==
    ASSUME NEW n \in Nat \ {0}, NEW f \in 0 .. n - 1, NEW k \in 0 .. n
    PROVE  /\ (f + k) % n = IF f + k < n THEN f + k ELSE f + k - n
           /\ (f + k) % n \in 0 .. n - 1
<1>1. ASSUME NEW a \in 0 .. n - 1 PROVE a % n = a
  OBVIOUS
<1>2. ASSUME NEW a \in n .. 2 * n - 1 PROVE a % n = a - n
  OBVIOUS
<1>3. CASE f + k < n
  <2>1. f + k \in 0 .. n - 1
    BY <1>3
  <2> QED
    BY <1>1, <1>3, <2>1
<1>4. CASE ~(f + k < n)
  <2>1. f + k \in n .. 2 * n - 1
    BY <1>4
  <2> QED
    BY <1>2, <1>4, <2>1
<1> QED
  BY <1>3, <1>4

\* Two of the n places are different.
LEMMA RingPlacesDiffer ==
    ASSUME NEW n \in Nat \ {0}, NEW f \in 0 .. n - 1, NEW j \in 0 .. n - 1, NEW k \in 0 .. n - 1,
           (f + j) % n = (f + k) % n
    PROVE  j = k
<1>1. /\ (f + j) % n = IF f + j < n THEN f + j ELSE f + j - n
      /\ (f + k) % n = IF f + k < n THEN f + k ELSE f + k - n
  <2>1. j \in 0 .. n /\ k \in 0 .. n
    OBVIOUS
  <2> QED
    BY <2>1, RingPlace
<1> QED
  BY <1>1

\* The places counted from the front's successor.
LEMMA RingNextFront ==
    ASSUME NEW n \in Nat \ {0}, NEW f \in 0 .. n - 1, NEW k \in 0 .. n - 1
    PROVE  /\ (f + 1) % n \in 0 .. n - 1
           /\ (((f + 1) % n) + k) % n = (f + (k + 1)) % n
<1> DEFINE g == (f + 1) % n
<1>1. g = (IF f + 1 < n THEN f + 1 ELSE f + 1 - n) /\ g \in 0 .. n - 1
  <2>1. 1 \in 0 .. n
    OBVIOUS
  <2> QED
    BY <2>1, RingPlace
<1>2. (f + (k + 1)) % n = IF f + (k + 1) < n THEN f + (k + 1) ELSE f + (k + 1) - n
  <2>1. k + 1 \in 0 .. n
    OBVIOUS
  <2> QED
    BY <2>1, RingPlace
<1> HIDE DEF g
<1>3. (g + k) % n = IF g + k < n THEN g + k ELSE g + k - n
  <2>1. k \in 0 .. n /\ g \in 0 .. n - 1
    BY <1>1
  <2> QED
    BY <2>1, RingPlace
<1>4. g = (IF f + 1 < n THEN f + 1 ELSE f + 1 - n)
  BY <1>1
<1>5. (g + k) % n = (f + (k + 1)) % n
  BY <1>2, <1>3, <1>4
<1> QED
  BY <1>1, <1>5 DEF g

-----------------------------------------------------------------------------
(* The ring of received characters. *)

\* The counters of the ring say where its characters are.
RingOK(q) == q.back_ptr = (q.front_ptr + q.len) % MAX_QUEUE_LENGTH

\* push to a ring with room: the fields that change.
LEMMA PushFields ==
    ASSUME NEW B, NEW q \in Ring(B), q.len < MAX_QUEUE_LENGTH, NEW b \in B
    PROVE  /\ push(q, b).len = q.len + 1 /\ push(q, b).front_ptr = q.front_ptr
           /\ push(q, b).back_ptr = (q.back_ptr + 1) % MAX_QUEUE_LENGTH
           /\ push(q, b).que = [q.que EXCEPT ![q.back_ptr] = b]
<1>1. q = [que |-> q.que, front_ptr |-> q.front_ptr, back_ptr |-> q.back_ptr, len |-> q.len]
  BY DEF Ring
<1> QED
  BY <1>1 DEF push

\* The ring keeps its type.
LEMMA PushTyped ==
    ASSUME NEW B, NEW q \in Ring(B), q.len < MAX_QUEUE_LENGTH, NEW b \in B
    PROVE  push(q, b) \in Ring(B) /\ push(q, b).len = q.len + 1
<1>1. /\ MAX_QUEUE_LENGTH \in Nat \ {0}
      /\ q = [que |-> q.que, front_ptr |-> q.front_ptr, back_ptr |-> q.back_ptr, len |-> q.len]
      /\ q.que \in [0 .. MAX_QUEUE_LENGTH - 1 -> B]
      /\ q.front_ptr \in 0 .. MAX_QUEUE_LENGTH - 1 /\ q.back_ptr \in 0 .. MAX_QUEUE_LENGTH - 1
      /\ q.len \in 0 .. MAX_QUEUE_LENGTH
  BY QueueAssumption DEF Ring
<1> DEFINE r == push(q, b)
<1>2. /\ r.len = q.len + 1 /\ r.front_ptr = q.front_ptr
      /\ r.back_ptr = (q.back_ptr + 1) % MAX_QUEUE_LENGTH
      /\ r.que = [q.que EXCEPT ![q.back_ptr] = b]
  BY PushFields
<1>3. r = [que |-> r.que, front_ptr |-> r.front_ptr, back_ptr |-> r.back_ptr, len |-> r.len]
  BY <1>1 DEF push
<1> HIDE DEF r
<1>4. r.que \in [0 .. MAX_QUEUE_LENGTH - 1 -> B] /\ r.len \in 0 .. MAX_QUEUE_LENGTH
  BY <1>1, <1>2
<1>5. r.back_ptr \in 0 .. MAX_QUEUE_LENGTH - 1
  <2>1. 1 \in 0 .. MAX_QUEUE_LENGTH
    BY <1>1
  <2>2. (q.back_ptr + 1) % MAX_QUEUE_LENGTH \in 0 .. MAX_QUEUE_LENGTH - 1
    BY <1>1, <2>1, RingPlace
  <2> QED
    BY <1>2, <2>2
<1>6. r \in Ring(B)
  BY <1>1, <1>2, <1>3, <1>4, <1>5 DEF Ring
<1> QED
  BY <1>2, <1>6 DEF r

\* The character pushed comes after those in the ring, which stay.
LEMMA PushContents ==
    ASSUME NEW B, NEW q \in Ring(B), q.len < MAX_QUEUE_LENGTH, RingOK(q), NEW b \in B
    PROVE  /\ RingOK(push(q, b))
           /\ \A i \in 1 .. q.len : Contents(push(q, b))[i] = Contents(q)[i]
           /\ Contents(push(q, b))[q.len + 1] = b
<1> DEFINE r == push(q, b)
           n == MAX_QUEUE_LENGTH
<1>1. /\ n \in Nat \ {0} /\ q.que \in [0 .. n - 1 -> B]
      /\ q.front_ptr \in 0 .. n - 1 /\ q.back_ptr \in 0 .. n - 1 /\ q.len \in 0 .. n - 1
  BY QueueAssumption DEF Ring
<1>2. /\ r.len = q.len + 1 /\ r.front_ptr = q.front_ptr
      /\ r.back_ptr = (q.back_ptr + 1) % n
      /\ r.que = [q.que EXCEPT ![q.back_ptr] = b]
  BY PushFields
<1> HIDE DEF r, n
<1>3. PICK f \in 0 .. n - 1 : f = q.front_ptr
  BY <1>1
<1>4. PICK l \in 0 .. n - 1 : l = q.len
  BY <1>1
<1>5. q.back_ptr = (f + l) % n
  BY <1>3, <1>4 DEF RingOK, n
<1>6. /\ (f + l) % n = IF f + l < n THEN f + l ELSE f + l - n
      /\ (f + (l + 1)) % n = IF f + (l + 1) < n THEN f + (l + 1) ELSE f + (l + 1) - n
  <2>1. l \in 0 .. n /\ l + 1 \in 0 .. n
    BY <1>1
  <2> QED
    BY <1>1, <2>1, RingPlace
<1>7. (q.back_ptr + 1) % n = IF q.back_ptr + 1 < n THEN q.back_ptr + 1 ELSE q.back_ptr + 1 - n
  <2>1. 1 \in 0 .. n
    BY <1>1
  <2> QED
    BY <1>1, <2>1, RingPlace
<1>8. (q.back_ptr + 1) % n = (f + (l + 1)) % n
  <2>1. q.back_ptr = IF f + l < n THEN f + l ELSE f + l - n
    BY <1>5, <1>6
  <2>2. CASE f + l < n
    <3>1. q.back_ptr = f + l /\ q.back_ptr + 1 = f + (l + 1)
      BY <1>1, <2>1, <2>2
    <3> QED
      BY <3>1
  <2>3. CASE ~(f + l < n)
    <3>1. q.back_ptr = f + l - n /\ q.back_ptr + 1 < n /\ ~(f + (l + 1) < n)
      BY <1>1, <2>1, <2>3
    <3>2. (q.back_ptr + 1) % n = q.back_ptr + 1 /\ (f + (l + 1)) % n = f + (l + 1) - n
      BY <1>6, <1>7, <3>1
    <3> QED
      BY <1>1, <3>1, <3>2
  <2> QED
    BY <2>2, <2>3
<1>9. RingOK(r)
  BY <1>2, <1>3, <1>4, <1>8 DEF RingOK, n
<1>10. ASSUME NEW i \in 1 .. l + 1
       PROVE  /\ Contents(r)[i] = r.que[(f + (i - 1)) % n]
              /\ i \in 1 .. l => Contents(q)[i] = q.que[(f + (i - 1)) % n]
  <2>1. f + i - 1 = f + (i - 1)
    OBVIOUS
  <2> QED
    BY <1>2, <1>3, <1>4, <2>1 DEF Contents, n
<1>11. ASSUME NEW i \in 1 .. l PROVE Contents(r)[i] = Contents(q)[i]
  <2>1. i - 1 \in 0 .. n - 1 /\ i - 1 # l /\ i \in 1 .. l + 1
    BY <1>1
  <2>2. (f + (i - 1)) % n # q.back_ptr
    BY <1>1, <1>5, <2>1, RingPlacesDiffer
  <2>3. (f + (i - 1)) % n \in 0 .. n - 1
    <3>1. i - 1 \in 0 .. n
      BY <1>1, <2>1
    <3> QED
      BY <1>1, <3>1, RingPlace
  <2>4. PICK x \in 0 .. n - 1 : x = (f + (i - 1)) % n
    BY <2>3
  <2>5. r.que[x] = q.que[x]
    BY <1>1, <1>2, <2>2, <2>4
  <2> QED
    BY <1>10, <2>1, <2>4, <2>5
<1>12. Contents(r)[l + 1] = b
  <2>1. l + 1 \in 1 .. l + 1 /\ (l + 1) - 1 = l
    BY <1>1
  <2>2. Contents(r)[l + 1] = r.que[(f + l) % n]
    BY <1>10, <2>1
  <2> QED
    BY <1>1, <1>2, <1>5, <2>2
<1> QED
  BY <1>4, <1>9, <1>11, <1>12 DEF r

\* pop takes the first character and leaves the others.
LEMMA PopContents ==
    ASSUME NEW B, NEW q \in Ring(B), q.len > 0, NEW m \in 0 .. MAX_QUEUE_LENGTH,
           NEW r, r = [popped(q, 1) EXCEPT !.len = m]
    PROVE  /\ r \in Ring(B) /\ r.len = m
           /\ q.que[q.front_ptr] = Contents(q)[1]
           /\ m = q.len - 1 =>
                 /\ RingOK(q) => RingOK(r)
                 /\ \A i \in 1 .. m : Contents(r)[i] = Contents(q)[i + 1]
<1> DEFINE n == MAX_QUEUE_LENGTH
<1>1. /\ n \in Nat \ {0}
      /\ q = [que |-> q.que, front_ptr |-> q.front_ptr, back_ptr |-> q.back_ptr, len |-> q.len]
      /\ q.que \in [0 .. n - 1 -> B]
      /\ q.front_ptr \in 0 .. n - 1 /\ q.back_ptr \in 0 .. n - 1 /\ q.len \in 1 .. n
  BY QueueAssumption DEF Ring
<1>2. /\ r.len = m /\ r.front_ptr = (q.front_ptr + 1) % n /\ r.back_ptr = q.back_ptr
      /\ r.que = q.que
      /\ r = [que |-> r.que, front_ptr |-> r.front_ptr, back_ptr |-> r.back_ptr, len |-> r.len]
  BY <1>1 DEF popped
<1>3. PICK f \in 0 .. n - 1 : f = q.front_ptr
  BY <1>1
<1> HIDE DEF n
<1>4. (f + 1) % n \in 0 .. n - 1
  <2>1. 1 \in 0 .. n
    BY <1>1
  <2> QED
    BY <1>1, <2>1, RingPlace
<1>5. r \in Ring(B)
  BY <1>1, <1>2, <1>3, <1>4 DEF Ring, n
<1>6. q.que[q.front_ptr] = Contents(q)[1]
  <2>1. 1 \in 1 .. q.len /\ f + 1 - 1 = f
    BY <1>1
  <2>2. Contents(q)[1] = q.que[(f + 1 - 1) % n]
    BY <1>3, <2>1 DEF Contents, n
  <2>3. f % n = f
    <3>1. f + 0 = f /\ 0 \in 0 .. n
      BY <1>1
    <3>2. (f + 0) % n = f + 0
      BY <1>1, <3>1, RingPlace
    <3> QED
      BY <3>1, <3>2
  <2> QED
    BY <1>3, <2>1, <2>2, <2>3
<1>7. ASSUME m = q.len - 1, RingOK(q) PROVE RingOK(r)
  <2>1. PICK l \in 0 .. n - 1 : l = q.len - 1
    BY <1>1
  <2>2. (((f + 1) % n) + l) % n = (f + (l + 1)) % n
    BY <1>1, RingNextFront
  <2>3. l + 1 = q.len
    BY <1>1, <2>1
  <2> QED
    BY <1>2, <1>3, <1>7, <2>1, <2>2, <2>3 DEF RingOK, n
<1>8. ASSUME m = q.len - 1, NEW i \in 1 .. m PROVE Contents(r)[i] = Contents(q)[i + 1]
  <2>1. PICK k \in 0 .. n - 1 : k = i - 1
    BY <1>1, <1>8
  <2>2. (((f + 1) % n) + k) % n = (f + (k + 1)) % n
    BY <1>1, RingNextFront
  <2>3. i + 1 \in 1 .. q.len /\ f + (i + 1) - 1 = f + (k + 1)
    BY <1>1, <1>8, <2>1
  <2>4. Contents(q)[i + 1] = q.que[(f + (k + 1)) % n]
    BY <1>3, <2>3 DEF Contents, n
  <2>5. ((f + 1) % n) + i - 1 = ((f + 1) % n) + k
    BY <1>4, <2>1
  <2>6. Contents(r)[i] = q.que[(((f + 1) % n) + k) % n]
    BY <1>2, <1>3, <2>5 DEF Contents, n
  <2> QED
    BY <2>2, <2>4, <2>6
<1> QED
  BY <1>2, <1>5, <1>6, <1>7, <1>8

\* The bytes of the ring are as many as its len says.
LEMMA ContentsLen ==
    ASSUME NEW B, NEW q \in Ring(B)
    PROVE  Len(Contents(q)) = q.len /\ \A i \in 1 .. q.len : Contents(q)[i] \in B
<1> DEFINE n == MAX_QUEUE_LENGTH
<1>1. /\ n \in Nat \ {0} /\ q.len \in 0 .. n /\ q.front_ptr \in 0 .. n - 1
      /\ q.que \in [0 .. n - 1 -> B]
  BY QueueAssumption DEF Ring
<1> HIDE DEF n
<1>2. ASSUME NEW i \in 1 .. q.len PROVE Contents(q)[i] \in B
  <2>1. i - 1 \in 0 .. n /\ q.front_ptr + (i - 1) = q.front_ptr + i - 1
    BY <1>1
  <2>2. (q.front_ptr + i - 1) % n \in 0 .. n - 1
    <3>1. (q.front_ptr + (i - 1)) % n \in 0 .. n - 1
      BY <1>1, <2>1, RingPlace
    <3> QED
      BY <2>1, <3>1
  <2>3. Contents(q)[i] = q.que[(q.front_ptr + i - 1) % n]
    BY DEF Contents, n
  <2> QED
    BY <1>1, <2>2, <2>3
<1>3. DOMAIN Contents(q) = 1 .. q.len
  BY DEF Contents
<1>4. Contents(q) = [i \in 1 .. q.len |-> Contents(q)[i]]
  BY DEF Contents
<1>5. Contents(q) \in [1 .. q.len -> B]
  BY <1>2, <1>4
<1>6. Contents(q) \in Seq(B)
  <2>1. q.len \in Nat
    BY <1>1
  <2> QED
    BY <1>5, <2>1, SeqDef
<1>7. Len(Contents(q)) = q.len
  BY <1>1, <1>3, <1>6, LenProperties
<1> QED
  BY <1>2, <1>7

-----------------------------------------------------------------------------
(* The input. *)

\* As long as no interrupt has come inside a pop: the ring is consistent, it holds the
\* characters that arrived and were neither dropped nor read, in order.
InOrder ==
    /\ taken + receive_q.len + dropped = arrived
    /\ read <= arrived
    /\ server = "pop" => popLen = receive_q.len
    /\ RingOK(receive_q)
    /\ \A i \in 1 .. receive_q.len :
          Contents(receive_q)[i] > read /\ Contents(receive_q)[i] <= arrived
    /\ \A i, j \in 1 .. receive_q.len :
          i < j => Contents(receive_q)[i] < Contents(receive_q)[j]

\* A pop works on a ring that is not empty, and never reads more than has arrived.
InputInv ==
    /\ receive_q \in Ring(0 .. MaxArrived)
    /\ popLen \in 0 .. MAX_QUEUE_LENGTH
    /\ torn \in BOOLEAN
    /\ arrived \in 0 .. MaxArrived /\ read \in 0 .. MaxArrived
    /\ taken \in Nat /\ dropped \in Nat
    /\ taken + receive_q.len + dropped <= arrived
    /\ server = "pop" => popLen > 0 /\ popLen <= receive_q.len
    /\ ~torn => InOrder

\* A character arrives.
LEMMA ArriveKeepsInput == InputInv /\ Arrive => InputInv'
<1> SUFFICES ASSUME InputInv, Arrive PROVE InputInv'
  OBVIOUS
<1> DEFINE n == MAX_QUEUE_LENGTH
           B == 0 .. MaxArrived
<1>1. /\ n \in Nat \ {0} /\ MaxArrived \in Nat \ {0}
      /\ receive_q \in Ring(B) /\ receive_q.len \in 0 .. n /\ arrived \in B
      /\ taken \in Nat /\ dropped \in Nat /\ taken + receive_q.len + dropped <= arrived
      /\ popLen \in 0 .. n /\ read \in B /\ torn \in BOOLEAN
  BY IOAssumption, QueueAssumption DEF InputInv, Ring
<1>2. /\ arrived < MaxArrived /\ arrived' = arrived + 1
      /\ receive_q' = push(receive_q, arrived + 1)
      /\ dropped' = (IF receive_q.len < n THEN dropped ELSE dropped + 1)
      /\ torn' = (torn \/ server = "pop")
      /\ UNCHANGED <<server, popLen, read, taken>>
  BY DEF Arrive
<1>3. arrived + 1 \in B /\ torn' \in BOOLEAN /\ arrived \in Nat /\ read \in Nat
  BY <1>1, <1>2
<1>b. PICK b \in B : b = arrived + 1
  BY <1>3
<1>c. \A c \in B : c \in Nat
  OBVIOUS
<1> HIDE DEF n, B
<1>4. CASE receive_q.len < n
  <2>1. receive_q' \in Ring(B) /\ receive_q'.len = receive_q.len + 1
    <3>a. receive_q.len < MAX_QUEUE_LENGTH
      BY <1>4 DEF n
    <3>1. /\ push(receive_q, b) \in Ring(B)
          /\ push(receive_q, b).len = receive_q.len + 1
      BY <1>1, <3>a, PushTyped
    <3> QED
      BY <1>2, <1>b, <3>1
  <2>2. /\ dropped' = dropped /\ taken' = taken
        /\ taken + receive_q'.len + dropped <= arrived'
    BY <1>1, <1>2, <1>3, <1>4, <2>1
  <2>3. server' = "pop" => popLen' > 0 /\ popLen' <= receive_q'.len
    <3>1. server = "pop" => popLen > 0 /\ popLen <= receive_q.len
      BY DEF InputInv
    <3>2. receive_q.len \in Nat /\ popLen \in Nat
      BY <1>1
    <3> QED
      BY <1>2, <2>1, <3>1, <3>2
  <2>4. ASSUME ~torn' PROVE InOrder'
    <3>1. ~torn /\ InOrder /\ server # "pop"
      BY <1>2, <2>4 DEF InputInv
    <3>2. /\ RingOK(receive_q')
          /\ \A i \in 1 .. receive_q.len : Contents(receive_q')[i] = Contents(receive_q)[i]
          /\ Contents(receive_q')[receive_q.len + 1] = arrived + 1
      <4>1. /\ RingOK(push(receive_q, b))
            /\ \A i \in 1 .. receive_q.len : Contents(push(receive_q, b))[i] = Contents(receive_q)[i]
            /\ Contents(push(receive_q, b))[receive_q.len + 1] = b
        BY <1>1, <1>4, <3>1, PushContents DEF n, InOrder
      <4> QED
        BY <1>2, <1>b, <4>1
    <3>3. PICK l \in Nat : l = receive_q.len
      BY <1>1
    <3>4. /\ \A i \in 1 .. l : Contents(receive_q)[i] > read /\ Contents(receive_q)[i] <= arrived
          /\ \A i, j \in 1 .. l : i < j => Contents(receive_q)[i] < Contents(receive_q)[j]
          /\ \A i \in 1 .. l : Contents(receive_q)[i] \in B
      BY <1>1, <3>1, <3>3, ContentsLen DEF InOrder
    <3>5. \A i \in 1 .. l + 1 :
             Contents(receive_q')[i] > read /\ Contents(receive_q')[i] <= arrived + 1
      <4> TAKE i \in 1 .. l + 1
      <4>1. CASE i = l + 1
        BY <1>3, <3>1, <3>2, <3>3, <4>1 DEF InOrder
      <4>2. CASE i \in 1 .. l
        <5>1. PICK c \in B : c = Contents(receive_q)[i]
          BY <3>4, <4>2
        <5>2. c > read /\ c <= arrived
          BY <3>4, <4>2, <5>1
        <5> QED
          BY <1>3, <1>c, <3>2, <3>3, <4>2, <5>1, <5>2
      <4> QED
        BY <4>1, <4>2
    <3>6. \A i, j \in 1 .. l + 1 :
             i < j => Contents(receive_q')[i] < Contents(receive_q')[j]
      <4> SUFFICES ASSUME NEW i \in 1 .. l + 1, NEW j \in 1 .. l + 1, i < j
                   PROVE  Contents(receive_q')[i] < Contents(receive_q')[j]
        OBVIOUS
      <4>1. i \in 1 .. l
        OBVIOUS
      <4>2. CASE j = l + 1
        <5>1. PICK c \in B : c = Contents(receive_q)[i]
          BY <3>4, <4>1
        <5>2. c <= arrived /\ Contents(receive_q')[i] = c /\ Contents(receive_q')[j] = arrived + 1
          BY <3>2, <3>3, <3>4, <4>1, <4>2, <5>1
        <5> QED
          BY <1>1, <5>2 DEF B
      <4>3. CASE j \in 1 .. l
        BY <3>2, <3>3, <3>4, <4>1, <4>3
      <4> QED
        BY <4>2, <4>3
    <3>7. receive_q'.len = l + 1
      BY <2>1, <3>3
    <3>8. taken' + receive_q'.len + dropped' = arrived' /\ read' <= arrived'
      BY <1>1, <1>2, <1>3, <2>1, <2>2, <3>1 DEF InOrder
    <3> QED
      BY <1>2, <3>1, <3>2, <3>5, <3>6, <3>7, <3>8 DEF InOrder
  <2> QED
    BY <1>1, <1>2, <1>3, <2>1, <2>2, <2>3, <2>4 DEF InputInv, B, n
<1>5. CASE ~(receive_q.len < n)
  <2>1. receive_q' = receive_q /\ dropped' = dropped + 1
    BY <1>2, <1>5 DEF push, n
  <2>2. ASSUME ~torn' PROVE InOrder'
    <3>1. ~torn /\ InOrder /\ server # "pop"
      BY <1>2, <2>2 DEF InputInv
    <3>2. /\ taken' + receive_q'.len + dropped' = arrived' /\ read' <= arrived'
      BY <1>1, <1>2, <1>3, <2>1, <3>1 DEF InOrder
    <3>3. \A i \in 1 .. receive_q'.len : Contents(receive_q')[i] > read /\ Contents(receive_q')[i] <= arrived'
      <4> TAKE i \in 1 .. receive_q'.len
      <4>1. PICK c \in B : c = Contents(receive_q)[i]
        BY <1>1, <2>1, ContentsLen
      <4>2. c > read /\ c <= arrived
        BY <2>1, <3>1, <4>1 DEF InOrder
      <4> QED
        BY <1>1, <1>2, <2>1, <4>1, <4>2 DEF B
    <3> QED
      BY <1>2, <2>1, <3>1, <3>2, <3>3 DEF InOrder
  <2>3. taken' + receive_q'.len + dropped' <= arrived' /\ dropped' \in Nat
    BY <1>1, <1>2, <2>1 DEF B
  <2> QED
    BY <1>1, <1>2, <1>3, <2>1, <2>2, <2>3 DEF InputInv, B, n
<1> QED
  BY <1>4, <1>5

\* The server begins a pop.
LEMMA PopBeginKeepsInput ==
    ASSUME InputInv, CallersInv, server = "loop", PopBegin,
           UNCHANGED <<receive_q, torn, arrived, read, taken, dropped>>
    PROVE  InputInv'
<1>1. receive_q.len \in 0 .. MAX_QUEUE_LENGTH /\ receive_q.len # 0
  BY DEF InputInv, PopBegin, isEmpty, Ring
<1>2. server' = "pop" /\ popLen' = receive_q.len
  BY DEF PopBegin
<1>3. MAX_QUEUE_LENGTH \in Nat
  BY IOAssumption, QueueAssumption
<1>4. popLen' \in 0 .. MAX_QUEUE_LENGTH /\ popLen' > 0 /\ popLen' <= receive_q'.len
  BY <1>1, <1>2, <1>3
<1>5. ~torn' => InOrder'
  BY <1>2 DEF InputInv, InOrder
<1> QED
  BY <1>4, <1>5 DEF InputInv

\* The server ends its pop: the reader gets the first character of the ring.
LEMMA PopEndKeepsInput == InputInv /\ PopEnd => InputInv'
<1> SUFFICES ASSUME InputInv, PopEnd PROVE InputInv'
  OBVIOUS
<1> DEFINE n == MAX_QUEUE_LENGTH
           B == 0 .. MaxArrived
           q == receive_q
<1>1. /\ n \in Nat \ {0} /\ MaxArrived \in Nat \ {0}
      /\ q \in Ring(B) /\ q.len \in 0 .. n /\ arrived \in B
      /\ taken \in Nat /\ dropped \in Nat /\ taken + q.len + dropped <= arrived
      /\ popLen \in 1 .. n /\ popLen <= q.len /\ arrived \in Nat
  <2>1. n \in Nat \ {0} /\ MaxArrived \in Nat \ {0}
    BY IOAssumption, QueueAssumption
  <2>2. /\ q \in Ring(B) /\ arrived \in B /\ taken \in Nat /\ dropped \in Nat
        /\ taken + q.len + dropped <= arrived
        /\ popLen \in 0 .. n /\ popLen > 0 /\ popLen <= q.len
    BY DEF InputInv, PopEnd
  <2>3. q.len \in 0 .. n
    BY <2>2 DEF Ring
  <2>4. popLen \in 1 .. n /\ arrived \in Nat
    BY <2>1, <2>2
  <2> QED
    BY <2>1, <2>2, <2>3, <2>4
<1>2. /\ server = "pop" /\ server' = "loop"
      /\ read' = q.que[q.front_ptr] /\ taken' = taken + 1
      /\ receive_q' = [popped(q, 1) EXCEPT !.len = popLen - 1]
      /\ UNCHANGED <<popLen, arrived, dropped, torn>>
  BY DEF PopEnd, device
<1>3. PICK m \in 0 .. n : m = popLen - 1
  BY <1>1
<1> HIDE DEF n, B
<1>4. /\ receive_q' \in Ring(B) /\ receive_q'.len = m
      /\ q.que[q.front_ptr] = Contents(q)[1]
      /\ m = q.len - 1 =>
            /\ RingOK(q) => RingOK(receive_q')
            /\ \A i \in 1 .. m : Contents(receive_q')[i] = Contents(q)[i + 1]
  <2>1. q.len > 0
    BY <1>1
  <2> HIDE DEF q
  <2>2. PICK r : r = [popped(q, 1) EXCEPT !.len = m]
    OBVIOUS
  <2>3. /\ r \in Ring(B) /\ r.len = m
        /\ q.que[q.front_ptr] = Contents(q)[1]
        /\ m = q.len - 1 =>
              /\ RingOK(q) => RingOK(r)
              /\ \A i \in 1 .. m : Contents(r)[i] = Contents(q)[i + 1]
    BY <1>1, <2>1, <2>2, PopContents DEF n
  <2> QED
    BY <1>2, <1>3, <2>2, <2>3
<1>5. \A i \in 1 .. q.len : Contents(q)[i] \in B
  BY <1>1, ContentsLen
<1>6. read' \in B
  <2>1. 1 \in 1 .. q.len
    BY <1>1
  <2> QED
    BY <1>2, <1>4, <1>5, <2>1
<1>7. taken' \in Nat /\ taken' + receive_q'.len + dropped' <= arrived'
  BY <1>1, <1>2, <1>3, <1>4
<1>8. ASSUME ~torn' PROVE InOrder'
  <2>1. InOrder /\ popLen = q.len
    BY <1>2, <1>8 DEF InputInv, InOrder
  <2>2. /\ m = q.len - 1 /\ RingOK(receive_q')
        /\ \A i \in 1 .. m : Contents(receive_q')[i] = Contents(q)[i + 1]
    BY <1>3, <1>4, <2>1 DEF InOrder
  <2>3. taken' + receive_q'.len + dropped' = arrived'
    BY <1>1, <1>2, <1>3, <1>4, <2>1 DEF InOrder
  <2>4. /\ \A i \in 1 .. q.len : Contents(q)[i] > read /\ Contents(q)[i] <= arrived
        /\ \A i, j \in 1 .. q.len : i < j => Contents(q)[i] < Contents(q)[j]
    BY <2>1 DEF InOrder
  <2>5. 1 \in 1 .. q.len /\ \A i \in 1 .. m : i + 1 \in 1 .. q.len /\ 1 < i + 1
    BY <1>1, <2>2
  <2>6. read' = Contents(q)[1] /\ read' <= arrived'
    BY <1>2, <1>4, <2>4, <2>5
  <2>7. \A i \in 1 .. m : Contents(receive_q')[i] > read' /\ Contents(receive_q')[i] <= arrived'
    <3> TAKE i \in 1 .. m
    <3>1. PICK c \in B : c = Contents(q)[i + 1]
      BY <1>5, <2>5
    <3>2. read' < c /\ c <= arrived
      BY <2>4, <2>5, <2>6, <3>1
    <3> QED
      BY <1>2, <1>6, <2>2, <3>1, <3>2 DEF B
  <2>8. \A i, j \in 1 .. m : i < j => Contents(receive_q')[i] < Contents(receive_q')[j]
    <3> SUFFICES ASSUME NEW i \in 1 .. m, NEW j \in 1 .. m, i < j
                 PROVE  Contents(receive_q')[i] < Contents(receive_q')[j]
      OBVIOUS
    <3>1. i + 1 < j + 1 /\ i + 1 \in 1 .. q.len /\ j + 1 \in 1 .. q.len
      BY <2>5
    <3> QED
      BY <2>2, <2>4, <3>1
  <2> QED
    BY <1>2, <1>4, <2>2, <2>3, <2>6, <2>7, <2>8 DEF InOrder
<1>9. popLen' \in 0 .. MAX_QUEUE_LENGTH
  BY <1>1, <1>2 DEF n
<1> QED
  BY <1>1, <1>2, <1>4, <1>6, <1>7, <1>8, <1>9 DEF InputInv, B

LEMMA InputStep == InputInv /\ CallersInv /\ [Next]_vars => InputInv'
<1> SUFFICES ASSUME InputInv, CallersInv, [Next]_vars PROVE InputInv'
  OBVIOUS
<1>1. ASSUME UNCHANGED <<receive_q, popLen, torn, arrived, read, taken, dropped>>,
             server' = "pop" => server = "pop"
      PROVE  InputInv'
  BY <1>1 DEF InputInv, InOrder
<1>2. CASE HandleGetc
  <2>1. CASE PopBegin
    BY <1>2, <2>1, PopBeginKeepsInput DEF HandleGetc, Handles, device
  <2>2. CASE UNCHANGED <<server, popLen>>
    BY <1>1, <1>2, <2>2 DEF HandleGetc, device
  <2> QED
    BY <1>2, <2>1, <2>2 DEF HandleGetc
<1>3. CASE HandleReceiveEvent
  <2>1. CASE PopBegin
    BY <1>3, <2>1, PopBeginKeepsInput DEF HandleReceiveEvent, Handles, device
  <2>2. CASE UNCHANGED <<server, popLen>>
    BY <1>1, <1>3, <2>2 DEF HandleReceiveEvent, device
  <2> QED
    BY <1>3, <2>1, <2>2 DEF HandleReceiveEvent
<1>4. ASSUME \/ Ready \/ ReceiveNotifierSends \/ ReceiveNotifierAwaits
             \/ SendNotifierSends \/ SendNotifierAwaits
             \/ (\E w \in Writer, n \in 1 .. MaxPuts : Puts(w, n))
             \/ HandlePut \/ HandleSendEventMarklin \/ HandleSendEventConsole
             \/ UNCHANGED vars
      PROVE  InputInv'
  BY <1>1, <1>4 DEF Ready, ReceiveNotifierSends, ReceiveNotifierAwaits, SendNotifierSends,
     SendNotifierAwaits, Puts, HandlePut, HandleSendEventMarklin, HandleSendEventConsole,
     input, device, vars
<1>5. CASE Getc \/ Drain \/ DrainEnd
  BY <1>1, <1>5 DEF Getc, Drain, DrainEnd, input, output, device
<1> QED
  BY <1>2, <1>3, <1>4, <1>5, ArriveKeepsInput, PopEndKeepsInput DEF Next, ServerStep

-----------------------------------------------------------------------------
(* The theorems. *)

LEMMA Initially == Init => CallersInv /\ OutputInv /\ InputInv
<1> SUFFICES ASSUME Init PROVE CallersInv /\ OutputInv /\ InputInv
  OBVIOUS
<1>1. CallersInv
  <2>1. inbox = <<>> /\ inbox \in Seq(Messages) /\ Len(inbox) = 0
    BY EmptySeq DEF Init
  <2>2. OneEach
    BY <2>1 DEF OneEach
  <2> QED
    BY <2>2 DEF Init, CallersInv, TasksOK
<1>2. OutputInv
  <2>1. Run(0, 0) = <<>>
    BY RunIsSeq
  <2> QED
    BY <2>1 DEF Init, OutputInv
<1>3. InputInv
  <2>1. MAX_QUEUE_LENGTH \in Nat \ {0} /\ MaxArrived \in Nat \ {0}
    BY IOAssumption, QueueAssumption
  <2>2. /\ receive_q = new_byte_queue
        /\ popLen = 0 /\ torn = FALSE /\ arrived = 0 /\ read = 0 /\ taken = 0 /\ dropped = 0
        /\ server = "loop"
    BY DEF Init
  <2>3. /\ receive_q \in Ring(0 .. MaxArrived) /\ receive_q.len = 0
        /\ receive_q.front_ptr = 0 /\ receive_q.back_ptr = 0
    BY <2>1, <2>2 DEF new_byte_queue, Ring
  <2>4. RingOK(receive_q)
    <3>1. 0 \in 0 .. MAX_QUEUE_LENGTH - 1 /\ 0 \in 0 .. MAX_QUEUE_LENGTH /\ 0 + 0 < MAX_QUEUE_LENGTH
      BY <2>1
    <3>2. (0 + 0) % MAX_QUEUE_LENGTH = 0 + 0
      BY <2>1, <3>1, RingPlace
    <3> QED
      BY <2>3, <3>2 DEF RingOK
  <2>5. InOrder
    BY <2>2, <2>3, <2>4 DEF InOrder
  <2>6. /\ popLen \in 0 .. MAX_QUEUE_LENGTH /\ torn \in BOOLEAN
        /\ arrived \in 0 .. MaxArrived /\ read \in 0 .. MaxArrived
        /\ taken \in Nat /\ dropped \in Nat
        /\ taken + receive_q.len + dropped <= arrived
    <3>1. torn = FALSE /\ torn \in BOOLEAN
      BY <2>2
    <3>2. taken = 0 /\ receive_q.len = 0 /\ dropped = 0 /\ arrived = 0 /\ popLen = 0 /\ read = 0
      BY <2>2, <2>3
    <3>3. taken + receive_q.len + dropped <= arrived
      BY <3>2
    <3> QED
      BY <2>1, <3>1, <3>2, <3>3
  <2> QED
    BY <2>2, <2>3, <2>5, <2>6 DEF InputInv
<1> QED
  BY <1>1, <1>2, <1>3

\* Whatever the interrupts, notifiers and writers do in between, each line gets the
\* characters in the order in which the server took them, each once, and every task has
\* one message on its way at most (IO_PUTC, IO_PUTS and IO_SEND_EVENT of
\* user/io-server/server.c).
THEOREM Output == Spec => []IOInv
<1> DEFINE LostOK == lostReceive \in BOOLEAN
<1>1. LostOK /\ [Next]_vars => LostOK'
  <2> SUFFICES ASSUME LostOK, [Next]_vars PROVE LostOK'
    OBVIOUS
  <2>1. CASE Arrive
    BY <2>1 DEF Arrive
  <2>2. CASE UNCHANGED lostReceive
    BY <2>2
  <2> QED
    BY <2>1, <2>2 DEF Next, ServerStep, vars, device, Ready, ReceiveNotifierSends,
       ReceiveNotifierAwaits, SendNotifierSends, SendNotifierAwaits, Getc, Puts, HandleGetc,
       PopEnd, HandlePut, HandleReceiveEvent, HandleSendEventMarklin, HandleSendEventConsole,
       Drain, DrainEnd
<1>2. Init => LostOK
  BY DEF Init
<1>3. ASSUME LostOK, TokenInv, CallersInv, OutputInv, InputInv
      PROVE  IOInv
  <2>1. OutputFifo
    BY <1>3 DEF OutputInv, OutputFifo, Run
  <2>2. \A i, j \in 1 .. Len(inbox) : inbox[i] = inbox[j] => i = j
    BY <1>3 DEF CallersInv, OneEach, Same
  <2>3. putc_tasks \in Seq(Nat)
    BY <1>3, RunIsSeq DEF OutputInv
  <2>4. taken \in 0 .. MaxArrived /\ dropped \in 0 .. MaxArrived
    <3>1. /\ taken \in Nat /\ dropped \in Nat /\ receive_q.len \in Nat
          /\ arrived \in Nat /\ arrived <= MaxArrived /\ MaxArrived \in Nat
          /\ taken + receive_q.len + dropped <= arrived
      BY <1>3, IOAssumption, QueueAssumption DEF InputInv, Ring
    <3> QED
      BY <3>1
  <2>5. {clearToSend, getc_tasks, busy, overrun, lostSend, lostReceive, torn} \subseteq BOOLEAN
    BY <1>3 DEF TokenInv, OutputTypeOK, CallersInv, TasksOK, InputInv
  <2>6. TypeOK
    BY <1>3, <2>2, <2>3, <2>4, <2>5 DEF TypeOK, TokenInv, OutputTypeOK, CallersInv, TasksOK,
       OneEach, OutputInv, InputInv
  <2> QED
    BY <2>1, <2>6 DEF IOInv
<1> HIDE DEF LostOK
<1> QED
  BY <1>1, <1>2, <1>3, Initially, TokenInit, TokenStep, CallersStep, OutputStep, InputStep, PTL
  DEF Spec

\* As long as no interrupt comes inside a pop: the reader gets the characters in the order
\* in which they arrived, each once, and none is lost but at a full receive queue (handle_irq,
\* uart_clear_rx and uart_getc_queued).
THEOREM Input == Spec => []InputFifo
<1>1. InputInv => InputFifo
  <2> SUFFICES ASSUME InputInv, ~torn PROVE InputFifo
    BY DEF InputFifo
  <2>1. InOrder /\ receive_q \in Ring(0 .. MaxArrived)
    BY DEF InputInv
  <2>2. Len(Contents(receive_q)) = receive_q.len
    BY <2>1, ContentsLen
  <2> QED
    BY <2>1, <2>2 DEF InOrder, InputFifo
<1> QED
  BY <1>1, Initially, CallersStep, InputStep, PTL DEF Spec

-----------------------------------------------------------------------------
(* The queues of the sensor server. *)

\* The places counted from a place up to n from the front.
LEMMA RingFront ==
    ASSUME NEW n \in Nat \ {0}, NEW f \in 0 .. n - 1, NEW m \in 0 .. n, NEW k \in 0 .. n,
           m + k <= n
    PROVE  /\ (f + m) % n \in 0 .. n - 1
           /\ (((f + m) % n) + k) % n = (f + (m + k)) % n
<1> DEFINE g == (f + m) % n
<1>1. g = (IF f + m < n THEN f + m ELSE f + m - n) /\ g \in 0 .. n - 1
  BY RingPlace
<1>2. (f + (m + k)) % n = IF f + (m + k) < n THEN f + (m + k) ELSE f + (m + k) - n
  <2>1. m + k \in 0 .. n
    OBVIOUS
  <2> QED
    BY <2>1, RingPlace
<1> HIDE DEF g
<1>3. (g + k) % n = IF g + k < n THEN g + k ELSE g + k - n
  BY <1>1, RingPlace
<1>4. (g + k) % n = (f + (m + k)) % n
  <2>1. CASE f + m < n
    <3>1. g + k = f + (m + k)
      BY <1>1, <2>1
    <3> QED
      BY <3>1
  <2>2. CASE ~(f + m < n)
    <3>1. g + k = f + (m + k) - n /\ g + k < n /\ ~(f + (m + k) < n)
      BY <1>1, <2>2
    <3> QED
      BY <1>2, <1>3, <3>1
  <2> QED
    BY <2>1, <2>2
<1> QED
  BY <1>1, <1>4 DEF g

\* The contents are a sequence of bytes.
LEMMA ContentsTyped ==
    ASSUME NEW B, NEW q \in Ring(B)
    PROVE  /\ Contents(q) \in Seq(B) /\ Len(Contents(q)) = q.len
           /\ q.len \in 0 .. MAX_QUEUE_LENGTH
           /\ \A i \in 1 .. q.len : Contents(q)[i] \in B
<1>1. q.len \in 0 .. MAX_QUEUE_LENGTH /\ q.len \in Nat
  BY QueueAssumption DEF Ring
<1>2. Len(Contents(q)) = q.len /\ \A i \in 1 .. q.len : Contents(q)[i] \in B
  BY ContentsLen
<1>3. Contents(q) = [i \in 1 .. q.len |-> Contents(q)[i]]
  BY DEF Contents
<1>4. Contents(q) \in [1 .. q.len -> B]
  BY <1>2, <1>3
<1>5. Contents(q) \in Seq(B)
  BY <1>1, <1>4, SeqDef
<1> QED
  BY <1>1, <1>2, <1>5

\* push appends, if there is room.
LEMMA PushAppends ==
    ASSUME NEW B, NEW q \in Ring(B), RingOK(q), NEW b \in B
    PROVE  /\ push(q, b) \in Ring(B) /\ RingOK(push(q, b))
           /\ Contents(push(q, b)) = IF Len(Contents(q)) < MAX_QUEUE_LENGTH
                                     THEN Append(Contents(q), b) ELSE Contents(q)
<1>1. Contents(q) \in Seq(B) /\ Len(Contents(q)) = q.len /\ q.len \in 0 .. MAX_QUEUE_LENGTH
  BY ContentsTyped
<1>2. CASE q.len < MAX_QUEUE_LENGTH
  <2> DEFINE r == push(q, b)
             c == Contents(q)
             d == Contents(r)
  <2>1. r \in Ring(B) /\ r.len = q.len + 1
    BY <1>2, PushTyped
  <2>2. RingOK(r) /\ (\A i \in 1 .. q.len : d[i] = c[i]) /\ d[q.len + 1] = b
    BY <1>2, PushContents
  <2>3. d \in Seq(B) /\ Len(d) = q.len + 1
    <3>1. d \in Seq(B) /\ Len(d) = r.len
      BY <2>1, ContentsTyped
    <3> QED
      BY <2>1, <3>1
  <2> HIDE DEF c, d
  <2>4. c \in Seq(B) /\ Len(c) = q.len /\ q.len \in Nat
    BY <1>1, QueueAssumption DEF c
  <2>5. /\ Append(c, b) \in Seq(B) /\ Len(Append(c, b)) = q.len + 1
        /\ Append(c, b)[q.len + 1] = b /\ \A i \in 1 .. q.len : Append(c, b)[i] = c[i]
    BY <2>4, AppendProperties
  <2>6. \A i \in 1 .. q.len + 1 : d[i] = Append(c, b)[i]
    <3> TAKE i \in 1 .. q.len + 1
    <3>1. i \in 1 .. q.len \/ i = q.len + 1
      BY <2>4
    <3> QED
      BY <2>2, <2>5, <3>1
  <2>7. d = Append(c, b)
    BY <2>3, <2>5, <2>6, SeqEqual
  <2> QED
    BY <1>1, <1>2, <2>1, <2>2, <2>7 DEF c, d
<1>3. CASE ~(q.len < MAX_QUEUE_LENGTH)
  <2>1. push(q, b) = q
    BY <1>3 DEF push
  <2> QED
    BY <1>1, <1>3, <2>1
<1> QED
  BY <1>2, <1>3

\* m pops leave what is behind the first m.
LEMMA PopsSkip ==
    ASSUME NEW B, NEW q \in Ring(B), RingOK(q), NEW m \in 0 .. q.len
    PROVE  /\ popped(q, m) \in Ring(B) /\ RingOK(popped(q, m))
           /\ popped(q, m).len = q.len - m
           /\ Contents(popped(q, m)) = SubSeq(Contents(q), m + 1, Len(Contents(q)))
<1> DEFINE n == MAX_QUEUE_LENGTH
           r == popped(q, m)
<1>1. /\ n \in Nat \ {0}
      /\ q = [que |-> q.que, front_ptr |-> q.front_ptr, back_ptr |-> q.back_ptr, len |-> q.len]
      /\ q.que \in [0 .. n - 1 -> B]
      /\ q.front_ptr \in 0 .. n - 1 /\ q.back_ptr \in 0 .. n - 1 /\ q.len \in 0 .. n
  BY QueueAssumption DEF Ring
<1>2. /\ r.len = q.len - m /\ r.front_ptr = (q.front_ptr + m) % n /\ r.back_ptr = q.back_ptr
      /\ r.que = q.que
      /\ r = [que |-> r.que, front_ptr |-> r.front_ptr, back_ptr |-> r.back_ptr, len |-> r.len]
  <2>1. PICK a, k : a = (q.front_ptr + m) % n /\ k = q.len - m
    OBVIOUS
  <2>2. r = [que |-> q.que, front_ptr |-> a, back_ptr |-> q.back_ptr, len |-> k]
    <3>1. r = [q EXCEPT !.front_ptr = a, !.len = k]
      BY <2>1 DEF popped
    <3> QED
      BY <1>1, <3>1
  <2> HIDE DEF r
  <2> QED
    BY <2>1, <2>2
<1>3. PICK f \in 0 .. n - 1 : f = q.front_ptr
  BY <1>1
<1>4. PICK l \in 0 .. n : l = q.len
  BY <1>1
<1> HIDE DEF n, r
<1>5. m \in 0 .. n /\ m \in 0 .. l
  BY <1>1, <1>4
<1>6. (f + m) % n \in 0 .. n - 1
  BY <1>1, <1>5, RingPlace
<1>7. r \in Ring(B)
  <2>1. r.len \in 0 .. n
    BY <1>1, <1>2, <1>4, <1>5
  <2> QED
    BY <1>1, <1>2, <1>3, <1>6, <2>1 DEF Ring, n
<1>8. RingOK(r)
  <2>1. PICK k \in 0 .. n : k = l - m
    BY <1>1, <1>5
  <2>2. m + k = l /\ m + k <= n
    BY <1>1, <1>5, <2>1
  <2>3. (((f + m) % n) + k) % n = (f + (m + k)) % n
    BY <1>1, <1>5, <2>2, RingFront
  <2> QED
    BY <1>2, <1>3, <1>4, <2>1, <2>2, <2>3 DEF RingOK, n
<1>9. ASSUME NEW i \in 1 .. l - m PROVE Contents(r)[i] = Contents(q)[i + m]
  <2>1. PICK k \in 0 .. n : k = i - 1
    BY <1>1, <1>5
  <2>2. m + k <= n /\ i + m \in 1 .. l /\ f + (i + m) - 1 = f + (m + k)
    BY <1>1, <1>5, <2>1
  <2>3. (((f + m) % n) + k) % n = (f + (m + k)) % n
    BY <1>1, <1>5, <2>2, RingFront
  <2>4. Contents(q)[i + m] = q.que[(f + (m + k)) % n]
    BY <1>3, <1>4, <2>2 DEF Contents, n
  <2>5. ((f + m) % n) + i - 1 = ((f + m) % n) + k
    BY <1>6, <2>1
  <2>6. Contents(r)[i] = q.que[(((f + m) % n) + k) % n]
    BY <1>2, <1>3, <1>4, <2>5 DEF Contents, n
  <2> QED
    BY <2>3, <2>4, <2>6
<1>10. Contents(q) \in Seq(B) /\ Len(Contents(q)) = l
  BY <1>4, ContentsTyped
<1>11. Contents(r) \in Seq(B) /\ Len(Contents(r)) = l - m
  <2>1. Contents(r) \in Seq(B) /\ Len(Contents(r)) = r.len
    BY <1>7, ContentsTyped
  <2> QED
    BY <1>2, <1>4, <2>1
<1> DEFINE c == Contents(q)
           d == SubSeq(c, m + 1, l)
<1>12. c \in Seq(B) /\ Len(c) = l /\ l \in Nat
  BY <1>10, <1>1
<1>13. \A i \in 1 .. l - m : Contents(r)[i] = c[i + m]
  BY <1>9
<1> HIDE DEF c
<1>14. d \in Seq(B) /\ Len(d) = l - m /\ \A i \in 1 .. l - m : d[i] = c[i + m]
  <2>1. \A i \in m + 1 .. l : c[i] \in B
    BY <1>5, <1>12, ElementOfSeq
  <2>2. Len(d) = l - m /\ d \in Seq(B)
    BY <1>5, <1>12, <2>1
  <2>3. \A i \in 1 .. l - m : d[i] = c[m + 1 + i - 1]
    BY <1>5, <1>12
  <2>4. \A i \in 1 .. l - m : m + 1 + i - 1 = i + m
    BY <1>5
  <2> QED
    BY <2>2, <2>3, <2>4
<1> HIDE DEF d
<1>15. Contents(r) = d
  <2>1. \A i \in 1 .. l - m : Contents(r)[i] = d[i]
    BY <1>13, <1>14
  <2> QED
    BY <1>11, <1>14, <2>1, SeqEqual
<1>16. d = SubSeq(Contents(q), m + 1, Len(Contents(q)))
  BY <1>10 DEF c, d
<1> QED
  BY <1>2, <1>7, <1>8, <1>15, <1>16 DEF r

-----------------------------------------------------------------------------
(* The invariant of the sensor server. *)

Place == 1 .. Len(sensor_requests)

\* Who is in Send to the server: one task at most, whose wait is not buffered yet, and the
\* notifier behind it.  Nobody calls while a report is handled.
Arrivals ==
    /\ \/ senders \in {<<>>, <<Notifier>>}
       \/ \E t \in Task : /\ senders \in {<<t>>, <<t, Notifier>>} /\ waiting[t] # Nothing
                          /\ \A i \in Place : sensor_requests[i].tid # t
    /\ notifier = "read" => senders = <<>> \/ \E t \in Task : senders = <<t>>
    /\ stage # "receive" => senders = <<>> /\ notifier = "reply"

\* A task has one buffered wait at most, the one it is in, and has a queue.
Buffered ==
    /\ \A i, j \in Place : sensor_requests[i].tid = sensor_requests[j].tid => i = j
    /\ \A i \in Place : /\ tid_registered[sensor_requests[i].tid]
                        /\ waiting[sensor_requests[i].tid] = sensor_requests[i].sensor_id

\* Between two messages no buffered wait has a sensor in its queue; when the server walks
\* over them, none of those before the iterator has.
Walked ==
    \A i \in Place : stage = "receive" \/ (stage = "scan" /\ i < it) =>
        isEmpty(tid_sensor_queue[sensor_requests[i].tid])

RingsOK == \A t \in Task : RingOK(tid_sensor_queue[t])

FeedInv == SensorTypeOK /\ Arrivals /\ Buffered /\ Walked /\ RingsOK

\* Short sequences.
LEMMA Tuples ==
    ASSUME NEW x, NEW y, NEW z
    PROVE  /\ Append(<<>>, x) = <<x>> /\ Append(<<x>>, y) = <<x, y>>
           /\ Head(<<x>>) = x /\ Tail(<<x>>) = <<>> /\ Head(<<x, y>>) = x /\ Tail(<<x, y>>) = <<y>>
           /\ <<x>> # <<>> /\ <<x, y>> # <<>> /\ <<x, y>> # <<z>> /\ (<<x>> = <<z>> => x = z)
<1>1. Append(<<>>, x) = <<x>>
  <2>1. <<>> \in Seq({x}) /\ Len(<<>>) = 0 /\ x \in {x}
    OBVIOUS
  <2>2. Append(<<>>, x) \in Seq({x}) /\ Len(Append(<<>>, x)) = 1 /\ Append(<<>>, x)[1] = x
    BY <2>1, AppendProperties
  <2>3. <<x>> \in Seq({x}) /\ Len(<<x>>) = 1 /\ <<x>>[1] = x
    OBVIOUS
  <2> QED
    BY <2>2, <2>3, SeqEqual
<1>2. Append(<<x>>, y) = <<x, y>>
  <2>1. <<x>> \in Seq({x, y}) /\ Len(<<x>>) = 1 /\ y \in {x, y} /\ <<x>>[1] = x
    OBVIOUS
  <2>2. Append(<<x>>, y) \in Seq({x, y}) /\ Len(Append(<<x>>, y)) = 2
    BY <2>1, AppendProperties
  <2>3. Append(<<x>>, y)[1] = x /\ Append(<<x>>, y)[2] = y
    BY <2>1, AppendProperties
  <2>4. <<x, y>> \in Seq({x, y}) /\ Len(<<x, y>>) = 2 /\ <<x, y>>[1] = x /\ <<x, y>>[2] = y
    OBVIOUS
  <2>5. \A i \in 1 .. 2 : Append(<<x>>, y)[i] = <<x, y>>[i]
    BY <2>3, <2>4
  <2> QED
    BY <2>2, <2>4, <2>5, SeqEqual
<1>3. Head(<<x>>) = x /\ Head(<<x, y>>) = x
  OBVIOUS
<1>4. Tail(<<x>>) = <<>>
  OBVIOUS
<1>5. Tail(<<x, y>>) = <<y>>
  OBVIOUS
<1>6. <<x>> # <<>> /\ <<x, y>> # <<>>
  OBVIOUS
<1>7. <<x, y>> # <<z>>
  OBVIOUS
<1>8. <<x>> = <<z>> => x = z
  OBVIOUS
<1> QED
  BY <1>1, <1>2, <1>3, <1>4, <1>5, <1>6, <1>7, <1>8

\* They are sequences of what they list.
LEMMA TuplesTyped ==
    ASSUME NEW T, NEW x \in T, NEW y \in T
    PROVE  /\ <<>> \in Seq(T) /\ <<x>> \in Seq(T) /\ <<x, y>> \in Seq(T)
           /\ Len(<<>>) = 0 /\ Len(<<x>>) = 1 /\ Len(<<x, y>>) = 2
OBVIOUS

\* No number stands for two things.
LEMMA Sensors ==
    /\ Any \notin Sensor /\ Nothing \notin Sensor /\ Any # Nothing
    /\ Cardinality(Task) \in Nat /\ IsFiniteSet(Sensor)
<1>1. Sensor \subseteq Nat
  BY SensorAssumption DEF Sensor
<1>2. Any \notin Nat /\ Nothing \notin Nat /\ Any # Nothing
  BY DEF Any, Nothing
<1>3. Cardinality(Task) \in Nat
  BY FS_CardinalityType, SensorAssumption
<1>4. IsFiniteSet(Sensor)
  BY FS_Interval, SensorAssumption DEF Sensor
<1> QED
  BY <1>1, <1>2, <1>3, <1>4

\* What the notifier lists are sensors.
LEMMA Listed ==
    ASSUME NEW set \in SUBSET Sensor, NEW new \in Triggered(set)
    PROVE  new \in Seq(Sensor)
<1>1. new \in [1 .. Cardinality(set \ sensor_state) -> set \ sensor_state]
  BY DEF Triggered
<1>2. Cardinality(set \ sensor_state) \in Nat
  <2>1. IsFiniteSet(set \ sensor_state)
    BY Sensors, FS_Subset
  <2> QED
    BY <2>1, FS_CardinalityType
<1>3. PICK n \in Nat : n = Cardinality(set \ sensor_state)
  BY <1>2
<1>4. new \in [1 .. n -> Sensor]
  <2>1. set \ sensor_state \subseteq Sensor
    OBVIOUS
  <2>2. PICK S : S = set \ sensor_state
    OBVIOUS
  <2>3. new \in [1 .. n -> S] /\ S \subseteq Sensor
    BY <1>1, <1>3, <2>1, <2>2
  <2> QED
    BY <2>3
<1> QED
  BY <1>4, SeqDef

\* The first of the pops that match.
LEMMA FirstHitIs ==
    ASSUME SensorTypeOK, NEW t \in Task, NEW s, Hits(t, s) # {}
    PROVE  LET q == tid_sensor_queue[t] IN
           /\ FirstHit(t, s) \in Hits(t, s) /\ \A j \in Hits(t, s) : FirstHit(t, s) <= j
           /\ FirstHit(t, s) \in 1 .. q.len
<1> DEFINE q == tid_sensor_queue[t]
           H == Hits(t, s)
<1>1. q \in Ring(Sensor)
  BY DEF SensorTypeOK
<1>2. Len(Contents(q)) = q.len
  BY <1>1, ContentsTyped
<1>3. H \subseteq 1 .. q.len /\ H # {}
  BY <1>2 DEF Hits
<1>4. \E i \in H : \A j \in H : i <= j
  <2> HIDE DEF H
  <2> DEFINE R == {ss \in Nat \X Nat : ss[1] < ss[2]}
  <2>1. IsWellFoundedOn(R, Nat)
    BY NatLessThanWellFounded DEF OpToRel
  <2>2. PICK x \in H : \A y \in H : ~(<<y, x>> \in R)
    <3>1. H \subseteq Nat /\ H # {}
      BY <1>3
    <3> HIDE DEF R
    <3> QED
      BY <2>1, <3>1, WFMin
  <2>3. ASSUME NEW y \in H PROVE x <= y
    <3>1. x \in Nat /\ y \in Nat
      BY <1>3
    <3>2. <<y, x>> \in Nat \X Nat /\ ~(y < x)
      BY <2>2, <3>1
    <3> QED
      BY <3>1, <3>2
  <2> QED
    BY <2>3
<1>5. FirstHit(t, s) \in H /\ \A j \in H : FirstHit(t, s) <= j
  BY <1>4 DEF FirstHit
<1> QED
  BY <1>3, <1>5

\* Unlinking a request leaves the others, in their order.
LEMMA WithoutProperties ==
    ASSUME NEW S, NEW q \in Seq(S), NEW at \in 1 .. Len(q)
    PROVE  /\ Without(q, at) \in Seq(S)
           /\ Len(Without(q, at)) = Len(q) - 1
           /\ \A i \in 1 .. Len(q) - 1 :
                 Without(q, at)[i] = IF i < at THEN q[i] ELSE q[i + 1]
<1> DEFINE a == SubSeq(q, 1, at - 1)
           b == SubSeq(q, at + 1, Len(q))
<1>1. /\ a \in Seq(S) /\ Len(a) = at - 1 /\ \A i \in 1 .. at - 1 : a[i] = q[i]
      /\ b \in Seq(S) /\ Len(b) = Len(q) - at /\ \A i \in 1 .. Len(q) - at : b[i] = q[i + at]
  BY LenProperties, ElementOfSeq
<1>2. Without(q, at) = a \o b
  BY DEF Without
<1> HIDE DEF a, b
<1>3. Len(q) \in Nat /\ Len(a) + Len(b) = Len(q) - 1
  BY <1>1, LenProperties
<1>4. /\ a \o b \in Seq(S) /\ Len(a \o b) = Len(a) + Len(b)
      /\ \A i \in 1 .. Len(a) + Len(b) :
            (a \o b)[i] = IF i <= Len(a) THEN a[i] ELSE b[i - Len(a)]
  BY <1>1, ConcatProperties
<1>5. ASSUME NEW i \in 1 .. Len(q) - 1
      PROVE  (a \o b)[i] = IF i < at THEN q[i] ELSE q[i + 1]
  <2>1. (a \o b)[i] = IF i < at THEN a[i] ELSE b[i - (at - 1)]
    BY <1>1, <1>3, <1>4
  <2>2. i < at => i \in 1 .. at - 1 /\ a[i] = q[i]
    BY <1>1
  <2>3. ~(i < at) => i - (at - 1) \in 1 .. Len(q) - at /\ (i - (at - 1)) + at = i + 1
    BY <1>3
  <2> QED
    BY <1>1, <2>1, <2>2, <2>3
<1> QED
  BY <1>2, <1>3, <1>4, <1>5

-----------------------------------------------------------------------------
(* Every step keeps it. *)

\* What a wait that finds a sensor, or none, does to the queues; the other tasks keep theirs.
LEMMA FoundEffect ==
    ASSUME SensorTypeOK, RingsOK, NEW t \in Task, NEW s, Found(t, s)
    PROVE  /\ tid_sensor_queue' \in [Task -> Ring(Sensor)] /\ RingsOK'
           /\ Contents(tid_sensor_queue'[t])
                  = SubSeq(Contents(tid_sensor_queue[t]), FirstHit(t, s) + 1,
                           Len(Contents(tid_sensor_queue[t])))
           /\ \A u \in Task : u # t => tid_sensor_queue'[u] = tid_sensor_queue[u]
           /\ waiting' \in [Task -> Sensor \cup {Any, Nothing}]
           /\ waiting'[t] = Nothing /\ \A u \in Task : u # t => waiting'[u] = waiting[u]
           /\ triggered' \in [Task -> Sensor \cup {Any}]
<1>1. /\ tid_sensor_queue \in [Task -> Ring(Sensor)]
      /\ waiting \in [Task -> Sensor \cup {Any, Nothing}]
      /\ triggered \in [Task -> Sensor \cup {Any}]
  BY DEF SensorTypeOK
<1>2. PICK q \in Ring(Sensor) : q = tid_sensor_queue[t]
  BY <1>1
<1>3. PICK m : m = FirstHit(t, s)
  OBVIOUS
<1>4. m \in 1 .. q.len
  BY <1>2, <1>3, FirstHitIs DEF Found
<1>5. /\ tid_sensor_queue' = [tid_sensor_queue EXCEPT ![t] = popped(q, m)]
      /\ triggered' = [triggered EXCEPT ![t] = Contents(q)[m]]
      /\ waiting' = [waiting EXCEPT ![t] = Nothing]
  BY <1>2, <1>3 DEF Found
<1>6. RingOK(q)
  BY <1>2 DEF RingsOK
<1>7. m \in 0 .. q.len
  <2>1. q.len \in Nat
    BY QueueAssumption, ContentsTyped
  <2> QED
    BY <1>4, <2>1
<1>8. PICK r \in Ring(Sensor) : /\ r = popped(q, m) /\ RingOK(r)
                                /\ Contents(r) = SubSeq(Contents(q), m + 1, Len(Contents(q)))
  BY <1>6, <1>7, PopsSkip
<1>9. tid_sensor_queue' = [tid_sensor_queue EXCEPT ![t] = r]
  BY <1>5, <1>8
<1>10. /\ tid_sensor_queue' \in [Task -> Ring(Sensor)] /\ tid_sensor_queue'[t] = r
       /\ \A u \in Task : u # t => tid_sensor_queue'[u] = tid_sensor_queue[u]
  BY <1>1, <1>9
<1>11. RingsOK'
  BY <1>8, <1>10 DEF RingsOK
<1>12. /\ waiting' \in [Task -> Sensor \cup {Any, Nothing}] /\ waiting'[t] = Nothing
       /\ \A u \in Task : u # t => waiting'[u] = waiting[u]
  BY <1>1, <1>5
<1>13. triggered' \in [Task -> Sensor \cup {Any}]
  <2>1. PICK x \in Sensor : x = Contents(q)[m]
    BY <1>4, ContentsTyped
  <2>2. triggered' = [triggered EXCEPT ![t] = x]
    BY <1>5, <2>1
  <2> QED
    BY <1>1, <2>2
<1> QED
  BY <1>2, <1>3, <1>8, <1>10, <1>11, <1>12, <1>13

LEMMA NotFoundEffect ==
    ASSUME SensorTypeOK, RingsOK, NEW t \in Task, NEW s, NotFound(t, s)
    PROVE  /\ tid_sensor_queue' \in [Task -> Ring(Sensor)] /\ RingsOK'
           /\ isEmpty(tid_sensor_queue'[t]) /\ Contents(tid_sensor_queue'[t]) = <<>>
           /\ \A u \in Task : u # t => tid_sensor_queue'[u] = tid_sensor_queue[u]
<1>1. tid_sensor_queue \in [Task -> Ring(Sensor)]
  BY DEF SensorTypeOK
<1>2. PICK q \in Ring(Sensor) : q = tid_sensor_queue[t]
  BY <1>1
<1>3. q.len \in Nat
  BY QueueAssumption, ContentsTyped
<1>4. RingOK(q) /\ q.len \in 0 .. q.len
  BY <1>2, <1>3 DEF RingsOK
<1>5. PICK r \in Ring(Sensor) : r = popped(q, q.len) /\ RingOK(r) /\ r.len = q.len - q.len
  BY <1>4, PopsSkip
<1>6. tid_sensor_queue' = [tid_sensor_queue EXCEPT ![t] = r]
  BY <1>2, <1>5 DEF NotFound
<1>7. /\ tid_sensor_queue' \in [Task -> Ring(Sensor)] /\ tid_sensor_queue'[t] = r
      /\ \A u \in Task : u # t => tid_sensor_queue'[u] = tid_sensor_queue[u]
  BY <1>1, <1>6
<1>8. RingsOK'
  BY <1>5, <1>7 DEF RingsOK
<1>9. isEmpty(r)
  BY <1>3, <1>5 DEF isEmpty
<1>10. Contents(r) = <<>>
  <2>1. Contents(r) \in Seq(Sensor) /\ Len(Contents(r)) = 0
    BY <1>9, ContentsTyped DEF isEmpty
  <2> QED
    BY <2>1, EmptySeq
<1> QED
  BY <1>7, <1>8, <1>9, <1>10

\* Who is in Send to the server.
LEMMA SendersAre ==
    ASSUME Arrivals
    PROVE  \/ senders = <<>>
           \/ senders = <<Notifier>> /\ notifier # "read"
           \/ \E t \in Task : /\ senders = <<t>> \/ (senders = <<t, Notifier>> /\ notifier # "read")
                              /\ waiting[t] # Nothing
                              /\ \A i \in Place : sensor_requests[i].tid # t
<1>0. Notifier \notin Task
  BY SensorAssumption
<1>1. CASE senders = <<>>
  BY <1>1
<1>2. CASE senders = <<Notifier>>
  <2>1. senders # <<>> /\ \A t \in Task : senders # <<t>>
    BY <1>0, <1>2, Tuples
  <2> QED
    BY <1>2, <2>1 DEF Arrivals
<1>3. ASSUME NEW t \in Task, senders \in {<<t>>, <<t, Notifier>>}, waiting[t] # Nothing,
             \A i \in Place : sensor_requests[i].tid # t
      PROVE  senders = <<t>> \/ (senders = <<t, Notifier>> /\ notifier # "read")
  <2>1. ASSUME senders = <<t, Notifier>> PROVE notifier # "read"
    <3>1. senders # <<>> /\ \A u \in Task : senders # <<u>>
      BY <2>1, Tuples
    <3> QED
      BY <3>1 DEF Arrivals
  <2> QED
    BY <1>3, <2>1
<1> QED
  BY <1>1, <1>2, <1>3 DEF Arrivals

\* The one that is served, and who is left.
LEMMA NotifierServed ==
    ASSUME Arrivals, senders # <<>>, Head(senders) = Notifier
    PROVE  Tail(senders) = <<>> /\ notifier # "read"
<1>0. Notifier \notin Task
  BY SensorAssumption
<1>1. \A t \in Task : senders # <<t>> /\ senders # <<t, Notifier>>
  BY <1>0, Tuples
<1>2. senders = <<Notifier>> /\ notifier # "read"
  BY <1>1, SendersAre
<1> QED
  BY <1>2, Tuples

LEMMA TaskServed ==
    ASSUME Arrivals, senders # <<>>, NEW t \in Task, Head(senders) = t
    PROVE  /\ Tail(senders) = <<>> \/ (Tail(senders) = <<Notifier>> /\ notifier # "read")
           /\ waiting[t] # Nothing /\ \A i \in Place : sensor_requests[i].tid # t
<1>0. Notifier \notin Task
  BY SensorAssumption
<1>1. senders # <<Notifier>>
  BY <1>0, Tuples
<1>2. PICK u \in Task : /\ senders = <<u>> \/ (senders = <<u, Notifier>> /\ notifier # "read")
                        /\ waiting[u] # Nothing /\ \A i \in Place : sensor_requests[i].tid # u
  BY <1>1, SendersAre
<1>3. u = t
  BY <1>2, Tuples
<1>4. Tail(senders) = <<>> \/ (Tail(senders) = <<Notifier>> /\ notifier # "read")
  <2>1. CASE senders = <<u>>
    BY <2>1, Tuples
  <2>2. CASE senders = <<u, Notifier>> /\ notifier # "read"
    BY <2>2, Tuples
  <2> QED
    BY <1>2, <2>1, <2>2
<1> QED
  BY <1>2, <1>3, <1>4

\* A buffered wait is of a task, for a sensor or any.
LEMMA RequestTyped ==
    ASSUME SensorTypeOK, NEW i \in Place
    PROVE  sensor_requests[i].tid \in Task /\ sensor_requests[i].sensor_id \in Sensor \cup {Any}
<1> DEFINE R == [tid : Task, sensor_id : Sensor \cup {Any}]
<1>1. sensor_requests \in Seq(R) /\ i \in 1 .. Len(sensor_requests)
  BY DEF SensorTypeOK, Place
<1>2. sensor_requests[i] \in R
  <2> HIDE DEF R
  <2> QED
    BY <1>1, ElementOfSeq
<1> QED
  BY <1>2

LEMMA ReadByteKeeps ==
    ASSUME FeedInv, NEW set \in SUBSET Sensor, ReadByte(set)
    PROVE  FeedInv'
<1>0. PICK new \in Triggered(set) : ReadByte(set)!(new)
  BY DEF ReadByte
<1>1. PICK list :
        /\ list = triggered_list \o new
        /\ notifier = "read"
        /\ Len(list) < MAX_TRIGGERED /\ reported + Len(list) <= MaxFeed
        /\ sensor_state' = {s \in sensor_state : s \div Bits # byte} \cup set
        /\ byte' = (byte + 1) % BYTE_COUNT
        /\ triggered_list' = list
        /\ \/ /\ notifier' = "reply" /\ senders' = Append(senders, Notifier)
              /\ reported' = reported + Len(list)
           \/ UNCHANGED <<notifier, senders, reported>>
        /\ UNCHANGED <<stage, report, sensor_requests, it, queues, tasks>>
  BY <1>0
<1>2. list \in Seq(Sensor) /\ Len(list) \in Nat
  <2>1. new \in Seq(Sensor)
    BY Listed
  <2>2. triggered_list \in Seq(Sensor)
    BY DEF FeedInv, SensorTypeOK
  <2>3. list \in Seq(Sensor)
    BY <1>1, <2>1, <2>2, ConcatProperties
  <2> QED
    BY <2>3, LenProperties
<1>3. byte' \in 0 .. BYTE_COUNT - 1
  <2>1. BYTE_COUNT \in Nat \ {0} /\ byte \in 0 .. BYTE_COUNT - 1 /\ 1 \in 0 .. BYTE_COUNT
    BY SensorAssumption DEF FeedInv, SensorTypeOK
  <2> QED
    BY <1>1, <2>1, RingPlace
<1>4. sensor_state' \subseteq Sensor
  BY <1>1 DEF FeedInv, SensorTypeOK
<1>5. reported' \in 0 .. MaxFeed
  <2>1. reported \in 0 .. MaxFeed /\ MaxFeed \in Nat
    BY SensorAssumption DEF FeedInv, SensorTypeOK
  <2> QED
    BY <1>1, <1>2, <2>1
<1>6. /\ senders = <<>> \/ \E t \in Task : /\ senders = <<t>> /\ waiting[t] # Nothing
                                           /\ \A i \in Place : sensor_requests[i].tid # t
      /\ stage = "receive"
  <2>1. senders = <<>> \/ \E t \in Task : /\ senders = <<t>> /\ waiting[t] # Nothing
                                           /\ \A i \in Place : sensor_requests[i].tid # t
    BY <1>1, SendersAre DEF FeedInv
  <2>2. stage = "receive"
    BY <1>1 DEF FeedInv, Arrivals
  <2> QED
    BY <2>1, <2>2
<1>7. waiting' = waiting /\ sensor_requests' = sensor_requests /\ Place' = Place
      /\ tid_sensor_queue' = tid_sensor_queue /\ tid_registered' = tid_registered
      /\ triggered' = triggered /\ stage' = stage /\ it' = it /\ report' = report
  BY <1>1 DEF queues, tasks, Place
<1>8. CASE UNCHANGED <<notifier, senders, reported>>
  <2>1. Arrivals'
    BY <1>7, <1>8 DEF Arrivals, FeedInv
  <2>2. SensorTypeOK'
    BY <1>1, <1>2, <1>3, <1>4, <1>5, <1>7, <1>8 DEF SensorTypeOK, FeedInv
  <2> QED
    BY <1>7, <2>1, <2>2 DEF FeedInv, Buffered, Walked, RingsOK
<1>9. CASE notifier' = "reply" /\ senders' = Append(senders, Notifier)
  <2>1. \/ senders' = <<Notifier>>
        \/ \E t \in Task : /\ senders' = <<t, Notifier>> /\ waiting[t] # Nothing
                           /\ \A i \in Place : sensor_requests[i].tid # t
    <3>1. CASE senders = <<>>
      BY <1>9, <3>1, Tuples
    <3>2. ASSUME NEW t \in Task, senders = <<t>>
          PROVE  senders' = <<t, Notifier>>
      BY <1>9, <3>2, Tuples
    <3> QED
      BY <1>6, <3>1, <3>2
  <2>2. senders' \in Seq(Task \cup {Notifier}) /\ Len(senders') <= 2
    <3>1. CASE senders' = <<Notifier>>
      BY <3>1, Notifier \in Task \cup {Notifier}, TuplesTyped
    <3>2. ASSUME NEW t \in Task, senders' = <<t, Notifier>>
          PROVE  senders' \in Seq(Task \cup {Notifier}) /\ Len(senders') <= 2
      BY <3>2, t \in Task \cup {Notifier}, Notifier \in Task \cup {Notifier}, TuplesTyped
    <3> QED
      BY <2>1, <3>1, <3>2
  <2>3. Arrivals'
    BY <1>6, <1>7, <1>9, <2>1 DEF Arrivals
  <2>4. SensorTypeOK'
    BY <1>1, <1>2, <1>3, <1>4, <1>5, <1>7, <1>9, <2>2 DEF SensorTypeOK, FeedInv
  <2> QED
    BY <1>7, <2>3, <2>4 DEF FeedInv, Buffered, Walked, RingsOK
<1> QED
  BY <1>1, <1>8, <1>9

LEMMA WaitKeeps ==
    ASSUME FeedInv, NEW t \in Task, NEW s \in Sensor \cup {Any}, WaitOnSensor(t, s)
    PROVE  FeedInv'
<1>1. /\ stage = "receive" /\ senders = <<>> /\ waiting[t] = Nothing
      /\ waiting' = [waiting EXCEPT ![t] = s] /\ senders' = <<t>>
      /\ Place' = Place
      /\ UNCHANGED <<sensor_state, byte, triggered_list, reported, notifier, stage, report,
                     sensor_requests, it, tid_sensor_queue, tid_registered, triggered>>
  BY Tuples DEF WaitOnSensor, notifierVars, queues, Place
<1>2. waiting \in [Task -> Sensor \cup {Any, Nothing}]
  BY DEF FeedInv, SensorTypeOK
<1>3. /\ waiting' \in [Task -> Sensor \cup {Any, Nothing}] /\ waiting'[t] = s
      /\ \A u \in Task : u # t => waiting'[u] = waiting[u]
  BY <1>1, <1>2
<1>4. s # Nothing
  BY Sensors
<1>5. \A i \in Place : /\ sensor_requests[i].tid \in Task
                       /\ sensor_requests[i].sensor_id \in Sensor \cup {Any}
  BY RequestTyped DEF FeedInv
<1>6. \A i \in Place : sensor_requests[i].tid # t
  BY <1>1, <1>5, Sensors DEF FeedInv, Buffered
<1>7. senders' \in Seq(Task \cup {Notifier}) /\ Len(senders') <= 2
  BY <1>1, t \in Task \cup {Notifier}, TuplesTyped
<1>8. Arrivals'
  BY <1>1, <1>3, <1>4, <1>6 DEF Arrivals
<1>9. Buffered'
  BY <1>1, <1>3, <1>5, <1>6 DEF FeedInv, Buffered
<1>10. SensorTypeOK'
  BY <1>1, <1>3, <1>7 DEF FeedInv, SensorTypeOK
<1> QED
  BY <1>1, <1>8, <1>9, <1>10 DEF FeedInv, Walked, RingsOK

LEMMA ReceiveKeeps ==
    ASSUME FeedInv, ReceiveTriggered
    PROVE  FeedInv'
<1>1. /\ stage' = "push" /\ report' = triggered_list /\ senders' = <<>> /\ notifier # "read"
      /\ Place' = Place
      /\ UNCHANGED <<sensor_state, byte, triggered_list, reported, notifier, sensor_requests, it,
                     tid_sensor_queue, tid_registered, waiting, triggered>>
  BY NotifierServed DEF FeedInv, ReceiveTriggered, notifierVars, queues, tasks, Place
<1>2. notifier = "reply"
  BY <1>1 DEF FeedInv, SensorTypeOK
<1>3. senders' \in Seq(Task \cup {Notifier}) /\ Len(senders') <= 2
  BY <1>1, Notifier \in Task \cup {Notifier}, TuplesTyped
<1>4. SensorTypeOK'
  BY <1>1, <1>3 DEF FeedInv, SensorTypeOK
<1> QED
  BY <1>1, <1>2, <1>4 DEF FeedInv, Arrivals, Buffered, Walked, RingsOK

\* A push gives the sensor to every task that has a queue.
LEMMA PushEffect ==
    ASSUME FeedInv, PushSensor
    PROVE  /\ tid_sensor_queue' \in [Task -> Ring(Sensor)] /\ RingsOK'
           /\ Head(report) \in Sensor
           /\ \A t \in Task : Contents(tid_sensor_queue'[t]) =
                  IF tid_registered[t] /\ Len(Contents(tid_sensor_queue[t])) < MAX_QUEUE_LENGTH
                  THEN Append(Contents(tid_sensor_queue[t]), Head(report))
                  ELSE Contents(tid_sensor_queue[t])
<1>1. /\ report \in Seq(Sensor) /\ report # <<>>
      /\ tid_sensor_queue \in [Task -> Ring(Sensor)] /\ tid_registered \in [Task -> BOOLEAN]
  BY DEF FeedInv, SensorTypeOK, PushSensor
<1>2. PICK s \in Sensor : s = Head(report)
  BY <1>1, HeadTailProperties
<1>3. tid_sensor_queue' = [t \in Task |-> IF tid_registered[t]
                              THEN push(tid_sensor_queue[t], s) ELSE tid_sensor_queue[t]]
  BY <1>2 DEF PushSensor
<1>4. ASSUME NEW t \in Task
      PROVE  /\ tid_sensor_queue'[t] \in Ring(Sensor) /\ RingOK(tid_sensor_queue'[t])
             /\ Contents(tid_sensor_queue'[t]) =
                  IF tid_registered[t] /\ Len(Contents(tid_sensor_queue[t])) < MAX_QUEUE_LENGTH
                  THEN Append(Contents(tid_sensor_queue[t]), s)
                  ELSE Contents(tid_sensor_queue[t])
  <2>1. PICK q \in Ring(Sensor) : q = tid_sensor_queue[t] /\ RingOK(q)
    BY <1>1 DEF FeedInv, RingsOK
  <2>2. CASE tid_registered[t]
    <3>1. tid_sensor_queue'[t] = push(q, s)
      BY <1>3, <2>1, <2>2
    <3>2. /\ push(q, s) \in Ring(Sensor) /\ RingOK(push(q, s))
          /\ Contents(push(q, s)) = IF Len(Contents(q)) < MAX_QUEUE_LENGTH
                                    THEN Append(Contents(q), s) ELSE Contents(q)
      BY <2>1, PushAppends
    <3> QED
      BY <2>1, <2>2, <3>1, <3>2
  <2>3. CASE ~tid_registered[t]
    BY <1>3, <2>1, <2>3
  <2> QED
    BY <2>2, <2>3
<1>5. tid_sensor_queue' \in [Task -> Ring(Sensor)]
  <2>1. PICK Q : Q = tid_sensor_queue'
    OBVIOUS
  <2>2. Q = [t \in Task |-> Q[t]]
    BY <1>3, <2>1
  <2>3. \A t \in Task : Q[t] \in Ring(Sensor)
    BY <1>4, <2>1
  <2> QED
    BY <2>1, <2>2, <2>3
<1> QED
  BY <1>2, <1>4, <1>5 DEF RingsOK

LEMMA PushKeeps ==
    ASSUME FeedInv, PushSensor
    PROVE  FeedInv'
<1>1. /\ stage = "push" /\ report # <<>> /\ report' = Tail(report) /\ Place' = Place
      /\ UNCHANGED <<sensor_state, byte, triggered_list, reported, notifier, stage, senders,
                     sensor_requests, it, tid_registered, waiting, triggered>>
  BY DEF PushSensor, notifierVars, tasks, Place
<1>2. report' \in Seq(Sensor)
  BY <1>1, HeadTailProperties DEF FeedInv, SensorTypeOK
<1>3. tid_sensor_queue' \in [Task -> Ring(Sensor)] /\ RingsOK'
  BY PushEffect
<1>4. SensorTypeOK'
  BY <1>1, <1>2, <1>3 DEF FeedInv, SensorTypeOK
<1> QED
  BY <1>1, <1>3, <1>4 DEF FeedInv, Arrivals, Buffered, Walked

LEMMA PushEndKeeps ==
    ASSUME FeedInv, PushEnd
    PROVE  FeedInv'
<1>1. /\ stage = "push" /\ stage' = "scan" /\ it' = 1 /\ Place' = Place
      /\ UNCHANGED <<sensor_state, byte, triggered_list, reported, notifier, senders, report,
                     sensor_requests, tid_sensor_queue, tid_registered, waiting, triggered>>
  BY DEF PushEnd, notifierVars, queues, tasks, Place
<1>2. it' \in 1 .. Cardinality(Task) + 1
  BY <1>1, Sensors
<1>3. SensorTypeOK'
  BY <1>1, <1>2 DEF FeedInv, SensorTypeOK
<1>4. Walked'
  <2>1. \A i \in Place : ~(i < 1)
    BY DEF Place
  <2> QED
    BY <1>1, <2>1 DEF Walked
<1> QED
  BY <1>1, <1>3, <1>4 DEF FeedInv, Arrivals, Buffered, RingsOK

LEMMA ScanEndKeeps ==
    ASSUME FeedInv, ScanEnd
    PROVE  FeedInv'
<1>1. /\ stage = "scan" /\ it > Len(sensor_requests) /\ stage' = "receive"
      /\ notifier' = "read" /\ triggered_list' = <<>> /\ Place' = Place
      /\ UNCHANGED <<sensor_state, byte, reported, senders, report, sensor_requests, it,
                     tid_sensor_queue, tid_registered, waiting, triggered>>
  BY DEF ScanEnd, queues, tasks, Place
<1>2. senders = <<>>
  BY <1>1 DEF FeedInv, Arrivals
<1>3. triggered_list' \in Seq(Sensor) /\ Len(triggered_list') < MAX_TRIGGERED
  <2>1. triggered_list' \in Seq(Sensor) /\ Len(triggered_list') = 0
    BY <1>1, EmptySeq
  <2> QED
    BY <2>1, SensorAssumption
<1>4. SensorTypeOK'
  BY <1>1, <1>3 DEF FeedInv, SensorTypeOK
<1>5. Walked'
  <2>1. \A i \in Place : i < it
    <3>1. Len(sensor_requests) \in Nat /\ it \in Nat
      BY LenProperties, Sensors DEF FeedInv, SensorTypeOK
    <3> QED
      BY <1>1, <3>1 DEF Place
  <2> QED
    BY <1>1, <2>1 DEF FeedInv, Walked
<1> QED
  BY <1>1, <1>2, <1>4, <1>5 DEF FeedInv, Arrivals, Buffered, RingsOK

\* No more waits are buffered than there are tasks.
LEMMA RequestsFit ==
    ASSUME NEW S, IsFiniteSet(S), NEW n \in Nat, NEW f,
           \A i \in 1 .. n : f[i] \in S,
           \A i, j \in 1 .. n : f[i] = f[j] => i = j
    PROVE  n <= Cardinality(S)
<1> DEFINE g == [i \in 1 .. n |-> f[i]]
<1>1. g \in Injection(1 .. n, S)
  BY DEF Injection, IsInjective
<1>2. Cardinality(1 .. n) <= Cardinality(S)
  <2> HIDE DEF g
  <2> QED
    BY <1>1, FS_Injection
<1>3. Cardinality(1 .. n) = n
  BY FS_Interval
<1> QED
  BY <1>2, <1>3

LEMMA ScanFoundKeeps ==
    ASSUME FeedInv, ScanFound
    PROVE  FeedInv'
<1> DEFINE R == [tid : Task, sensor_id : Sensor \cup {Any}]
           n == Len(sensor_requests)
           was(i) == IF i < it THEN i ELSE i + 1
<1>1. sensor_requests \in Seq(R) /\ it \in Nat \ {0} /\ n \in Nat
  BY LenProperties, Sensors DEF FeedInv, SensorTypeOK
<1>2. /\ stage = "scan" /\ it \in Place
      /\ Found(sensor_requests[it].tid, sensor_requests[it].sensor_id)
      /\ sensor_requests' = Without(sensor_requests, it)
      /\ UNCHANGED <<sensor_state, byte, triggered_list, reported, notifier, stage, senders,
                     report, it, tid_registered>>
  BY <1>1 DEF ScanFound, notifierVars, Place
<1>3. /\ sensor_requests' \in Seq(R) /\ Len(sensor_requests') = n - 1
      /\ \A i \in 1 .. n - 1 : sensor_requests'[i] = sensor_requests[was(i)]
  <2> HIDE DEF R
  <2> QED
    BY <1>1, <1>2, WithoutProperties DEF Place
<1>4. ASSUME NEW i \in Place'
      PROVE  was(i) \in Place /\ was(i) # it /\ sensor_requests'[i] = sensor_requests[was(i)]
  <2>1. i \in 1 .. n - 1
    BY <1>3, <1>4 DEF Place
  <2> QED
    BY <1>1, <1>3, <2>1 DEF Place
<1>5. ASSUME NEW i \in Place', NEW j \in Place', was(i) = was(j) PROVE i = j
  <2>1. i \in 1 .. n - 1 /\ j \in 1 .. n - 1
    BY <1>3, <1>5 DEF Place
  <2> QED
    BY <1>1, <1>5, <2>1
<1>6. PICK t \in Task : t = sensor_requests[it].tid
  BY <1>2, RequestTyped DEF FeedInv
<1>7. \A i \in Place' : sensor_requests'[i].tid \in Task \ {t}
  <2> TAKE i \in Place'
  <2>1. sensor_requests[was(i)].tid # t
    BY <1>2, <1>4, <1>6 DEF FeedInv, Buffered
  <2>2. sensor_requests[was(i)].tid \in Task
    BY <1>4, RequestTyped DEF FeedInv
  <2> QED
    BY <1>4, <2>1, <2>2
<1>8. /\ tid_sensor_queue' \in [Task -> Ring(Sensor)] /\ RingsOK'
      /\ \A u \in Task : u # t => tid_sensor_queue'[u] = tid_sensor_queue[u]
      /\ waiting' \in [Task -> Sensor \cup {Any, Nothing}]
      /\ waiting'[t] = Nothing /\ \A u \in Task : u # t => waiting'[u] = waiting[u]
      /\ triggered' \in [Task -> Sensor \cup {Any}]
  BY <1>2, <1>6, FoundEffect DEF FeedInv
<1> HIDE DEF was
<1>9. Buffered'
  <2>1. ASSUME NEW i \in Place', NEW j \in Place',
               sensor_requests'[i].tid = sensor_requests'[j].tid
        PROVE  i = j
    <3>1. sensor_requests[was(i)].tid = sensor_requests[was(j)].tid
      BY <1>4, <2>1
    <3>2. was(i) = was(j)
      BY <1>4, <3>1 DEF FeedInv, Buffered
    <3> QED
      BY <1>5, <3>2
  <2>2. ASSUME NEW i \in Place'
        PROVE  /\ tid_registered'[sensor_requests'[i].tid]
               /\ waiting'[sensor_requests'[i].tid] = sensor_requests'[i].sensor_id
    <3>1. /\ tid_registered[sensor_requests[was(i)].tid]
          /\ waiting[sensor_requests[was(i)].tid] = sensor_requests[was(i)].sensor_id
      BY <1>4 DEF FeedInv, Buffered
    <3>2. sensor_requests'[i] = sensor_requests[was(i)] /\ sensor_requests'[i].tid \in Task \ {t}
      BY <1>4, <1>7
    <3> QED
      BY <1>2, <1>8, <3>1, <3>2
  <2> QED
    BY <2>1, <2>2 DEF Buffered
<1>10. Walked'
  <2> SUFFICES ASSUME NEW i \in Place', i < it
               PROVE  isEmpty(tid_sensor_queue'[sensor_requests'[i].tid])
    BY <1>2 DEF Walked
  <2>1. was(i) = i
    BY DEF was
  <2>2. isEmpty(tid_sensor_queue[sensor_requests[i].tid])
    BY <1>2, <1>4, <2>1 DEF FeedInv, Walked
  <2> QED
    BY <1>4, <1>7, <1>8, <2>1, <2>2
<1>11. Arrivals'
  BY <1>2 DEF FeedInv, Arrivals
<1>12. SensorTypeOK'
  <2>1. Len(sensor_requests') <= Cardinality(Task)
    BY <1>1, <1>3, Sensors DEF FeedInv, SensorTypeOK
  <2> QED
    BY <1>2, <1>3, <1>8, <2>1 DEF FeedInv, SensorTypeOK
<1> QED
  BY <1>8, <1>9, <1>10, <1>11, <1>12 DEF FeedInv

LEMMA ScanNotFoundKeeps ==
    ASSUME FeedInv, ScanNotFound
    PROVE  FeedInv'
<1>1. /\ stage = "scan" /\ it \in Place /\ it \in Nat /\ it' = it + 1
      /\ Len(sensor_requests) \in Nat
  BY LenProperties, Sensors DEF FeedInv, SensorTypeOK, ScanNotFound, Place
<1>2. /\ NotFound(sensor_requests[it].tid, sensor_requests[it].sensor_id) /\ Place' = Place
      /\ UNCHANGED <<sensor_state, byte, triggered_list, reported, notifier, stage, senders,
                     report, sensor_requests, tid_registered, waiting, triggered>>
  BY DEF ScanNotFound, NotFound, notifierVars, tasks, Place
<1>3. PICK t \in Task : t = sensor_requests[it].tid
  BY <1>1, RequestTyped DEF FeedInv
<1>4. /\ tid_sensor_queue' \in [Task -> Ring(Sensor)] /\ RingsOK' /\ isEmpty(tid_sensor_queue'[t])
      /\ \A u \in Task : u # t => tid_sensor_queue'[u] = tid_sensor_queue[u]
  BY <1>2, <1>3, NotFoundEffect DEF FeedInv
<1>5. Walked'
  <2> SUFFICES ASSUME NEW i \in Place, i < it + 1
               PROVE  isEmpty(tid_sensor_queue'[sensor_requests[i].tid])
    BY <1>1, <1>2 DEF Walked
  <2>1. CASE i = it
    BY <1>3, <1>4, <2>1
  <2>2. CASE i # it
    <3>1. i < it
      BY <1>1, <2>2 DEF Place
    <3>2. isEmpty(tid_sensor_queue[sensor_requests[i].tid])
      BY <1>1, <3>1 DEF FeedInv, Walked
    <3>3. sensor_requests[i].tid \in Task
      BY RequestTyped DEF FeedInv
    <3>4. sensor_requests[i].tid # t
      BY <1>1, <1>3, <2>2 DEF FeedInv, Buffered
    <3> QED
      BY <1>4, <3>2, <3>3, <3>4
  <2> QED
    BY <2>1, <2>2
<1>6. it' \in 1 .. Cardinality(Task) + 1
  BY <1>1, Sensors DEF Place, FeedInv, SensorTypeOK
<1>7. SensorTypeOK'
  BY <1>2, <1>4, <1>6 DEF FeedInv, SensorTypeOK
<1> QED
  BY <1>2, <1>4, <1>5, <1>7 DEF FeedInv, Arrivals, Buffered

LEMMA HandleWaitingKeeps ==
    ASSUME FeedInv, NEW t \in Task, HandleWaiting(t)
    PROVE  FeedInv'
<1>1. /\ stage = "receive" /\ senders # <<>> /\ Head(senders) = t /\ senders' = Tail(senders)
      /\ UNCHANGED <<sensor_state, byte, triggered_list, reported, notifier, stage, report, it>>
  BY DEF HandleWaiting, notifierVars
<1>2. /\ senders' = <<>> \/ (senders' = <<Notifier>> /\ notifier # "read")
      /\ waiting[t] # Nothing /\ \A i \in Place : sensor_requests[i].tid # t
  BY <1>1, TaskServed DEF FeedInv
<1>3. Arrivals'
  <2>1. notifier' # "read" \/ senders' = <<>>
    BY <1>1, <1>2
  <2> QED
    BY <1>1, <1>2, <2>1 DEF Arrivals
<1>4. senders' \in Seq(Task \cup {Notifier}) /\ Len(senders') <= 2
  <2>1. Notifier \in Task \cup {Notifier}
    OBVIOUS
  <2>2. CASE senders' = <<>>
    BY <2>1, <2>2, TuplesTyped
  <2>3. CASE senders' = <<Notifier>>
    BY <2>1, <2>3, TuplesTyped
  <2> QED
    BY <1>2, <2>2, <2>3
<1>5. CASE Found(t, waiting[t]) /\ UNCHANGED <<tid_registered, sensor_requests>>
  <2>1. /\ tid_sensor_queue' \in [Task -> Ring(Sensor)] /\ RingsOK'
        /\ \A u \in Task : u # t => tid_sensor_queue'[u] = tid_sensor_queue[u]
        /\ waiting' \in [Task -> Sensor \cup {Any, Nothing}]
        /\ \A u \in Task : u # t => waiting'[u] = waiting[u]
        /\ triggered' \in [Task -> Sensor \cup {Any}]
    BY <1>5, FoundEffect DEF FeedInv
  <2>2. Place' = Place /\ \A i \in Place : sensor_requests[i].tid \in Task \ {t}
    BY <1>2, <1>5, RequestTyped DEF FeedInv, Place
  <2>3. Buffered' /\ Walked'
    <3>1. Buffered'
      BY <1>5, <2>1, <2>2 DEF FeedInv, Buffered
    <3>2. Walked'
      BY <1>1, <1>5, <2>1, <2>2 DEF FeedInv, Walked
    <3> QED
      BY <3>1, <3>2
  <2>4. SensorTypeOK'
    BY <1>1, <1>4, <1>5, <2>1 DEF FeedInv, SensorTypeOK
  <2> QED
    BY <1>3, <2>1, <2>3, <2>4 DEF FeedInv
<1>6. CASE /\ NotFound(t, waiting[t])
           /\ tid_registered' = [tid_registered EXCEPT ![t] = TRUE]
           /\ sensor_requests' = Append(sensor_requests, [tid |-> t, sensor_id |-> waiting[t]])
  <2> DEFINE R == [tid : Task, sensor_id : Sensor \cup {Any}]
             n == Len(sensor_requests)
             r == [tid |-> t, sensor_id |-> waiting[t]]
  <2>1. /\ tid_sensor_queue' \in [Task -> Ring(Sensor)] /\ RingsOK' /\ isEmpty(tid_sensor_queue'[t])
        /\ \A u \in Task : u # t => tid_sensor_queue'[u] = tid_sensor_queue[u]
        /\ UNCHANGED <<waiting, triggered>>
    BY <1>6, NotFoundEffect DEF FeedInv, NotFound, tasks
  <2>2. /\ tid_registered' \in [Task -> BOOLEAN] /\ tid_registered'[t] = TRUE
        /\ \A u \in Task : u # t => tid_registered'[u] = tid_registered[u]
    <3>1. tid_registered \in [Task -> BOOLEAN]
      BY DEF FeedInv, SensorTypeOK
    <3> QED
      BY <1>6, <3>1
  <2>3. r \in R /\ r.tid = t /\ r.sensor_id = waiting[t]
    BY <1>2 DEF FeedInv, SensorTypeOK
  <2>4. sensor_requests \in Seq(R) /\ n \in Nat
    BY LenProperties DEF FeedInv, SensorTypeOK
  <2>5. /\ sensor_requests' \in Seq(R) /\ Len(sensor_requests') = n + 1
        /\ sensor_requests'[n + 1] = r
        /\ \A i \in 1 .. n : sensor_requests'[i] = sensor_requests[i]
    <3> HIDE DEF R, r
    <3>1. sensor_requests' = Append(sensor_requests, r)
      BY <1>6 DEF r
    <3> QED
      BY <2>3, <2>4, <3>1, AppendProperties
  <2>6. Place = 1 .. n /\ Place' = 1 .. n + 1
    BY <2>5 DEF Place
  <2>7. ASSUME NEW i \in Place'
        PROVE  \/ /\ i \in Place /\ sensor_requests'[i] = sensor_requests[i]
                  /\ sensor_requests'[i].tid \in Task \ {t}
               \/ i = n + 1 /\ sensor_requests'[i] = r /\ sensor_requests'[i].tid = t
    <3>1. i \in 1 .. n \/ i = n + 1
      BY <2>4, <2>6
    <3>2. CASE i \in 1 .. n
      <4>1. sensor_requests[i].tid \in Task /\ sensor_requests[i].tid # t
        BY <1>2, <2>6, <3>2, RequestTyped DEF FeedInv
      <4> QED
        BY <2>5, <2>6, <3>2, <4>1
    <3>3. CASE i = n + 1
      BY <2>3, <2>5, <3>3
    <3> QED
      BY <3>1, <3>2, <3>3
  <2> HIDE DEF r
  <2>8. Buffered'
    <3>1. ASSUME NEW i \in Place', NEW j \in Place',
                 sensor_requests'[i].tid = sensor_requests'[j].tid
          PROVE  i = j
      BY <2>7, <3>1 DEF FeedInv, Buffered
    <3>2. ASSUME NEW i \in Place'
          PROVE  /\ tid_registered'[sensor_requests'[i].tid]
                 /\ waiting'[sensor_requests'[i].tid] = sensor_requests'[i].sensor_id
      <4>1. CASE i \in Place /\ sensor_requests'[i] = sensor_requests[i]
                 /\ sensor_requests'[i].tid \in Task \ {t}
        <5>1. /\ tid_registered[sensor_requests[i].tid]
              /\ waiting[sensor_requests[i].tid] = sensor_requests[i].sensor_id
          BY <4>1 DEF FeedInv, Buffered
        <5> QED
          BY <2>1, <2>2, <4>1, <5>1
      <4>2. CASE sensor_requests'[i] = r /\ sensor_requests'[i].tid = t
        BY <2>1, <2>2, <2>3, <4>2
      <4> QED
        BY <2>7, <4>1, <4>2
    <3> QED
      BY <3>1, <3>2 DEF Buffered
  <2>9. Walked'
    <3> SUFFICES ASSUME NEW i \in Place'
                 PROVE  isEmpty(tid_sensor_queue'[sensor_requests'[i].tid])
      BY DEF Walked
    <3>1. CASE i \in Place /\ sensor_requests'[i] = sensor_requests[i]
               /\ sensor_requests'[i].tid \in Task \ {t}
      <4>1. isEmpty(tid_sensor_queue[sensor_requests[i].tid])
        BY <1>1, <3>1 DEF FeedInv, Walked
      <4> QED
        BY <2>1, <3>1, <4>1
    <3>2. CASE sensor_requests'[i].tid = t
      BY <2>1, <3>2
    <3> QED
      BY <2>7, <3>1, <3>2
  <2>10. Len(sensor_requests') <= Cardinality(Task)
    <3> DEFINE f == [i \in 1 .. n + 1 |-> sensor_requests'[i].tid]
    <3>1. \A i \in 1 .. n + 1 : f[i] \in Task
      BY <2>6, <2>7
    <3>2. \A i, j \in 1 .. n + 1 : f[i] = f[j] => i = j
      BY <2>6, <2>8 DEF Buffered
    <3>3. n + 1 \in Nat
      BY <2>4
    <3> HIDE DEF f
    <3>4. n + 1 <= Cardinality(Task)
      BY <3>1, <3>2, <3>3, RequestsFit, SensorAssumption
    <3> QED
      BY <2>5, <3>4
  <2>11. SensorTypeOK'
    BY <1>1, <1>4, <2>1, <2>2, <2>5, <2>10 DEF FeedInv, SensorTypeOK
  <2> QED
    BY <1>3, <2>1, <2>8, <2>9, <2>11 DEF FeedInv
<1> QED
  BY <1>5, <1>6 DEF HandleWaiting

LEMMA SensorStarts == SensorInit => FeedInv
<1> SUFFICES ASSUME SensorInit PROVE FeedInv
  BY DEF SensorInit
<1>1. new_byte_queue \in Ring(Sensor) /\ new_byte_queue.len = 0
      /\ RingOK(new_byte_queue)
  <2>1. 0 \in Sensor
    <3>1. BYTE_COUNT * Bits \in Nat /\ BYTE_COUNT * Bits # 0
      BY SensorAssumption
    <3> QED
      BY <3>1 DEF Sensor
  <2>2. MAX_QUEUE_LENGTH \in Nat \ {0}
    BY QueueAssumption
  <2>3. new_byte_queue \in Ring(Sensor)
    BY <2>1, <2>2 DEF new_byte_queue, Ring
  <2>4. RingOK(new_byte_queue)
    <3>1. (0 + 0) % MAX_QUEUE_LENGTH = 0
      BY <2>2
    <3> QED
      BY <3>1 DEF RingOK, new_byte_queue
  <2> QED
    BY <2>1, <2>3, <2>4 DEF new_byte_queue
<1>2. Place = {}
  <2>1. Len(sensor_requests) = 0
    BY EmptySeq DEF SensorInit
  <2> QED
    BY <2>1 DEF Place
<1>3. SensorTypeOK
  <2>1. /\ triggered_list \in Seq(Sensor) /\ report \in Seq(Sensor) /\ Len(triggered_list) = 0
        /\ senders \in Seq(Task \cup {Notifier}) /\ Len(senders) = 0
        /\ sensor_requests \in Seq([tid : Task, sensor_id : Sensor \cup {Any}])
        /\ Len(sensor_requests) = 0
    BY EmptySeq DEF SensorInit
  <2>2. byte \in 0 .. BYTE_COUNT - 1 /\ reported \in 0 .. MaxFeed /\ 0 < MAX_TRIGGERED
    BY SensorAssumption DEF SensorInit
  <2>3. it \in 1 .. Cardinality(Task) + 1 /\ 0 <= Cardinality(Task)
    BY Sensors DEF SensorInit
  <2>4. /\ tid_sensor_queue \in [Task -> Ring(Sensor)]
        /\ tid_registered \in [Task -> BOOLEAN]
        /\ waiting \in [Task -> Sensor \cup {Any, Nothing}]
        /\ triggered \in [Task -> Sensor \cup {Any}]
    BY <1>1 DEF SensorInit
  <2> QED
    BY <2>1, <2>2, <2>3, <2>4 DEF SensorInit, SensorTypeOK
<1> QED
  BY <1>1, <1>2, <1>3 DEF FeedInv, SensorInit, Arrivals, Buffered, Walked, RingsOK

LEMMA SensorStepKeeps == FeedInv /\ [SensorNext]_sensorVars => FeedInv'
<1> SUFFICES ASSUME FeedInv, [SensorNext]_sensorVars PROVE FeedInv'
  OBVIOUS
<1>1. CASE UNCHANGED sensorVars
  BY <1>1 DEF sensorVars, FeedInv, SensorTypeOK, Arrivals, Buffered, Walked, RingsOK, Place
<1>2. CASE \E set \in SUBSET Sensor : (\A s \in set : s \div Bits = byte) /\ ReadByte(set)
  BY <1>2, ReadByteKeeps
<1>3. CASE \E t \in Task, s \in Sensor \cup {Any} : WaitOnSensor(t, s)
  BY <1>3, WaitKeeps
<1>4. CASE SensorStep
  BY <1>4, ReceiveKeeps, PushKeeps, PushEndKeeps, ScanFoundKeeps, ScanNotFoundKeeps,
     ScanEndKeeps, HandleWaitingKeeps DEF SensorStep
<1> QED
  BY <1>1, <1>2, <1>3, <1>4 DEF SensorNext

LEMMA FeedKept == SensorSpec => []FeedInv
BY SensorStarts, SensorStepKeeps, PTL DEF SensorSpec

\* A wait is buffered only while there is no sensor for it (sensor-server/server.c): however
\* many tasks wait and however their calls and the reports interleave.
THEOREM NobodySleeps == SensorSpec => []SensorInv
<1>1. FeedInv => SensorInv
  BY DEF FeedInv, SensorInv, NoSleepingWaiter, Walked, Place
<1> QED
  BY <1>1, FeedKept, PTL

-----------------------------------------------------------------------------
(* The feed. *)

Unread == [t \in Task |-> Contents(tid_sensor_queue[t])]
Enrolled == {t \in Task : tid_registered[t]}

\* The steps that do nothing the tasks can see.
LEMMA FeedStutters ==
    ASSUME UNCHANGED <<tid_sensor_queue, tid_registered, waiting, triggered>>
    PROVE  UNCHANGED Feed!vars
BY DEF Feed!vars

\* The pops that match are the sensors the contract has for the wait.
LEMMA HitsAreReadable ==
    ASSUME FeedInv, NEW t \in Task
    PROVE  Hits(t, waiting[t]) = Feed!Readable(t)
BY DEF Hits, Feed!Readable, Feed!Matches

LEMMA FoundAnswers ==
    ASSUME FeedInv, NEW t \in Task, waiting[t] # Nothing, Found(t, waiting[t]),
           tid_registered' = tid_registered
    PROVE  Feed!Answer(t)
<1> DEFINE i == FirstHit(t, waiting[t])
<1>1. /\ i \in Feed!Readable(t) /\ \A j \in Feed!Readable(t) : i <= j
  BY FirstHitIs, HitsAreReadable DEF Found, FeedInv
<1>2. triggered' = [triggered EXCEPT ![t] = Unread[t][i]]
  BY DEF Found, Unread
<1>3. Unread' = [Unread EXCEPT ![t] = SubSeq(@, i + 1, Len(@))]
  <2>1. /\ Contents(tid_sensor_queue'[t])
                  = SubSeq(Contents(tid_sensor_queue[t]), i + 1,
                           Len(Contents(tid_sensor_queue[t])))
        /\ \A u \in Task : u # t => tid_sensor_queue'[u] = tid_sensor_queue[u]
    BY FoundEffect DEF FeedInv
  <2> HIDE DEF i
  <2> QED
    BY <2>1 DEF Unread
<1>4. waiting' = [waiting EXCEPT ![t] = Nothing]
  BY DEF Found
<1> HIDE DEF i
<1> QED
  BY <1>1, <1>2, <1>3, <1>4 DEF Feed!Answer, Unread

LEMMA NotFoundSkips ==
    ASSUME FeedInv, NEW t \in Task, waiting[t] # Nothing, NotFound(t, waiting[t]),
           Enrolled' = Enrolled \cup {t}
    PROVE  Feed!Skip(t)
<1>1. Feed!Readable(t) = {}
  BY HitsAreReadable DEF NotFound
<1>2. Unread' = [Unread EXCEPT ![t] = <<>>]
  <2>1. /\ Contents(tid_sensor_queue'[t]) = <<>>
        /\ \A u \in Task : u # t => tid_sensor_queue'[u] = tid_sensor_queue[u]
    BY NotFoundEffect DEF FeedInv
  <2> QED
    BY <2>1 DEF Unread
<1>3. UNCHANGED <<waiting, triggered>>
  BY DEF NotFound, tasks
<1> QED
  BY <1>1, <1>2, <1>3 DEF Feed!Skip, Unread, Enrolled

LEMMA PushTriggers ==
    ASSUME FeedInv, PushSensor
    PROVE  Feed!Trigger(Head(report)) /\ Head(report) \in Sensor
<1>1. /\ Head(report) \in Sensor
      /\ \A t \in Task : Contents(tid_sensor_queue'[t]) =
              IF tid_registered[t] /\ Len(Contents(tid_sensor_queue[t])) < MAX_QUEUE_LENGTH
              THEN Append(Contents(tid_sensor_queue[t]), Head(report))
              ELSE Contents(tid_sensor_queue[t])
  BY PushEffect
<1>2. UNCHANGED <<tid_registered, waiting, triggered>>
  BY DEF PushSensor, tasks
<1>3. Unread' = [t \in Task |-> IF t \in Enrolled /\ Len(Unread[t]) < MAX_QUEUE_LENGTH
                                THEN Append(Unread[t], Head(report)) ELSE Unread[t]]
  BY <1>1 DEF Unread, Enrolled
<1> QED
  BY <1>1, <1>2, <1>3 DEF Feed!Trigger, Unread, Enrolled

LEMMA FeedStarts == SensorInit => Feed!Init
<1> SUFFICES ASSUME SensorInit PROVE Feed!Init
  OBVIOUS
<1>1. Contents(new_byte_queue) = <<>>
  <2>1. Contents(new_byte_queue) = [i \in 1 .. 0 |->
            new_byte_queue.que[(new_byte_queue.front_ptr + i - 1) % MAX_QUEUE_LENGTH]]
    BY DEF Contents, new_byte_queue
  <2> QED
    BY <2>1
<1> QED
  BY <1>1 DEF SensorInit, Feed!Init

LEMMA FeedSimulates == FeedInv /\ [SensorNext]_sensorVars => [Feed!Next]_(Feed!vars)
<1> SUFFICES ASSUME FeedInv, [SensorNext]_sensorVars PROVE [Feed!Next]_(Feed!vars)
  OBVIOUS
<1>1. CASE UNCHANGED sensorVars
  BY <1>1, FeedStutters DEF sensorVars
<1>2. CASE \E set \in SUBSET Sensor : (\A s \in set : s \div Bits = byte) /\ ReadByte(set)
  <2>1. UNCHANGED <<tid_sensor_queue, tid_registered, waiting, triggered>>
    BY <1>2 DEF ReadByte, queues, tasks
  <2> QED
    BY <2>1, FeedStutters
<1>3. ASSUME NEW t \in Task, NEW s \in Sensor \cup {Any}, WaitOnSensor(t, s)
      PROVE  Feed!Next
  <2>1. Feed!Ask(t, s)
    BY <1>3 DEF WaitOnSensor, Feed!Ask, queues
  <2> QED
    BY <2>1 DEF Feed!Next
<1>4. CASE ReceiveTriggered \/ PushEnd \/ ScanEnd
  <2>1. UNCHANGED <<tid_sensor_queue, tid_registered, waiting, triggered>>
    BY <1>4 DEF ReceiveTriggered, PushEnd, ScanEnd, queues, tasks
  <2> QED
    BY <2>1, FeedStutters
<1>5. CASE PushSensor
  BY <1>5, PushTriggers DEF Feed!Next
<1>6. CASE ScanFound \/ ScanNotFound
  <2>1. it \in Place
    BY <1>6, Sensors DEF ScanFound, ScanNotFound, FeedInv, SensorTypeOK, Place
  <2>2. PICK t \in Task : t = sensor_requests[it].tid
    BY <2>1, RequestTyped DEF FeedInv
  <2>3. /\ waiting[t] = sensor_requests[it].sensor_id /\ waiting[t] # Nothing
        /\ tid_registered[t]
    BY <2>1, <2>2, RequestTyped, Sensors DEF FeedInv, Buffered
  <2>4. CASE ScanFound
    <3>1. Feed!Answer(t)
      BY <2>2, <2>3, <2>4, FoundAnswers DEF ScanFound
    <3> QED
      BY <3>1 DEF Feed!Next
  <2>5. CASE ScanNotFound
    <3>1. Enrolled' = Enrolled \cup {t}
      BY <2>3, <2>5 DEF ScanNotFound, Enrolled
    <3>2. Feed!Skip(t)
      BY <2>2, <2>3, <2>5, <3>1, NotFoundSkips DEF ScanNotFound
    <3> QED
      BY <3>2 DEF Feed!Next
  <2> QED
    BY <1>6, <2>4, <2>5
<1>7. ASSUME NEW t \in Task, HandleWaiting(t)
      PROVE  Feed!Next
  <2>1. waiting[t] # Nothing
    BY <1>7, TaskServed DEF HandleWaiting, FeedInv
  <2>2. CASE Found(t, waiting[t]) /\ UNCHANGED tid_registered
    BY <2>1, <2>2, FoundAnswers DEF Feed!Next
  <2>3. CASE NotFound(t, waiting[t]) /\ tid_registered' = [tid_registered EXCEPT ![t] = TRUE]
    <3>1. tid_registered \in [Task -> BOOLEAN]
      BY DEF FeedInv, SensorTypeOK
    <3>2. Enrolled' = Enrolled \cup {t}
      BY <2>3, <3>1 DEF Enrolled
    <3> QED
      BY <2>1, <2>3, <3>2, NotFoundSkips DEF Feed!Next
  <2> QED
    BY <1>7, <2>2, <2>3 DEF HandleWaiting
<1> QED
  BY <1>1, <1>2, <1>3, <1>4, <1>5, <1>6, <1>7 DEF SensorNext, SensorStep

\* The server implements SensorFeed, up to liveness: rings, registration and the walk over
\* the buffered waits give every task the sensors since its first wait, in order and once.
THEOREM SensorIsFeed == SensorSpec => Feed!Init /\ [][Feed!Next]_(Feed!vars)
BY FeedStarts, FeedSimulates, FeedKept, PTL DEF SensorSpec
=============================================================================
