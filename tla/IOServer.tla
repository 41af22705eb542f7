------------------------------ MODULE IOServer ------------------------------
(***************************************************************************)
(* An IO server with its two notifiers (src/user/io-server), the kernel's  *)
(* part of a UART interrupt (handle_irq of src/kern/kern.c) and the line   *)
(* behind it: MARKLIN, the box that takes commands for the trains, or      *)
(* CONSOLE.  Server, notifiers and readers share priority 2 and interleave *)
(* freely.                                                                 *)
(*                                                                         *)
(* The characters put on a line are numbered in the order in which the     *)
(* server takes them, those received in the order in which they arrive.    *)
(* Each line has one reader: sensorNotifierTask or promptTask.             *)
(***************************************************************************)
EXTENDS ByteQueue, FiniteSets

CONSTANTS
    Writer,            \* the tasks that call Putc and Puts
    PUTS_BLOCK_SIZE,   \* characters a Puts carries at most
    MaxPuts,           \* bound on the length passed to Puts
    MaxSent,           \* bound on the characters put
    MaxArrived         \* bound on the characters received

ASSUME IOAssumption ==
    {PUTS_BLOCK_SIZE, MaxPuts, MaxSent, MaxArrived} \subseteq Nat \ {0}

VARIABLES
    line,          \* MARKLIN or CONSOLE
    \* the server
    server,        \* "loop", "pop" in the pop of uart_getc_queued, or "drain" in the
                   \* loop of IO_SEND_EVENT on the console
    popLen,        \* the len which that pop has loaded
    inbox,         \* messages not handled yet
    clearToSend,
    putc_tasks,    \* the characters queued
    getc_tasks,    \* the reader's tid is queued
    \* the tasks
    receiveNotifier, sendNotifier,  \* "event", "woken", "send" or "replied"
    reader, writer,                 \* "run" or "wait"
    \* the kernel and the line
    receive_q,     \* the ring of characters received and not read
    busy,          \* a character has been sent and the line is not ready for the next
    sent,          \* the last character sent
    arrived,       \* the last character received
    \* history
    accepted,      \* the last character the server has taken to be sent
    read,          \* the last character the reader got
    taken,         \* how many it got
    dropped,       \* how many were lost at a full receive queue
    overrun,       \* a character was sent to the box while it was busy
    lostSend, lostReceive,  \* an interrupt found its notifier not in AwaitEvent
    torn           \* an interrupt came between the load and the store of a pop
vars == <<line, server, popLen, inbox, clearToSend, putc_tasks, getc_tasks, receiveNotifier,
          sendNotifier, reader, writer, receive_q, busy, sent, arrived, accepted, read,
          taken, dropped, overrun, lostSend, lostReceive, torn>>

output == <<clearToSend, putc_tasks, busy, sent, accepted, overrun>>
input  == <<popLen, getc_tasks, reader, receive_q, read, taken>>
device == <<arrived, dropped, lostSend, lostReceive, torn>>

Messages == [type : {"GETC", "RECEIVE_EVENT", "SEND_EVENT"}]
            \cup [type : {"PUT"}, from : Writer, len : 1 .. MaxPuts]

Smaller(a, b) == IF a < b THEN a ELSE b

-----------------------------------------------------------------------------
(* The line and the interrupt handler. *)

\* The line is ready again.  The interrupt wakes the notifier if it waits for it; an
\* edge of the box's CTS between uart_get_cts and uart_clear_cts is cleared unseen.
Ready ==
    /\ busy /\ busy' = FALSE
    /\ \/ /\ sendNotifier = "event"
          /\ sendNotifier' = "woken" /\ UNCHANGED lostSend
       \/ /\ sendNotifier # "event" \/ line = "MARKLIN"
          /\ lostSend' = TRUE /\ UNCHANGED sendNotifier
    /\ UNCHANGED <<line, server, inbox, clearToSend, putc_tasks, sent, accepted, overrun,
                   input, receiveNotifier, writer, arrived, dropped, lostReceive, torn>>

\* A character arrives: uart_clear_rx moves it to the receive queue, unless that is full.
Arrive ==
    LET room == receive_q.len < MAX_QUEUE_LENGTH
        hears == receiveNotifier = "event"
    IN  /\ arrived < MaxArrived
        /\ arrived' = arrived + 1
        /\ receive_q' = push(receive_q, arrived + 1)
        /\ dropped' = IF room THEN dropped ELSE dropped + 1
        /\ receiveNotifier' = IF hears THEN "woken" ELSE receiveNotifier
        /\ lostReceive' = (lostReceive \/ ~hears)
        /\ torn' = (torn \/ server = "pop")
        /\ UNCHANGED <<line, server, popLen, inbox, output, getc_tasks, reader, read, taken,
                       sendNotifier, writer, lostSend>>

-----------------------------------------------------------------------------
(* The notifiers. *)

\* Mutant of ReceiveNotifierSends: it does not wait for the reply.
ReceiveNotifierSendsOn ==
    /\ receiveNotifier = "woken" /\ receiveNotifier' = "event"
    /\ inbox' = Append(inbox, [type |-> "RECEIVE_EVENT"])
    /\ UNCHANGED <<line, server, output, input, device, sendNotifier, writer>>

ReceiveNotifierSends ==
    /\ receiveNotifier = "woken" /\ receiveNotifier' = "send"
    /\ inbox' = Append(inbox, [type |-> "RECEIVE_EVENT"])
    /\ UNCHANGED <<line, server, output, input, device, sendNotifier, writer>>

ReceiveNotifierAwaits ==
    /\ receiveNotifier = "replied" /\ receiveNotifier' = "event"
    /\ UNCHANGED <<line, server, inbox, output, input, device, sendNotifier, writer>>

SendNotifierSends ==
    /\ sendNotifier = "woken" /\ sendNotifier' = "send"
    /\ inbox' = Append(inbox, [type |-> "SEND_EVENT"])
    /\ UNCHANGED <<line, server, output, input, device, receiveNotifier, writer>>

SendNotifierAwaits ==
    /\ sendNotifier = "replied" /\ sendNotifier' = "event"
    /\ UNCHANGED <<line, server, inbox, output, input, device, receiveNotifier, writer>>

-----------------------------------------------------------------------------
(* The callers: interface.c. *)

Getc ==
    /\ reader = "run" /\ reader' = "wait"
    /\ inbox' = Append(inbox, [type |-> "GETC"])
    /\ UNCHANGED <<line, server, popLen, output, getc_tasks, receive_q, read, taken, device,
                   receiveNotifier, sendNotifier, writer>>

\* Putc, and Puts of n characters, of which it copies no more than a block.
Puts(w, n) ==
    /\ accepted + PUTS_BLOCK_SIZE * Cardinality({v \in Writer : writer[v] = "wait"})
       + Smaller(PUTS_BLOCK_SIZE, n) <= MaxSent
    /\ writer[w] = "run" /\ writer' = [writer EXCEPT ![w] = "wait"]
    /\ inbox' = Append(inbox, [type |-> "PUT", from |-> w, len |-> n])
    /\ UNCHANGED <<line, server, output, input, device, receiveNotifier, sendNotifier>>

-----------------------------------------------------------------------------
(* The server. *)

Handles(type) == server = "loop" /\ inbox # <<>> /\ Head(inbox).type = type

\* uart_putc: it waits while the UART is full; the UART of the box is ready long before
\* the box is.
uart_putc(c) ==
    /\ line = "CONSOLE" => ~busy
    /\ busy' = TRUE /\ sent' = c
    /\ overrun' = (overrun \/ busy)

\* uart_getc_queued on a queue that is not empty.  It runs in the server, with interrupts
\* enabled: pop loads len here and stores it in PopEnd.
PopBegin ==
    /\ ~isEmpty(receive_q)
    /\ server' = "pop" /\ popLen' = receive_q.len

\* Mutant of PopEnd: the character stays in the ring.
PopEndPeeks ==
    /\ server = "pop" /\ server' = "loop"
    /\ reader' = "run"
    /\ read' = receive_q.que[receive_q.front_ptr] /\ taken' = taken + 1
    /\ UNCHANGED <<line, popLen, inbox, output, getc_tasks, receive_q, device,
                   receiveNotifier, sendNotifier, writer>>

\* The end of the pop, and the reply to the reader.
PopEnd ==
    /\ server = "pop" /\ server' = "loop"
    /\ reader' = "run"
    /\ read' = receive_q.que[receive_q.front_ptr] /\ taken' = taken + 1
    /\ receive_q' = [popped(receive_q, 1) EXCEPT !.len = popLen - 1]
    /\ UNCHANGED <<line, popLen, inbox, output, getc_tasks, device, receiveNotifier,
                   sendNotifier, writer>>

\* IO_GETC.
HandleGetc ==
    /\ Handles("GETC") /\ inbox' = Tail(inbox)
    /\ \/ PopBegin /\ UNCHANGED getc_tasks
       \/ isEmpty(receive_q) /\ getc_tasks' = TRUE /\ UNCHANGED <<server, popLen>>
    /\ UNCHANGED <<line, output, reader, receive_q, read, taken, device, receiveNotifier,
                   sendNotifier, writer>>

\* The characters of a message, numbered as they are taken.
Taken(m) == [i \in 1 .. Smaller(PUTS_BLOCK_SIZE, m.len) |-> accepted + i]

\* Mutants of HandlePut: the first character is sent whether the line is clear or not;
\* it is sent without clearToSend being reset.
HandlePutAlways ==
    /\ Handles("PUT") /\ inbox' = Tail(inbox)
    /\ writer' = [writer EXCEPT ![Head(inbox).from] = "run"]
    /\ LET s == Taken(Head(inbox)) IN
          /\ accepted' = accepted + Len(s)
          /\ uart_putc(s[1]) /\ clearToSend' = FALSE
          /\ putc_tasks' = putc_tasks \o Tail(s)
    /\ UNCHANGED <<line, server, input, device, receiveNotifier, sendNotifier>>

HandlePutStaysClear ==
    /\ Handles("PUT") /\ inbox' = Tail(inbox)
    /\ writer' = [writer EXCEPT ![Head(inbox).from] = "run"]
    /\ LET s == Taken(Head(inbox)) IN
          /\ accepted' = accepted + Len(s)
          /\ \/ clearToSend /\ uart_putc(s[1]) /\ putc_tasks' = putc_tasks \o Tail(s)
             \/ ~clearToSend /\ putc_tasks' = putc_tasks \o s /\ UNCHANGED <<busy, sent, overrun>>
    /\ UNCHANGED <<line, server, clearToSend, input, device, receiveNotifier, sendNotifier>>

\* IO_PUTC, IO_PUTS.
HandlePut ==
    /\ Handles("PUT") /\ inbox' = Tail(inbox)
    /\ writer' = [writer EXCEPT ![Head(inbox).from] = "run"]
    /\ LET s == Taken(Head(inbox)) IN
          /\ accepted' = accepted + Len(s)
          /\ \/ /\ clearToSend
                /\ uart_putc(s[1]) /\ clearToSend' = FALSE
                /\ putc_tasks' = putc_tasks \o Tail(s)
             \/ /\ ~clearToSend
                /\ putc_tasks' = putc_tasks \o s
                /\ UNCHANGED <<clearToSend, busy, sent, overrun>>
    /\ UNCHANGED <<line, server, input, device, receiveNotifier, sendNotifier>>

\* Mutant of HandleReceiveEvent: the reader is left waiting.
HandleReceiveEventSilently ==
    /\ Handles("RECEIVE_EVENT") /\ inbox' = Tail(inbox)
    /\ receiveNotifier' = "replied"
    /\ UNCHANGED <<line, server, output, input, device, sendNotifier, writer>>

\* IO_RECEIVE_EVENT: a reader that waits is answered, with 0 if a Getc has emptied the
\* queue since the interrupt.
HandleReceiveEvent ==
    /\ Handles("RECEIVE_EVENT") /\ inbox' = Tail(inbox)
    /\ receiveNotifier' = "replied"
    /\ getc_tasks' = FALSE
    /\ \/ getc_tasks /\ PopBegin /\ UNCHANGED reader
       \/ /\ getc_tasks => isEmpty(receive_q)
          /\ reader' = IF getc_tasks THEN "run" ELSE reader
          /\ UNCHANGED <<server, popLen>>
    /\ UNCHANGED <<line, output, receive_q, read, taken, device, sendNotifier, writer>>

\* IO_SEND_EVENT of the box.
HandleSendEventMarklin ==
    /\ line = "MARKLIN" /\ Handles("SEND_EVENT") /\ inbox' = Tail(inbox)
    /\ sendNotifier' = "replied"
    /\ \/ /\ putc_tasks # <<>>
          /\ uart_putc(Head(putc_tasks)) /\ putc_tasks' = Tail(putc_tasks)
          /\ UNCHANGED clearToSend
       \/ /\ putc_tasks = <<>> /\ clearToSend' = TRUE
          /\ UNCHANGED <<putc_tasks, busy, sent, overrun>>
    /\ UNCHANGED <<line, server, accepted, input, device, receiveNotifier, writer>>

\* IO_SEND_EVENT of the console: its loop sends while uart_try_putc finds room.
HandleSendEventConsole ==
    /\ line = "CONSOLE" /\ Handles("SEND_EVENT") /\ inbox' = Tail(inbox)
    /\ sendNotifier' = "replied"
    /\ server' = "drain"
    /\ UNCHANGED <<line, output, input, device, receiveNotifier, writer>>

Drain ==
    /\ server = "drain" /\ putc_tasks # <<>> /\ ~busy
    /\ uart_putc(Head(putc_tasks)) /\ putc_tasks' = Tail(putc_tasks)
    /\ UNCHANGED <<line, server, inbox, clearToSend, accepted, input, device,
                   receiveNotifier, sendNotifier, writer>>

\* Mutant of DrainEnd: clearToSend is not set.
DrainEndNotClear ==
    /\ server = "drain" /\ (putc_tasks = <<>> \/ busy)
    /\ clearToSend' = FALSE /\ server' = "loop"
    /\ UNCHANGED <<line, inbox, putc_tasks, busy, sent, accepted, overrun, input, device,
                   receiveNotifier, sendNotifier, writer>>

DrainEnd ==
    /\ server = "drain" /\ (putc_tasks = <<>> \/ busy)
    /\ clearToSend' = (putc_tasks = <<>>) /\ server' = "loop"
    /\ UNCHANGED <<line, inbox, putc_tasks, busy, sent, accepted, overrun, input, device,
                   receiveNotifier, sendNotifier, writer>>

ServerStep == HandleGetc \/ PopEnd \/ HandlePut \/ HandleReceiveEvent \/ HandleSendEventMarklin
              \/ HandleSendEventConsole \/ Drain \/ DrainEnd

Init ==
    /\ line \in {"MARKLIN", "CONSOLE"}
    /\ server = "loop" /\ popLen = 0 /\ inbox = <<>> /\ clearToSend = TRUE
    /\ putc_tasks = <<>> /\ getc_tasks = FALSE
    /\ receiveNotifier = "event" /\ sendNotifier = "event"
    /\ reader = "run" /\ writer = [w \in Writer |-> "run"]
    /\ receive_q = new_byte_queue /\ busy = FALSE /\ sent = 0 /\ arrived = 0
    /\ accepted = 0 /\ read = 0 /\ taken = 0 /\ dropped = 0
    /\ overrun = FALSE /\ lostSend = FALSE /\ lostReceive = FALSE /\ torn = FALSE

Next ==
    \/ Ready \/ Arrive
    \/ ReceiveNotifierSends \/ ReceiveNotifierAwaits \/ SendNotifierSends \/ SendNotifierAwaits
    \/ Getc \/ \E w \in Writer, n \in 1 .. MaxPuts : Puts(w, n)
    \/ ServerStep

\* The line gets ready again, and the scheduler is round robin; nobody need read,
\* write or type.
Spec == /\ Init /\ [][Next]_vars
        /\ WF_vars(Ready) /\ WF_vars(ServerStep)
        /\ WF_vars(ReceiveNotifierSends) /\ WF_vars(ReceiveNotifierAwaits)
        /\ WF_vars(SendNotifierSends) /\ WF_vars(SendNotifierAwaits)

-----------------------------------------------------------------------------
(* Properties. *)

\* Every variable has its type; a task has one message on its way at most.
TypeOK ==
    /\ line \in {"MARKLIN", "CONSOLE"}
    /\ server \in {"loop", "pop", "drain"} /\ popLen \in 0 .. MAX_QUEUE_LENGTH
    /\ inbox \in Seq(Messages)
    /\ \A i, j \in 1 .. Len(inbox) : inbox[i] = inbox[j] => i = j
    /\ {clearToSend, getc_tasks, busy, overrun, lostSend, lostReceive, torn} \subseteq BOOLEAN
    /\ putc_tasks \in Seq(Nat) /\ receive_q \in Ring(0 .. MaxArrived)
    /\ {receiveNotifier, sendNotifier} \subseteq {"event", "woken", "send", "replied"}
    /\ reader \in {"run", "wait"} /\ writer \in [Writer -> {"run", "wait"}]
    /\ {sent, accepted} \subseteq Nat
    /\ {arrived, read, taken, dropped} \subseteq 0 .. MaxArrived

\* The line gets the characters in the order in which the server took them, each once:
\* those not sent yet are the queue, so that the bytes of a Puts stay together.
OutputFifo ==
    putc_tasks = [i \in 1 .. accepted - sent |-> sent + i]

\* At any point of the interrupts, notifiers and writers the output is in order.
IOInv == TypeOK /\ OutputFifo

\* The right to send to the box is a token: the server has it (clearToSend), or the box
\* until it is ready, or it is on its way back as an event.  There are never two, so the
\* box is never sent a byte while it is busy; there is one unless an interrupt was lost.
SendToken ==
    LET tokens == {x \in {"server", "box", "notifier", "message"} :
                      \/ x = "server" /\ clearToSend
                      \/ x = "box" /\ busy
                      \/ x = "notifier" /\ sendNotifier = "woken"
                      \/ x = "message" /\ \E i \in 1 .. Len(inbox) : inbox[i].type = "SEND_EVENT"}
    IN  line = "MARKLIN" =>
            /\ ~overrun
            /\ \A x, y \in tokens : x = y
            /\ lostSend \/ tokens # {}

\* The reader gets the characters in the order in which they arrived and each once; none
\* is lost but at a full receive queue.  An interrupt inside a pop breaks this for good:
\* its character stays in the ring uncounted, and from then on the reader is one
\* character behind.  (The zeros of HandleReceiveEvent come on top.)
InputFifo ==
    LET q == Contents(receive_q) IN
        ~torn => /\ taken + Len(q) + dropped = arrived
                 /\ \A i \in 1 .. Len(q) : q[i] > read
                 /\ \A i, j \in 1 .. Len(q) : i < j => q[i] < q[j]

\* Everything put on a line is sent, unless an interrupt is lost.
EverythingSent ==
    \A n \in 1 .. MaxSent : accepted >= n ~> sent >= n \/ lostSend

\* A reader does not wait beside a received character, unless an interrupt is lost: then
\* it waits until the next one arrives.
ReaderAnswered ==
    reader = "wait" /\ ~isEmpty(receive_q) ~> reader = "run" \/ lostReceive
=============================================================================
