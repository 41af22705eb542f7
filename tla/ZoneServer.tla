----------------------------- MODULE ZoneServer -----------------------------
(***************************************************************************)
(* The zone server (src/user/zone-server/server.c): which train has each   *)
(* zone of the track reserved, and the tasks that wait for a zone.         *)
(*                                                                         *)
(* The server handles one request at a time, so a request is one action,   *)
(* taken when the server handles it; what its caller learns is the value   *)
(* the action's guard names, or, for ZONE_WAIT, answer[c].  The deadlock   *)
(* check asks two other servers (for the time and for the pacman train):   *)
(* the age of a request is abstracted to the number of checks it has seen. *)
(***************************************************************************)
EXTENDS Integers, Sequences, FiniteSets

CONSTANTS
    Client,    \* the tasks that send requests
    Train,
    NoTrain,
    Zone,
    PacTrain   \* what GetPacTrain returns: a train, or NoTrain while there is no game

ASSUME ZoneAssumption == NoTrain \notin Train /\ PacTrain \in Train \cup {NoTrain}

VARIABLES
    reservations,   \* the train that has the zone, or NoTrain (0 in the code)
    zone_requests,  \* the buffered ZONE_WAITs, oldest first
    wait_change,    \* wait_change_requests
    answer          \* a client's ZONE_WAIT: "none", "waiting", or the reply it got
zoneVars == <<reservations, zone_requests, wait_change, answer>>

OldAge == 2   \* checks after which a request is certainly older than 500 ticks

Request == [tid : Client, train : Train, zone : Zone, checks : 0 .. OldAge]
Answer  == {"none", "waiting", "freed", "time_out"}

\* Mutant of IsReserved: own and foreign reservations are confused.
IsReservedOwn(res, t, z) == res[z] = t

\* _zone_is_reserved, for the reservations res.
IsReserved(res, t, z) == res[z] # NoTrain /\ res[z] # t

-----------------------------------------------------------------------------
(* The buffered requests. *)

\* The requests other than those at the places P, in order.
Others(P) ==
    LET rest  == (1 .. Len(zone_requests)) \ P
        nth(n) == CHOOSE i \in rest : Cardinality({j \in rest : j < i}) = n - 1
    IN  [n \in 1 .. Cardinality(rest) |-> zone_requests[nth(n)]]

\* Mutant of AnswerTo: the answered requests stay in the list.
AnswerKeeps(P, a) ==
    /\ answer' = [c \in Client |->
                    IF \E i \in P : zone_requests[i].tid = c THEN a ELSE answer[c]]
    /\ UNCHANGED zone_requests

\* The clients whose requests at the places P are answered with a, and removed.
AnswerTo(P, a) ==
    /\ answer' = [c \in Client |->
                    IF \E i \in P : zone_requests[i].tid = c THEN a ELSE answer[c]]
    /\ zone_requests' = Others(P)

\* Mutant of FirstFreed: the latest request is woken.
LastFreed(res, z, i) ==
    /\ zone_requests[i].zone = z
    /\ ~IsReserved(res, zone_requests[i].train, z)
    /\ \A j \in i + 1 .. Len(zone_requests) :
          zone_requests[j].zone = z => IsReserved(res, zone_requests[j].train, z)

\* Request i is the one reservationWaitUnblock wakes for zone z.
FirstFreed(res, z, i) ==
    /\ zone_requests[i].zone = z
    /\ ~IsReserved(res, zone_requests[i].train, z)
    /\ \A j \in 1 .. i - 1 :
          zone_requests[j].zone = z => IsReserved(res, zone_requests[j].train, z)

\* reservationWaitUnblock for each of the zones Z, and unblockAllWaiting.
Released(res, Z) ==
    /\ reservations' = res
    /\ AnswerTo({i \in 1 .. Len(zone_requests) : \E z \in Z : FirstFreed(res, z, i)}, "freed")
    /\ wait_change' = {}

-----------------------------------------------------------------------------
(* The requests. *)

\* Mutant of ZoneReserve: the zone is stored for the train.
ZoneReserveZone(t, z) ==
    /\ reservations' = IF IsReserved(reservations, t, z) THEN reservations
                       ELSE [reservations EXCEPT ![z] = z]
    /\ wait_change' = {}
    /\ UNCHANGED <<zone_requests, answer>>

\* ZONE_RESERVE; the caller is told ~IsReserved(reservations, t, z).
ZoneReserve(t, z) ==
    /\ reservations' = IF IsReserved(reservations, t, z) THEN reservations
                       ELSE [reservations EXCEPT ![z] = t]
    /\ wait_change' = {}
    /\ UNCHANGED <<zone_requests, answer>>

\* ZONE_UNRESERVE.
ZoneUnreserve(t, z) ==
    Released(IF reservations[z] = t THEN [reservations EXCEPT ![z] = NoTrain]
             ELSE reservations, {z})

\* ZONE_UNRESERVE_ALL (keep = {}) and ZONE_UNRESERVE_ALL_EXCEPT.
ZoneUnreserveAll(t, keep) ==
    LET Z == {z \in Zone : reservations[z] = t} \ keep
    IN  Released([z \in Zone |-> IF z \in Z THEN NoTrain ELSE reservations[z]], Z)

\* ZONE_WAIT.
ZoneWait(c, t, z) ==
    /\ answer[c] = "none"
    /\ \/ /\ ~IsReserved(reservations, t, z)
          /\ answer' = [answer EXCEPT ![c] = "freed"]
          /\ UNCHANGED zone_requests
       \/ /\ IsReserved(reservations, t, z)
          /\ answer' = [answer EXCEPT ![c] = "waiting"]
          /\ zone_requests' = Append(zone_requests,
                                     [tid |-> c, train |-> t, zone |-> z, checks |-> 0])
    /\ UNCHANGED <<reservations, wait_change>>

\* ZONE_WAIT_CHANGE.
ZoneWaitChange(c) ==
    /\ wait_change' = wait_change \cup {c}
    /\ UNCHANGED <<reservations, zone_requests, answer>>

\* The first n requests, those older than 500 ticks at a deadlock check, include
\* every one that is certainly so; requests are in the order of their times.
Stale(n) == \A i \in n + 1 .. Len(zone_requests) : zone_requests[i].checks < OldAge

Eligible(i) == reservations[zone_requests[i].zone] # PacTrain

\* Mutants of Unblocked: every stale request is answered; only the oldest is
\* looked at.
UnblockedAll(n)  == {i \in 1 .. n : Eligible(i)}
UnblockedHead(n) == {i \in 1 .. n : Eligible(i) /\ i = 1}

\* The request unblockStaleRequests answers: the first stale one whose zone is
\* not the pacman train's, if any.
Unblocked(n) == {i \in 1 .. n : Eligible(i) /\ \A j \in 1 .. i - 1 : ~Eligible(j)}

\* ZONE_DEADLOCK, sent by zoneDeadlockNotifier every 500 ticks.
ZoneDeadlock(n) ==
    /\ Stale(n)
    /\ answer' = [c \in Client |->
                    IF \E i \in Unblocked(n) : zone_requests[i].tid = c
                    THEN "time_out" ELSE answer[c]]
    /\ LET left == Others(Unblocked(n))
       IN  zone_requests' = [i \in 1 .. Len(left) |->
                [left[i] EXCEPT !.checks = IF @ < OldAge THEN @ + 1 ELSE @]]
    /\ UNCHANGED <<reservations, wait_change>>

\* The client goes on with the reply to its ZONE_WAIT.
TakeAnswer(c) == answer' = [answer EXCEPT ![c] = "none"]

-----------------------------------------------------------------------------
(* The server with any clients: each may act for any train. *)

ZoneInit ==
    /\ reservations = [z \in Zone |-> NoTrain]
    /\ zone_requests = <<>>
    /\ wait_change = {}
    /\ answer = [c \in Client |-> "none"]

\* Client c is not waiting for a reply.
Free(c) == answer[c] = "none" /\ c \notin wait_change

Calls(c) ==
    \/ \E t \in Train, z \in Zone :
          ZoneReserve(t, z) \/ ZoneUnreserve(t, z) \/ ZoneWait(c, t, z)
          \/ ZoneUnreserveAll(t, {z})
    \/ \E t \in Train : ZoneUnreserveAll(t, {})
    \/ ZoneWaitChange(c)

Proceeds(c) ==
    /\ answer[c] \in {"freed", "time_out"}
    /\ TakeAnswer(c)
    /\ UNCHANGED <<reservations, zone_requests, wait_change>>

ZoneNext ==
    \/ \E c \in Client : (Free(c) /\ Calls(c)) \/ Proceeds(c)
    \/ \E n \in 0 .. Len(zone_requests) : ZoneDeadlock(n)

ZoneSpec == ZoneInit /\ [][ZoneNext]_zoneVars

\* The notifier never stops asking; nothing is assumed of the clients.
ZoneFairSpec ==
    ZoneSpec /\ WF_zoneVars(\E n \in 0 .. Len(zone_requests) : ZoneDeadlock(n))

-----------------------------------------------------------------------------
(* Properties. *)

\* Every variable has its type.
ZoneTypeOK ==
    /\ reservations \in [Zone -> Train \cup {NoTrain}]
    /\ zone_requests \in Seq(Request)
    /\ wait_change \subseteq Client
    /\ answer \in [Client -> Answer]

\* A client that waits for a zone has exactly one request in the list, so that it
\* is answered once; nobody else has one.
WaitersListed ==
    \A c \in Client :
        Cardinality({i \in 1 .. Len(zone_requests) : zone_requests[i].tid = c})
            = IF answer[c] = "waiting" THEN 1 ELSE 0

\* Whatever is released, reserved and timed out, no waiter is lost and none is left with
\* a second answer under way.
ZoneInv == ZoneTypeOK /\ WaitersListed

\* A reservation is never taken from a train: a zone passes from one train to
\* another only by its release.
NeverStolen ==
    [][\A z \in Zone : reservations[z] # NoTrain /\ reservations'[z] # reservations[z]
                       => reservations'[z] = NoTrain]_zoneVars

\* Waiters are not overtaken: when a release frees a zone for a waiter, every
\* request for the zone that is older stays barred from it.
NotOvertaken ==
    [][\A i \in 1 .. Len(zone_requests) :
          LET w == zone_requests[i]
          IN  answer'[w.tid] = "freed" /\ answer[w.tid] = "waiting" =>
                \A j \in 1 .. i - 1 :
                    zone_requests[j].zone = w.zone =>
                        IsReserved(reservations', zone_requests[j].train, w.zone)]_zoneVars

\* One check lets at most one waiter time out, so that of two trains that block
\* each other only one gives way.
OneGivesWay ==
    [][Cardinality({c \in Client : answer[c] = "waiting" /\ answer'[c] = "time_out"}) <= 1]_zoneVars

\* Waiters are answered in their turn, by releases and by deadlock checks.
InTurn == NotOvertaken /\ OneGivesWay

\* Nobody waits for ever, though a release wakes one waiter only, which need not
\* take the zone: the checks free the others, except while the pacman train has
\* the zone.
WaitEnds ==
    \A c \in Client :
        <>[](answer[c] = "waiting") =>
            []<>(\E i \in 1 .. Len(zone_requests) :
                    /\ zone_requests[i].tid = c
                    /\ reservations[zone_requests[i].zone] = PacTrain)
=============================================================================
