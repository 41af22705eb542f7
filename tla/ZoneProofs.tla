----------------------------- MODULE ZoneProofs -----------------------------
(***************************************************************************)
(* Theorems about ZoneServer, for every set of clients, trains and zones.  *)
(***************************************************************************)
EXTENDS ZoneServer, FiniteSetTheorems, SequenceTheorems, TLAPS

-----------------------------------------------------------------------------
(* The list without some of its places. *)

\* The ranks of the members of a set of places count it without gaps.
LEMMA RankProperties ==
    ASSUME NEW N \in Nat, NEW R \in SUBSET (1 .. N)
    PROVE  /\ IsFiniteSet(R) /\ Cardinality(R) \in Nat
           /\ \A i \in R : Cardinality({j \in R : j < i}) \in 0 .. Cardinality(R) - 1
           /\ \A i, k \in R : Cardinality({j \in R : j < i}) = Cardinality({j \in R : j < k})
                              => i = k
           /\ \A n \in 0 .. Cardinality(R) - 1 :
                 \E i \in R : Cardinality({j \in R : j < i}) = n
<1> DEFINE below(i) == {j \in R : j < i}
           T == 0 .. Cardinality(R) - 1
           rank == [i \in R |-> Cardinality(below(i))]
<1>1. IsFiniteSet(R) /\ Cardinality(R) \in Nat
  <2>1. IsFiniteSet(1 .. N)
    <3>1. 1 \in Int /\ N \in Int
      OBVIOUS
    <3> QED
      BY <3>1, FS_Interval
  <2>2. IsFiniteSet(R)
    BY <2>1, FS_Subset
  <2> QED
    BY <2>2, FS_CardinalityType
<1>2. \A i \in R : Cardinality(below(i)) \in T
  <2> TAKE i \in R
  <2>1. below(i) \in SUBSET R /\ i \in R \ below(i)
    OBVIOUS
  <2>2. IsFiniteSet(below(i)) /\ Cardinality(below(i)) <= Cardinality(R)
        /\ Cardinality(R) # Cardinality(below(i))
    BY <1>1, <2>1, FS_Subset
  <2>3. Cardinality(below(i)) \in Nat
    BY <2>2, FS_CardinalityType
  <2> QED
    BY <1>1, <2>2, <2>3
<1>3. \A i, k \in R : i < k => Cardinality(below(i)) < Cardinality(below(k))
  <2> SUFFICES ASSUME NEW i \in R, NEW k \in R, i < k
               PROVE  Cardinality(below(i)) < Cardinality(below(k))
    OBVIOUS
  <2>1. below(i) \in SUBSET below(k) /\ i \in below(k) \ below(i)
    <3>1. R \subseteq Int /\ i \in Int /\ k \in Int
      OBVIOUS
    <3>2. \A j \in R : j < i => j < k
      BY <3>1
    <3>3. i < k /\ ~(i < i)
      BY <3>1
    <3>4. below(i) \subseteq below(k)
      BY <3>2
    <3>5. i \in below(k) /\ i \notin below(i)
      BY <3>3
    <3> HIDE DEF below
    <3> QED
      BY <3>4, <3>5
  <2>2. IsFiniteSet(below(k))
    BY <1>1, FS_Subset
  <2>3. Cardinality(below(i)) <= Cardinality(below(k))
        /\ Cardinality(below(k)) # Cardinality(below(i))
    BY <2>1, <2>2, FS_Subset
  <2> HIDE DEF below
  <2> QED
    BY <1>2, <2>3
<1>4. \A i, k \in R : Cardinality(below(i)) = Cardinality(below(k)) => i = k
  <2> HIDE DEF below
  <2> QED
    BY <1>2, <1>3
<1>5. rank \in Injection(R, T)
  <2> HIDE DEF below
  <2> QED
    BY <1>2, <1>4 DEF Injection, IsInjective
<1>6. IsFiniteSet(T) /\ Cardinality(T) = Cardinality(R)
  <2>1. Cardinality(R) - 1 \in Int
    BY <1>1
  <2> QED
    BY <1>1, <2>1, FS_Interval
<1>7. rank \in Surjection(R, T)
  <2> HIDE DEF rank, T
  <2> QED
    BY <1>5, <1>6, FS_Injection
<1>8. \A n \in T : \E i \in R : Cardinality(below(i)) = n
  <2> HIDE DEF below
  <2> QED
    BY <1>7 DEF Surjection
<1> QED
  BY <1>1, <1>2, <1>4, <1>8

\* Taking places out of the list loses none of the others and doubles none.
LEMMA OthersProperties ==
    ASSUME zone_requests \in Seq(Request), NEW P
    PROVE  /\ Others(P) \in Seq(Request)
           /\ \E place \in [1 .. Len(Others(P)) -> (1 .. Len(zone_requests)) \ P] :
                 /\ \A n \in 1 .. Len(Others(P)) : Others(P)[n] = zone_requests[place[n]]
                 /\ \A m, n \in 1 .. Len(Others(P)) : place[m] = place[n] => m = n
                 /\ \A i \in (1 .. Len(zone_requests)) \ P :
                       \E n \in 1 .. Len(Others(P)) : place[n] = i
<1> DEFINE R == (1 .. Len(zone_requests)) \ P
           C == Cardinality(R)
           below(i) == Cardinality({j \in R : j < i})
           nth(n) == CHOOSE i \in R : below(i) = n - 1
           place == [n \in 1 .. C |-> nth(n)]
<1>1. Len(zone_requests) \in Nat /\ \A i \in 1 .. Len(zone_requests) : zone_requests[i] \in Request
  BY LenProperties, ElementOfSeq
<1>2. R \in SUBSET (1 .. Len(zone_requests))
  OBVIOUS
<1>3. /\ C \in Nat
      /\ \A i \in R : below(i) \in 0 .. C - 1
      /\ \A i, k \in R : below(i) = below(k) => i = k
      /\ \A n \in 0 .. C - 1 : \E i \in R : below(i) = n
  <2> HIDE DEF R
  <2> QED
    BY <1>1, <1>2, RankProperties
<1>4. Others(P) = [n \in 1 .. C |-> zone_requests[nth(n)]]
  BY DEF Others
<1> HIDE DEF below, C, R
<1>5. \A n \in 1 .. C : nth(n) \in R /\ below(nth(n)) = n - 1
  <2> TAKE n \in 1 .. C
  <2>1. n - 1 \in 0 .. C - 1
    BY <1>3
  <2>2. \E i \in R : below(i) = n - 1
    BY <1>3, <2>1
  <2> QED
    BY <2>2
<1> HIDE DEF nth
<1>6. \A n \in 1 .. C : zone_requests[nth(n)] \in Request
  BY <1>1, <1>2, <1>5
<1>7. Others(P) \in [1 .. C -> Request]
  BY <1>4, <1>6
<1>8. Others(P) \in Seq(Request) /\ Len(Others(P)) = C
  <2>1. Others(P) \in Seq(Request)
    BY <1>3, <1>7, SeqDef
  <2>2. DOMAIN Others(P) = 1 .. Len(Others(P)) /\ Len(Others(P)) \in Nat
    BY <2>1, LenProperties
  <2>3. 1 .. C = 1 .. Len(Others(P))
    BY <1>7, <2>2
  <2>4. Len(Others(P)) = C
    <3>1. C \in Nat /\ Len(Others(P)) \in Nat
      BY <1>3, <2>2
    <3>2. CASE C < Len(Others(P))
      <4>1. Len(Others(P)) \in 1 .. Len(Others(P)) /\ Len(Others(P)) \notin 1 .. C
        BY <3>1, <3>2
      <4> QED
        BY <2>3, <4>1
    <3>3. CASE Len(Others(P)) < C
      <4>1. C \in 1 .. C /\ C \notin 1 .. Len(Others(P))
        BY <3>1, <3>3
      <4> QED
        BY <2>3, <4>1
    <3> QED
      BY <3>1, <3>2, <3>3
  <2> QED
    BY <2>1, <2>4
<1>9. place \in [1 .. C -> R]
  BY <1>5
<1>10. \A n \in 1 .. C : Others(P)[n] = zone_requests[place[n]]
  BY <1>4
<1>11. \A m, n \in 1 .. C : place[m] = place[n] => m = n
  <2> SUFFICES ASSUME NEW m \in 1 .. C, NEW n \in 1 .. C, nth(m) = nth(n)
               PROVE  m = n
    OBVIOUS
  <2>1. m - 1 = n - 1
    BY <1>5
  <2> QED
    BY <1>3, <2>1
<1>12. \A i \in R : \E n \in 1 .. C : place[n] = i
  <2> TAKE i \in R
  <2>1. below(i) \in 0 .. C - 1
    BY <1>3
  <2>2. below(i) + 1 \in 1 .. C /\ (below(i) + 1) - 1 = below(i)
    BY <1>3, <2>1
  <2>3. nth(below(i) + 1) \in R /\ below(nth(below(i) + 1)) = below(i)
    BY <1>5, <2>2
  <2>4. nth(below(i) + 1) = i
    BY <1>3, <2>3
  <2>5. place[below(i) + 1] = i
    BY <2>2, <2>4
  <2> QED
    BY <2>2, <2>5
<1> HIDE DEF place
<1>13. \E p \in [1 .. C -> R] :
          /\ \A n \in 1 .. C : Others(P)[n] = zone_requests[p[n]]
          /\ \A m, n \in 1 .. C : p[m] = p[n] => m = n
          /\ \A i \in R : \E n \in 1 .. C : p[n] = i
  BY <1>9, <1>10, <1>11, <1>12
<1> QED
  BY <1>8, <1>13 DEF R

-----------------------------------------------------------------------------
(* Requests and answers. *)

\* Every request is a waiting client's, every waiting client has one, and no two
\* requests are of the same client; for the requests q and the answers a.
Listed(q, a) ==
    /\ \A i \in 1 .. Len(q) : a[q[i].tid] = "waiting"
    /\ \A i, j \in 1 .. Len(q) : q[i].tid = q[j].tid => i = j
    /\ \A c \in Client : a[c] = "waiting" => \E i \in 1 .. Len(q) : q[i].tid = c

\* A set without two different members has at most one.
LEMMA AtMostOne ==
    ASSUME NEW S, \A x, y \in S : x = y
    PROVE  IsFiniteSet(S) /\ Cardinality(S) = IF S = {} THEN 0 ELSE 1
<1>1. CASE S = {}
  BY <1>1, FS_EmptySet
<1>2. CASE S # {}
  <2>1. PICK x : x \in S
    BY <1>2
  <2>2. S = {x}
    BY <2>1
  <2> QED
    BY <1>2, <2>2, FS_Singleton
<1> QED
  BY <1>1, <1>2

\* WaitersListed counts what Listed says.
LEMMA ListedCounts ==
    ASSUME Listed(zone_requests, answer)
    PROVE  WaitersListed
<1> SUFFICES ASSUME NEW c \in Client
             PROVE  Cardinality({i \in 1 .. Len(zone_requests) : zone_requests[i].tid = c})
                        = IF answer[c] = "waiting" THEN 1 ELSE 0
  BY DEF WaitersListed
<1> DEFINE S == {i \in 1 .. Len(zone_requests) : zone_requests[i].tid = c}
<1>1. \A x, y \in S : x = y
  BY DEF Listed
<1>2. S = {} <=> answer[c] # "waiting"
  BY DEF Listed
<1> HIDE DEF S
<1>3. Cardinality(S) = IF S = {} THEN 0 ELSE 1
  BY <1>1, AtMostOne
<1>4. Cardinality(S) = IF answer[c] = "waiting" THEN 1 ELSE 0
  BY <1>2, <1>3
<1> QED
  BY <1>4 DEF S

\* The requests at the places P are answered and removed, which may change the others but
\* not whose they are.
LEMMA AnsweringKeepsListed ==
    ASSUME zone_requests \in Seq(Request), Listed(zone_requests, answer),
           NEW P \in SUBSET (1 .. Len(zone_requests)),
           NEW a, a # "waiting",
           answer' = [c \in Client |-> IF \E i \in P : zone_requests[i].tid = c
                                      THEN a ELSE answer[c]],
           NEW q, Len(q) = Len(Others(P)),
           \A n \in 1 .. Len(q) : q[n].tid = Others(P)[n].tid
    PROVE  Listed(q, answer')
<1>1. PICK place \in [1 .. Len(q) -> (1 .. Len(zone_requests)) \ P] :
         /\ \A n \in 1 .. Len(q) : q[n].tid = zone_requests[place[n]].tid
         /\ \A m, n \in 1 .. Len(q) : place[m] = place[n] => m = n
         /\ \A i \in (1 .. Len(zone_requests)) \ P : \E n \in 1 .. Len(q) : place[n] = i
  <2>1. PICK place \in [1 .. Len(Others(P)) -> (1 .. Len(zone_requests)) \ P] :
           /\ \A n \in 1 .. Len(Others(P)) : Others(P)[n] = zone_requests[place[n]]
           /\ \A m, n \in 1 .. Len(Others(P)) : place[m] = place[n] => m = n
           /\ \A i \in (1 .. Len(zone_requests)) \ P :
                 \E n \in 1 .. Len(Others(P)) : place[n] = i
    BY OthersProperties
  <2>2. \A n \in 1 .. Len(q) : q[n].tid = zone_requests[place[n]].tid
    BY <2>1
  <2> QED
    BY <2>1, <2>2
<1>2. \A n \in 1 .. Len(q) : place[n] \in 1 .. Len(zone_requests) /\ place[n] \notin P
  BY <1>1
<1>3. \A i \in 1 .. Len(zone_requests) : zone_requests[i].tid \in Client
  <2>1. \A i \in 1 .. Len(zone_requests) : zone_requests[i] \in Request
    BY ElementOfSeq
  <2> QED
    BY <2>1 DEF Request
<1>4. \A n \in 1 .. Len(q) : answer'[q[n].tid] = "waiting"
  <2> TAKE n \in 1 .. Len(q)
  <2>1. zone_requests[place[n]].tid \in Client
        /\ answer[zone_requests[place[n]].tid] = "waiting"
    BY <1>2, <1>3 DEF Listed
  <2>2. ~ \E i \in P : zone_requests[i].tid = zone_requests[place[n]].tid
    BY <1>2 DEF Listed
  <2> QED
    BY <1>1, <2>1, <2>2
<1>5. \A m, n \in 1 .. Len(q) : q[m].tid = q[n].tid => m = n
  <2> SUFFICES ASSUME NEW m \in 1 .. Len(q), NEW n \in 1 .. Len(q), q[m].tid = q[n].tid
               PROVE  m = n
    OBVIOUS
  <2>1. zone_requests[place[m]].tid = zone_requests[place[n]].tid
    BY <1>1
  <2>2. place[m] = place[n]
    BY <1>2, <2>1 DEF Listed
  <2> QED
    BY <1>1, <2>2
<1>6. \A c \in Client : answer'[c] = "waiting" => \E n \in 1 .. Len(q) : q[n].tid = c
  <2> SUFFICES ASSUME NEW c \in Client, answer'[c] = "waiting"
               PROVE  \E n \in 1 .. Len(q) : q[n].tid = c
    OBVIOUS
  <2>1. answer[c] = "waiting" /\ ~ \E i \in P : zone_requests[i].tid = c
    <3>1. CASE \E i \in P : zone_requests[i].tid = c
      <4>1. answer'[c] = a
        BY <3>1
      <4> QED
        BY <4>1
    <3>2. CASE ~ \E i \in P : zone_requests[i].tid = c
      <4>1. answer'[c] = answer[c]
        BY <3>2
      <4> QED
        BY <3>2, <4>1
    <3> QED
      BY <3>1, <3>2
  <2>2. PICK i \in 1 .. Len(zone_requests) : zone_requests[i].tid = c
    BY <2>1 DEF Listed
  <2>3. PICK n \in 1 .. Len(q) : place[n] = i
    BY <1>1, <2>1, <2>2
  <2> QED
    BY <1>1, <2>2, <2>3
<1> QED
  BY <1>4, <1>5, <1>6 DEF Listed

-----------------------------------------------------------------------------
(* The invariant. *)

\* The types, and whose the requests are.
RequestsInv == ZoneTypeOK /\ Listed(zone_requests, answer)

\* A release answers some of those that wait, and the invariant holds again.
LEMMA ReleasedKeepsInv ==
    ASSUME RequestsInv, NEW res \in [Zone -> Train \cup {NoTrain}], NEW Y, Released(res, Y)
    PROVE  RequestsInv'
<1> DEFINE P == {i \in 1 .. Len(zone_requests) : \E z \in Y : FirstFreed(res, z, i)}
<1>1. /\ reservations' = res
      /\ answer' = [c \in Client |-> IF \E i \in P : zone_requests[i].tid = c
                                     THEN "freed" ELSE answer[c]]
      /\ zone_requests' = Others(P)
      /\ wait_change' = {}
  BY DEF Released, AnswerTo
<1>2. P \in SUBSET (1 .. Len(zone_requests))
  OBVIOUS
<1> HIDE DEF P
<1>3. Listed(zone_requests', answer')
  <2>1. zone_requests \in Seq(Request) /\ Listed(zone_requests, answer)
    BY DEF RequestsInv, ZoneTypeOK
  <2>2. "freed" # "waiting"
    OBVIOUS
  <2>3. Listed(Others(P), answer')
    BY <1>1, <1>2, <2>1, <2>2, AnsweringKeepsListed
  <2> QED
    BY <1>1, <2>3
<1>4. zone_requests' \in Seq(Request)
  BY <1>1, OthersProperties DEF RequestsInv, ZoneTypeOK
<1>5. answer' \in [Client -> Answer]
  BY <1>1 DEF RequestsInv, ZoneTypeOK, Answer
<1> QED
  BY <1>1, <1>3, <1>4, <1>5 DEF RequestsInv, ZoneTypeOK

\* So does a deadlock check, which ages the others.
LEMMA DeadlockKeepsInv ==
    ASSUME RequestsInv, NEW n \in 0 .. Len(zone_requests), ZoneDeadlock(n)
    PROVE  RequestsInv'
<1> DEFINE P == Unblocked(n)
           left == Others(P)
           aged == [i \in 1 .. Len(left) |->
                      [left[i] EXCEPT !.checks = IF @ < OldAge THEN @ + 1 ELSE @]]
<1>1. /\ answer' = [c \in Client |-> IF \E i \in P : zone_requests[i].tid = c
                                     THEN "time_out" ELSE answer[c]]
      /\ zone_requests' = aged
      /\ UNCHANGED <<reservations, wait_change>>
  BY DEF ZoneDeadlock
<1>2. zone_requests \in Seq(Request) /\ Listed(zone_requests, answer)
  BY DEF RequestsInv, ZoneTypeOK
<1>3. Len(zone_requests) \in Nat
  BY <1>2, LenProperties
<1>4. P \in SUBSET (1 .. Len(zone_requests))
  BY <1>3 DEF Unblocked
<1> HIDE DEF P
<1>5. left \in Seq(Request)
  BY <1>2, OthersProperties
<1> HIDE DEF left
<1>6. Len(left) \in Nat /\ \A i \in 1 .. Len(left) : left[i] \in Request
  BY <1>5, LenProperties, ElementOfSeq
<1>7. \A i \in 1 .. Len(left) : aged[i] \in Request /\ aged[i].tid = left[i].tid
  BY <1>6 DEF Request, OldAge
<1>8. aged \in Seq(Request) /\ Len(aged) = Len(left)
  <2>1. aged \in [1 .. Len(left) -> Request]
    BY <1>7
  <2> QED
    BY <1>6, <2>1, SeqDef
<1> HIDE DEF aged
<1>9. Listed(zone_requests', answer')
  <2>1. "time_out" # "waiting"
    OBVIOUS
  <2>2. Len(aged) = Len(Others(P)) /\ \A i \in 1 .. Len(aged) : aged[i].tid = Others(P)[i].tid
    BY <1>7, <1>8 DEF left
  <2>3. Listed(aged, answer')
    BY <1>1, <1>2, <1>4, <2>1, <2>2, AnsweringKeepsListed
  <2> QED
    BY <1>1, <2>3
<1>10. answer' \in [Client -> Answer]
  BY <1>1 DEF RequestsInv, ZoneTypeOK, Answer
<1> QED
  BY <1>1, <1>8, <1>9, <1>10 DEF RequestsInv, ZoneTypeOK

\* A client that is not waiting has no request, so a new one is its only one.
LEMMA WaitKeepsInv ==
    ASSUME RequestsInv, NEW c \in Client, NEW t \in Train, NEW z \in Zone, ZoneWait(c, t, z)
    PROVE  RequestsInv'
<1> DEFINE new == [tid |-> c, train |-> t, zone |-> z, checks |-> 0]
<1>1. zone_requests \in Seq(Request) /\ answer \in [Client -> Answer] /\ answer[c] = "none"
      /\ Listed(zone_requests, answer) /\ UNCHANGED <<reservations, wait_change>>
  BY DEF RequestsInv, ZoneTypeOK, ZoneWait
<1>2. /\ Len(zone_requests) \in Nat
      /\ \A i \in 1 .. Len(zone_requests) :
            zone_requests[i].tid \in Client /\ zone_requests[i].tid # c
  <2>1. \A i \in 1 .. Len(zone_requests) : zone_requests[i] \in Request
    BY <1>1, ElementOfSeq
  <2>2. Len(zone_requests) \in Nat
    BY <1>1, LenProperties
  <2> QED
    BY <1>1, <2>1, <2>2 DEF Request, Listed
<1>3. CASE ~IsReserved(reservations, t, z)
  <2>1. answer' = [answer EXCEPT ![c] = "freed"] /\ zone_requests' = zone_requests
    BY <1>3 DEF ZoneWait
  <2>2. Listed(zone_requests', answer')
    BY <1>1, <1>2, <2>1 DEF Listed
  <2> QED
    BY <1>1, <2>1, <2>2 DEF RequestsInv, ZoneTypeOK, Answer
<1>4. CASE IsReserved(reservations, t, z)
  <2>1. answer' = [answer EXCEPT ![c] = "waiting"] /\ zone_requests' = Append(zone_requests, new)
    BY <1>4 DEF ZoneWait
  <2>2. new \in Request /\ new.tid = c
    BY DEF Request, OldAge
  <2> HIDE DEF new
  <2>3. /\ zone_requests' \in Seq(Request)
        /\ Len(zone_requests') = Len(zone_requests) + 1
        /\ \A i \in 1 .. Len(zone_requests) : zone_requests'[i] = zone_requests[i]
        /\ zone_requests'[Len(zone_requests) + 1] = new
    BY <1>1, <2>1, <2>2, AppendProperties
  <2>4. \A i \in 1 .. Len(zone_requests') :
           i \in 1 .. Len(zone_requests) \/ i = Len(zone_requests) + 1
    BY <1>2, <2>3
  <2>5. \A i \in 1 .. Len(zone_requests') : answer'[zone_requests'[i].tid] = "waiting"
    BY <1>1, <1>2, <2>1, <2>2, <2>3, <2>4 DEF Listed
  <2>6. \A i, j \in 1 .. Len(zone_requests') :
           zone_requests'[i].tid = zone_requests'[j].tid => i = j
    BY <1>1, <1>2, <2>2, <2>3, <2>4 DEF Listed
  <2>7. \A d \in Client : answer'[d] = "waiting" =>
           \E i \in 1 .. Len(zone_requests') : zone_requests'[i].tid = d
    <3> SUFFICES ASSUME NEW d \in Client, answer'[d] = "waiting"
                 PROVE  \E i \in 1 .. Len(zone_requests') : zone_requests'[i].tid = d
      OBVIOUS
    <3>1. CASE d = c
      <4>1. Len(zone_requests) + 1 \in 1 .. Len(zone_requests')
        BY <1>2, <2>3
      <4> QED
        BY <2>2, <2>3, <3>1, <4>1
    <3>2. CASE d # c
      <4>1. answer[d] = "waiting"
        BY <1>1, <2>1, <3>2
      <4>2. PICK i \in 1 .. Len(zone_requests) : zone_requests[i].tid = d
        BY <1>1, <4>1 DEF Listed
      <4>3. i \in 1 .. Len(zone_requests')
        BY <1>2, <2>3
      <4> QED
        BY <2>3, <4>2, <4>3
    <3> QED
      BY <3>1, <3>2
  <2>8. Listed(zone_requests', answer')
    BY <2>5, <2>6, <2>7 DEF Listed
  <2> QED
    BY <1>1, <2>1, <2>3, <2>8 DEF RequestsInv, ZoneTypeOK, Answer
<1> QED
  BY <1>3, <1>4

\* A client goes on with its answer: it had no request any more.
LEMMA ProceedsKeepsInv ==
    ASSUME RequestsInv, NEW c \in Client, Proceeds(c)
    PROVE  RequestsInv'
<1>1. /\ answer' = [answer EXCEPT ![c] = "none"] /\ answer[c] \in {"freed", "time_out"}
      /\ UNCHANGED <<reservations, zone_requests, wait_change>>
      /\ zone_requests \in Seq(Request) /\ answer \in [Client -> Answer]
  BY DEF Proceeds, TakeAnswer, RequestsInv, ZoneTypeOK
<1>2. \A i \in 1 .. Len(zone_requests) :
         zone_requests[i].tid \in Client /\ zone_requests[i].tid # c
  <2>1. \A i \in 1 .. Len(zone_requests) : zone_requests[i] \in Request
    BY <1>1, ElementOfSeq
  <2> QED
    BY <1>1, <2>1 DEF Request, RequestsInv, Listed
<1>3. Listed(zone_requests', answer')
  BY <1>1, <1>2 DEF RequestsInv, Listed
<1> QED
  BY <1>1, <1>3 DEF RequestsInv, ZoneTypeOK, Answer

\* What the reservations are after a release of one zone or of several.
LEMMA ReleasedReservations ==
    ASSUME ZoneTypeOK, NEW t \in Train
    PROVE  /\ \A z \in Zone : (IF reservations[z] = t THEN [reservations EXCEPT ![z] = NoTrain]
                               ELSE reservations) \in [Zone -> Train \cup {NoTrain}]
           /\ \A Y : [z \in Zone |-> IF z \in Y THEN NoTrain ELSE reservations[z]]
                         \in [Zone -> Train \cup {NoTrain}]
BY DEF ZoneTypeOK

\* The invariant is inductive.
LEMMA RequestsStep ==
    ASSUME RequestsInv, [ZoneNext]_zoneVars
    PROVE  RequestsInv'
<1> USE DEF RequestsInv
<1>1. ASSUME NEW c \in Client, Free(c), Calls(c)
      PROVE  RequestsInv'
  <2>1. ASSUME NEW t \in Train, NEW z \in Zone, ZoneReserve(t, z)
        PROVE  RequestsInv'
    BY <2>1 DEF ZoneReserve, ZoneTypeOK
  <2>2. ASSUME NEW t \in Train, NEW z \in Zone, ZoneUnreserve(t, z)
        PROVE  RequestsInv'
    BY <2>2, ReleasedReservations, ReleasedKeepsInv DEF ZoneUnreserve
  <2>3. ASSUME NEW t \in Train, NEW z \in Zone, ZoneWait(c, t, z)
        PROVE  RequestsInv'
    BY <2>3, WaitKeepsInv
  <2>4. ASSUME NEW t \in Train, NEW keep, ZoneUnreserveAll(t, keep)
        PROVE  RequestsInv'
    BY <2>4, ReleasedReservations, ReleasedKeepsInv DEF ZoneUnreserveAll
  <2>5. CASE ZoneWaitChange(c)
    BY <2>5 DEF ZoneWaitChange, ZoneTypeOK
  <2> QED
    BY <1>1, <2>1, <2>2, <2>3, <2>4, <2>5 DEF Calls
<1>2. ASSUME NEW c \in Client, Proceeds(c)
      PROVE  RequestsInv'
  BY <1>2, ProceedsKeepsInv
<1>3. ASSUME NEW n \in 0 .. Len(zone_requests), ZoneDeadlock(n)
      PROVE  RequestsInv'
  BY <1>3, DeadlockKeepsInv
<1>4. CASE UNCHANGED zoneVars
  BY <1>4 DEF zoneVars, ZoneTypeOK
<1> QED
  BY <1>1, <1>2, <1>3, <1>4 DEF ZoneNext

LEMMA RequestsInvariant == ZoneSpec => []RequestsInv
<1>1. ZoneInit => RequestsInv
  <2> SUFFICES ASSUME ZoneInit PROVE RequestsInv
    OBVIOUS
  <2>1. <<>> \in Seq(Request) /\ Len(<<>>) = 0
    BY EmptySeq
  <2>2. \A i : i \notin 1 .. Len(<<>>)
    BY <2>1
  <2>3. Listed(zone_requests, answer)
    BY <2>2 DEF ZoneInit, Listed
  <2> QED
    BY <2>1, <2>3 DEF ZoneInit, RequestsInv, ZoneTypeOK, Answer
<1>2. RequestsInv /\ [ZoneNext]_zoneVars => RequestsInv'
  BY RequestsStep
<1> QED
  BY <1>1, <1>2, PTL DEF ZoneSpec

\* Every client that waits in zone_wait has one request, nobody else has any, and every
\* variable has its type (zone_requests of user/zone-server/server.c).
THEOREM Requests == ZoneSpec => []ZoneInv
<1>1. RequestsInv => ZoneInv
  BY ListedCounts DEF RequestsInv, ZoneInv
<1> QED
  BY <1>1, RequestsInvariant, PTL

-----------------------------------------------------------------------------
(* What a step does to reservations and waiters. *)

\* A zone that a train has reserved passes to another only by its release (ZONE_RESERVE
\* of user/zone-server/server.c).
THEOREM Reservations == ZoneSpec => NeverStolen
<1> DEFINE Kept == \A z \in Zone :
                      reservations[z] # NoTrain /\ reservations'[z] # reservations[z]
                          => reservations'[z] = NoTrain
<1>1. ASSUME RequestsInv, [ZoneNext]_zoneVars
      PROVE  Kept
  <2>1. reservations \in [Zone -> Train \cup {NoTrain}]
    BY <1>1 DEF RequestsInv, ZoneTypeOK
  <2>2. ASSUME NEW t \in Train, NEW z \in Zone, ZoneReserve(t, z)
        PROVE  Kept
    BY <2>1, <2>2 DEF ZoneReserve, IsReserved
  <2>3. ASSUME NEW t \in Train, NEW z \in Zone, ZoneUnreserve(t, z)
        PROVE  Kept
    BY <2>1, <2>3 DEF ZoneUnreserve, Released
  <2>4. ASSUME NEW t \in Train, NEW keep, ZoneUnreserveAll(t, keep)
        PROVE  Kept
    BY <2>1, <2>4 DEF ZoneUnreserveAll, Released
  <2>5. CASE UNCHANGED reservations
    BY <2>5
  <2> HIDE DEF Kept
  <2>6. ASSUME NEW c \in Client, Calls(c)
        PROVE  Kept
    BY <2>2, <2>3, <2>4, <2>5, <2>6 DEF Calls, ZoneWait, ZoneWaitChange
  <2> QED
    BY <1>1, <2>5, <2>6 DEF ZoneNext, Proceeds, ZoneDeadlock, zoneVars
<1>2. RequestsInv /\ [ZoneNext]_zoneVars => [Kept]_zoneVars
  BY <1>1
<1>3. ZoneSpec => [][Kept]_zoneVars
  <2> HIDE DEF Kept
  <2> QED
    BY <1>2, RequestsInvariant, PTL DEF ZoneSpec
<1> QED
  BY <1>3 DEF NeverStolen

\* NotOvertaken of the request i, and OneGivesWay, as predicates of a step.
BarredBefore(i) ==
    answer'[zone_requests[i].tid] = "freed" /\ answer[zone_requests[i].tid] = "waiting" =>
        \A j \in 1 .. i - 1 :
            zone_requests[j].zone = zone_requests[i].zone =>
                IsReserved(reservations', zone_requests[j].train, zone_requests[i].zone)

TimedOut == {c \in Client : answer[c] = "waiting" /\ answer'[c] = "time_out"}

\* A step that answers no waiting client breaks neither.
LEMMA NobodyAnswered ==
    ASSUME RequestsInv, \A c \in Client : answer[c] = "waiting" => answer'[c] = "waiting"
    PROVE  (\A i \in 1 .. Len(zone_requests) : BarredBefore(i)) /\ Cardinality(TimedOut) <= 1
<1>1. \A i \in 1 .. Len(zone_requests) : zone_requests[i].tid \in Client
  <2>1. \A i \in 1 .. Len(zone_requests) : zone_requests[i] \in Request
    BY ElementOfSeq DEF RequestsInv, ZoneTypeOK
  <2> QED
    BY <2>1 DEF Request
<1>2. TimedOut = {}
  BY DEF TimedOut
<1> QED
  BY <1>1, <1>2, FS_EmptySet DEF BarredBefore

\* A release wakes the oldest request that is no longer barred.
LEMMA ReleasedInTurn ==
    ASSUME RequestsInv, NEW res, NEW Y, Released(res, Y)
    PROVE  (\A i \in 1 .. Len(zone_requests) : BarredBefore(i)) /\ Cardinality(TimedOut) <= 1
<1> DEFINE P == {i \in 1 .. Len(zone_requests) : \E z \in Y : FirstFreed(res, z, i)}
<1>1. /\ reservations' = res
      /\ answer' = [c \in Client |-> IF \E i \in P : zone_requests[i].tid = c
                                     THEN "freed" ELSE answer[c]]
  BY DEF Released, AnswerTo
<1>2. \A i \in 1 .. Len(zone_requests) : zone_requests[i].tid \in Client
  <2>1. \A i \in 1 .. Len(zone_requests) : zone_requests[i] \in Request
    BY ElementOfSeq DEF RequestsInv, ZoneTypeOK
  <2> QED
    BY <2>1 DEF Request
<1>3. ASSUME NEW i \in 1 .. Len(zone_requests),
             answer'[zone_requests[i].tid] = "freed", answer[zone_requests[i].tid] = "waiting"
      PROVE  \A j \in 1 .. i - 1 :
                 zone_requests[j].zone = zone_requests[i].zone =>
                     IsReserved(reservations', zone_requests[j].train, zone_requests[i].zone)
  <2>1. PICK k \in P : zone_requests[k].tid = zone_requests[i].tid
    <3> HIDE DEF P
    <3> QED
      BY <1>1, <1>2, <1>3
  <2>2. k = i
    BY <2>1 DEF RequestsInv, Listed
  <2>3. PICK z \in Y : FirstFreed(res, z, i)
    BY <2>1, <2>2
  <2> QED
    BY <1>1, <2>3 DEF FirstFreed
<1>4. TimedOut = {}
  <2> HIDE DEF P
  <2> QED
    BY <1>1 DEF TimedOut
<1> QED
  BY <1>3, <1>4, FS_EmptySet DEF BarredBefore

\* A deadlock check answers one request, and with "time_out".
LEMMA DeadlockInTurn ==
    ASSUME RequestsInv, NEW n \in 0 .. Len(zone_requests), ZoneDeadlock(n)
    PROVE  (\A i \in 1 .. Len(zone_requests) : BarredBefore(i)) /\ Cardinality(TimedOut) <= 1
<1> DEFINE P == Unblocked(n)
<1>1. answer' = [c \in Client |-> IF \E i \in P : zone_requests[i].tid = c
                                  THEN "time_out" ELSE answer[c]]
  BY DEF ZoneDeadlock
<1>2. \A i \in 1 .. Len(zone_requests) : zone_requests[i].tid \in Client
  <2>1. \A i \in 1 .. Len(zone_requests) : zone_requests[i] \in Request
    BY ElementOfSeq DEF RequestsInv, ZoneTypeOK
  <2> QED
    BY <2>1 DEF Request
<1>3. \A i, k \in P : i = k
  <2> SUFFICES ASSUME NEW i \in P, NEW k \in P, i # k
               PROVE  FALSE
    OBVIOUS
  <2>1. i \in 1 .. n /\ k \in 1 .. n /\ n \in Int
    BY DEF Unblocked
  <2>2. Eligible(i) /\ \A j \in 1 .. i - 1 : ~Eligible(j)
    BY DEF Unblocked
  <2>3. Eligible(k) /\ \A j \in 1 .. k - 1 : ~Eligible(j)
    BY DEF Unblocked
  <2>4. i \in 1 .. k - 1 \/ k \in 1 .. i - 1
    BY <2>1
  <2> QED
    BY <2>2, <2>3, <2>4
<1> HIDE DEF P
<1>4. \A c \in TimedOut : \E i \in P : zone_requests[i].tid = c
  BY <1>1 DEF TimedOut
<1>5. \A c, d \in TimedOut : c = d
  BY <1>3, <1>4
<1>6. Cardinality(TimedOut) <= 1
  <2>1. Cardinality(TimedOut) = IF TimedOut = {} THEN 0 ELSE 1
    BY <1>5, AtMostOne
  <2> QED
    BY <2>1
<1>7. ASSUME NEW i \in 1 .. Len(zone_requests)
      PROVE  BarredBefore(i)
  <2>1. answer'[zone_requests[i].tid] \in {"time_out", answer[zone_requests[i].tid]}
    BY <1>1, <1>2
  <2> QED
    BY <2>1 DEF BarredBefore
<1> QED
  BY <1>6, <1>7

\* Waiters are answered in their turn: a release passes over none that it frees, and a
\* deadlock check lets one give way (reservationWaitUnblock and unblockStaleRequests of
\* user/zone-server/server.c).
THEOREM Turns == ZoneSpec => InTurn
<1> DEFINE Barred == \A i \in 1 .. Len(zone_requests) : BarredBefore(i)
           One    == Cardinality(TimedOut) <= 1
           Both   == Barred /\ One
<1>1. ASSUME RequestsInv, [ZoneNext]_zoneVars
      PROVE  Both
  <2>1. answer \in [Client -> Answer]
    BY <1>1 DEF RequestsInv, ZoneTypeOK
  <2>2. ASSUME NEW t \in Train, NEW z \in Zone, ZoneUnreserve(t, z)
        PROVE  Both
    BY <1>1, <2>2, ReleasedInTurn DEF ZoneUnreserve
  <2>3. ASSUME NEW t \in Train, NEW keep, ZoneUnreserveAll(t, keep)
        PROVE  Both
    BY <1>1, <2>3, ReleasedInTurn DEF ZoneUnreserveAll
  <2>4. ASSUME NEW n \in 0 .. Len(zone_requests), ZoneDeadlock(n)
        PROVE  Both
    BY <1>1, <2>4, DeadlockInTurn
  <2>5. ASSUME UNCHANGED answer \/ \E c \in Client : answer[c] # "waiting"
                   /\ \E a : answer' = [answer EXCEPT ![c] = a]
        PROVE  Both
    <3>1. \A c \in Client : answer[c] = "waiting" => answer'[c] = "waiting"
      BY <2>1, <2>5
    <3> QED
      BY <1>1, <3>1, NobodyAnswered
  <2> HIDE DEF Both
  <2>6. ASSUME NEW c \in Client, NEW t \in Train, NEW z \in Zone, ZoneWait(c, t, z)
        PROVE  Both
    BY <2>5, <2>6 DEF ZoneWait
  <2>7. ASSUME NEW c \in Client, Calls(c)
        PROVE  Both
    BY <2>2, <2>3, <2>5, <2>6, <2>7 DEF Calls, ZoneReserve, ZoneWaitChange
  <2>8. ASSUME NEW c \in Client, Proceeds(c)
        PROVE  Both
    BY <2>5, <2>8 DEF Proceeds, TakeAnswer
  <2>9. CASE UNCHANGED zoneVars
    BY <2>5, <2>9 DEF zoneVars
  <2> QED
    BY <1>1, <2>4, <2>7, <2>8, <2>9 DEF ZoneNext
<1> DEFINE InOrder ==
               \A i \in 1 .. Len(zone_requests) :
                  LET w == zone_requests[i]
                  IN  answer'[w.tid] = "freed" /\ answer[w.tid] = "waiting" =>
                        \A j \in 1 .. i - 1 :
                            zone_requests[j].zone = w.zone =>
                                IsReserved(reservations', zone_requests[j].train, w.zone)
           OneTimeOut ==
               Cardinality({c \in Client : answer[c] = "waiting" /\ answer'[c] = "time_out"}) <= 1
<1>2. RequestsInv /\ [ZoneNext]_zoneVars => [InOrder]_zoneVars /\ [OneTimeOut]_zoneVars
  BY <1>1 DEF BarredBefore, TimedOut
<1>3. ZoneSpec => [][InOrder]_zoneVars /\ [][OneTimeOut]_zoneVars
  <2> HIDE DEF InOrder, OneTimeOut
  <2> QED
    BY <1>2, RequestsInvariant, PTL DEF ZoneSpec
<1>4. ZoneSpec => NotOvertaken
  BY <1>3 DEF NotOvertaken
<1>5. ZoneSpec => OneGivesWay
  BY <1>3, PTL DEF OneGivesWay
<1> QED
  BY <1>4, <1>5 DEF InTurn
=============================================================================
