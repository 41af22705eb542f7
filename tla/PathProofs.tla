----------------------------- MODULE PathProofs -----------------------------
(***************************************************************************)
(* Theorems about PathFinder and its search, for every track, every set of *)
(* trains and destinations and every stopping distance.                    *)
(***************************************************************************)
EXTENDS PathFinder, FiniteSetTheorems, SequenceTheorems, WellFoundedInduction, TLAPS

-----------------------------------------------------------------------------
(* The inductive invariant. *)

\* The zone a train enters at place i of route r.
Zoned(r, i) == Into(r[i])

\* A route starts at a sensor, passes no node twice, and each node lies in the zone the
\* train has entered at the node before; it turns at sensors.
Way(r) ==
    /\ r \in Seq(Node) /\ Len(r) >= 1 /\ r[1] \in Sensor
    /\ \A i, j \in 1 .. Len(r) : r[i] = r[j] => i = j
    /\ \A i \in 2 .. Len(r) : /\ ZoneOf[r[i]] = Into(r[i - 1])
                              /\ Turns(r, i) => r[i - 1] \in Sensor

Typed ==
    /\ reservations \in [Zone -> Train \cup {NoTrain}]
    /\ answer \in [Train -> Z!Answer]
    /\ wait_change = {}
    /\ pc \in [Train -> {"idle", "plan", "reserve", "drive", "wait", "waiting", "again"}]
    /\ route \in [Train -> Seq(Node)]
    /\ next \in [Train -> Nat] /\ target \in [Train -> Nat] /\ deadlocks \in [Train -> Nat]
    /\ lo \in [Train -> Nat] /\ cutoff \in [Train -> Nat] /\ seen \in [Train -> Nat]
    /\ at \in [Train -> Nat]
    /\ zone_sem \in [Train -> [Zone -> Int]]
    /\ src_is_rev \in [Train -> BOOLEAN] /\ turned \in [Train -> BOOLEAN]
    /\ slipped \subseteq Train

\* The places of the route train t keeps are in order, and the target is the last sensor reserved.
InOrder(t) ==
    /\ Way(route[t])
    /\ next[t] \in 2 .. Len(route[t]) + 1
    /\ target[t] \in 1 .. next[t] - 1
    /\ at[t] \in 1 .. target[t]
    /\ lo[t] \in 1 .. at[t]
    /\ cutoff[t] \in lo[t] + 1 .. target[t] + 1
    /\ seen[t] \in lo[t] .. target[t]
    /\ route[t][target[t]] \in Sensor /\ route[t][at[t]] \in Sensor
    /\ \A i \in target[t] + 1 .. next[t] - 1 : route[t][i] \notin Sensor

\* Where the train of a task is, by what the task does.
Phased(t) ==
    /\ pc[t] \in {"idle", "plan"} => Len(route[t]) = 1
    /\ pc[t] # "drive" => seen[t] = lo[t] /\ at[t] = lo[t] /\ cutoff[t] = lo[t] + 1 /\ ~src_is_rev[t]
    /\ pc[t] \in {"wait", "waiting", "again"} => lo[t] = target[t] /\ next[t] <= Len(route[t])
    /\ deadlocks[t] <= IF pc[t] = "plan" THEN MaxDeadlocks + 1 ELSE MaxDeadlocks
    /\ pc[t] = "drive" /\ lo[t] < target[t] =>
            at[t] <= Stop(t) /\ (lo[t] < Stop(t) /\ seen[t] >= Stop(t) => at[t] = Stop(t))

\* A task that is not driving holds no zone but those it has taken from the train on.
Resting(t) ==
    pc[t] # "drive" => \A z \in Zone : reservations[z] = t =>
                            \E i \in lo[t] .. next[t] - 1 : z = Zoned(route[t], i)

\* The places from a to b of route r at which a train enters zone z.
Places(r, z, a, b) == {i \in a .. b : Zoned(r, i) = z}

\* The first place whose zone is still to be counted down, and the places counted for a zone.
Low(t) == IF src_is_rev[t] THEN lo[t] - 1 ELSE cutoff[t] - 1
CountedFor(t, z) == Places(route[t], z, Low(t), next[t] - 1)

\* A train that has not slipped has every zone from there on, and counts each place.
Kept(t) ==
    /\ turned[t] => pc[t] = "drive" /\ src_is_rev[t] /\ at[t] = lo[t]
    /\ seen[t] <= at[t] /\ cutoff[t] <= seen[t] + 1
    /\ src_is_rev[t] => cutoff[t] = lo[t] + 1 /\ lo[t] >= 2
    /\ \A i \in Low(t) .. next[t] - 1 : reservations[Zoned(route[t], i)] = t
    /\ pc[t] \notin {"idle", "plan"} =>
            \A z \in Zone : Cardinality(CountedFor(t, z)) <= zone_sem[t][z]

IInv ==
    /\ Typed
    /\ \A t \in Train : InOrder(t) /\ Phased(t) /\ Resting(t)
    /\ \A t \in Train \ slipped : Kept(t)

-----------------------------------------------------------------------------
(* The track and the ways on it. *)

\* First is the least member of a set of places, Latest the greatest of a bounded one.
LEMMA FirstProperties ==
    ASSUME NEW S \in SUBSET Nat, S # {}
    PROVE  First(S) \in S /\ \A j \in S : First(S) <= j
<1> DEFINE R == {ss \in Nat \X Nat : ss[1] < ss[2]}
<1>1. IsWellFoundedOn(R, Nat)
  BY NatLessThanWellFounded DEF OpToRel
<1>2. PICK x \in S : \A y \in S : ~(<<y, x>> \in R)
  <2> HIDE DEF R
  <2> QED
    BY <1>1, WFMin
<1>3. ASSUME NEW y \in S PROVE x <= y
  <2>1. x \in Nat /\ y \in Nat
    OBVIOUS
  <2>2. <<y, x>> \in Nat \X Nat /\ ~(y < x)
    BY <1>2, <2>1
  <2> QED
    BY <2>1, <2>2
<1> QED
  BY <1>3 DEF First

\* Latest, of the places up to b, is one of them and the greatest.
LEMMA LatestProperties ==
    ASSUME NEW b \in Nat, NEW S \in SUBSET (0 .. b), S # {}
    PROVE  Latest(S) \in S /\ \A j \in S : j <= Latest(S)
<1> DEFINE M == {b - x : x \in S}
<1>1. M \in SUBSET Nat /\ M # {}
  <2>1. \A x \in S : x \in 0 .. b
    OBVIOUS
  <2>2. \A x \in S : b - x \in Nat
    BY <2>1
  <2> QED
    BY <2>2
<1>2. First(M) \in M /\ \A j \in M : First(M) <= j
  <2> HIDE DEF M
  <2> QED
    BY <1>1, FirstProperties
<1>3. PICK x \in S : First(M) = b - x
  BY <1>2
<1>4. ASSUME NEW j \in S PROVE j <= x
  <2>1. First(M) <= b - j
    BY <1>2
  <2>2. j \in Int /\ x \in Int
    OBVIOUS
  <2> QED
    BY <1>3, <2>1, <2>2
<1> QED
  BY <1>4 DEF Latest

\* An edge of the search is one of the track, or turns at a sensor.
LEMMA EdgesProperties ==
    ASSUME NEW n \in Node
    PROVE  /\ Edges(n) \in Seq([to : Node, dist : Nat]) /\ Len(Edges(n)) \in Nat
           /\ \A i \in 1 .. Len(Edges(n)) :
                 /\ Edges(n)[i] \in [to : Node, dist : Nat]
                 /\ \/ \E j \in 1 .. Len(Leads[n]) : Edges(n)[i] = Leads[n][j]
                    \/ n \in Sensor /\ Edges(n)[i] = [to |-> Reverse[n], dist |-> 0]
<1> DEFINE E == [to : Node, dist : Nat]
           x == [to |-> Reverse[n], dist |-> 0]
           b == IF n \in Sensor THEN <<x>> ELSE <<>>
<1>1. Leads[n] \in Seq(E) /\ x \in E
  BY TrackAssumption
<1>2. b \in Seq(E) /\ \A i \in 1 .. Len(b) : n \in Sensor /\ b[i] = x
  <2> HIDE DEF E, x
  <2>1. CASE n \in Sensor
    <3>1. b = <<x>>
      BY <2>1
    <3>2. b \in Seq(E) /\ Len(b) = 1 /\ b[1] = x
      BY <1>1, <3>1
    <3> HIDE DEF b
    <3>3. \A i \in 1 .. Len(b) : i = 1
      BY <3>2
    <3> QED
      BY <2>1, <3>2, <3>3
  <2>2. CASE n \notin Sensor
    <3>1. b = <<>>
      BY <2>2
    <3> HIDE DEF b
    <3>2. b \in Seq(E) /\ Len(b) = 0
      BY <3>1, EmptySeq
    <3> QED
      BY <3>2
  <2> QED
    BY <2>1, <2>2
<1>3. Edges(n) = Leads[n] \o b
  BY DEF Edges
<1> HIDE DEF b, x, E
<1>4. /\ Edges(n) \in Seq(E) /\ Len(Edges(n)) = Len(Leads[n]) + Len(b)
      /\ \A i \in 1 .. Len(Leads[n]) + Len(b) :
            Edges(n)[i] = IF i <= Len(Leads[n]) THEN Leads[n][i] ELSE b[i - Len(Leads[n])]
  BY <1>1, <1>2, <1>3, ConcatProperties
<1>5. Len(Leads[n]) \in Nat /\ Len(b) \in Nat /\ Len(Edges(n)) \in Nat
  BY <1>1, <1>2, <1>4, LenProperties
<1>6. ASSUME NEW i \in 1 .. Len(Edges(n))
      PROVE  /\ Edges(n)[i] \in E
             /\ (\E j \in 1 .. Len(Leads[n]) : Edges(n)[i] = Leads[n][j]) \/ (n \in Sensor /\ Edges(n)[i] = x)
  <2>1. Edges(n)[i] \in E
    BY <1>4, ElementOfSeq
  <2>2. i \in Nat /\ i \in 1 .. Len(Leads[n]) + Len(b)
    BY <1>4
  <2>3. CASE i <= Len(Leads[n])
    <3>1. i \in 1 .. Len(Leads[n]) /\ Edges(n)[i] = Leads[n][i]
      BY <1>4, <1>5, <2>2, <2>3
    <3> QED
      BY <2>1, <3>1
  <2>4. CASE ~(i <= Len(Leads[n]))
    <3>1. i - Len(Leads[n]) \in 1 .. Len(b) /\ Edges(n)[i] = b[i - Len(Leads[n])]
      BY <1>4, <1>5, <2>2, <2>4
    <3> QED
      BY <1>2, <2>1, <3>1
  <2> QED
    BY <2>3, <2>4
<1> QED
  BY <1>4, <1>5, <1>6 DEF E, x

\* An edge of the search leads on, or turns at a sensor.
LEMMA JoinedOrTurned ==
    ASSUME NEW n \in Node, NEW m \in Joined(n)
    PROVE  m \in Node /\ (m \in Ahead(n) \/ (n \in Sensor /\ m = Reverse[n]))
<1>1. PICK i \in 1 .. Len(Edges(n)) : m = Edges(n)[i].to
  BY DEF Joined
<1>2. m \in Node
  BY <1>1, EdgesProperties
<1>3. CASE \E j \in 1 .. Len(Leads[n]) : Edges(n)[i] = Leads[n][j]
  BY <1>1, <1>2, <1>3 DEF Ahead
<1>4. CASE n \in Sensor /\ Edges(n)[i] = [to |-> Reverse[n], dist |-> 0]
  BY <1>1, <1>2, <1>4
<1> QED
  BY <1>3, <1>4, EdgesProperties

\* Nothing leads on from the end of the track, and nothing leads to a node that is one the
\* other way round.
LEMMA EndsOfTrack ==
    ASSUME NEW n \in Node, Edges(n) = <<>>
    PROVE  n \notin Sensor /\ Joined(n) = {} /\ \A m \in Node : Reverse[n] \notin Ahead(m)
<1>1. Leads[n] \in Seq([to : Node, dist : Nat]) /\ Reverse[n] \in Node
  BY TrackAssumption
<1>2. n \notin Sensor
  <2> SUFFICES ASSUME n \in Sensor PROVE FALSE
    OBVIOUS
  <2> DEFINE E == [to : Node, dist : Nat]
             x == [to |-> Reverse[n], dist |-> 0]
             b == <<x>>
  <2>1. x \in E /\ Leads[n] \in Seq(E)
    BY <1>1
  <2>2. Len(Leads[n] \o b) = Len(Leads[n]) + 1
    <3> HIDE DEF E, x
    <3>1. b \in Seq(E) /\ Len(b) = 1
      BY <2>1
    <3> HIDE DEF b
    <3>2. Len(Leads[n] \o b) = Len(Leads[n]) + Len(b)
      BY <2>1, <3>1, ConcatProperties
    <3> QED
      BY <3>1, <3>2
  <2>3. Edges(n) = Leads[n] \o b
    BY DEF Edges
  <2>4. Len(Edges(n)) = 0
    BY EmptySeq
  <2>5. Len(Leads[n]) \in Nat
    BY <1>1, LenProperties
  <2> QED
    BY <2>2, <2>3, <2>4, <2>5
<1>3. Len(Edges(n)) = 0
  BY EmptySeq
<1>4. Joined(n) = {}
  BY <1>3 DEF Joined
<1>5. Ahead(n) = {}
  <2>1. Edges(n) = Leads[n] \o <<>>
    BY <1>2 DEF Edges
  <2>2. Len(Leads[n]) = 0
    <3>1. Len(Leads[n] \o <<>>) = Len(Leads[n]) + Len(<<>>)
      BY <1>1, EmptySeq, ConcatProperties
    <3>2. Len(Leads[n]) \in Nat /\ Len(<<>>) = 0
      BY <1>1, LenProperties
    <3> QED
      BY <1>3, <2>1, <3>1, <3>2
  <2> QED
    BY <2>2 DEF Ahead
<1>6. ASSUME NEW m \in Node, Reverse[n] \in Ahead(m) PROVE FALSE
  <2>1. Reverse[m] \in Ahead(Reverse[Reverse[n]])
    BY <1>1, <1>6, TrackAssumption
  <2>2. Reverse[Reverse[n]] = n
    BY TrackAssumption
  <2> QED
    BY <1>5, <2>1, <2>2
<1> QED
  BY <1>2, <1>4, <1>6

-----------------------------------------------------------------------------
(* Induction and recursion along the places of a sequence. *)

\* Induction along the places 0 to n.
LEMMA Upward ==
    ASSUME NEW n \in Nat, NEW A, 0 \in A, \A i \in 1 .. n : i - 1 \in A => i \in A
    PROVE  \A i \in 0 .. n : i \in A
<1> DEFINE S == {i \in 0 .. n : i \notin A}
<1> SUFFICES ASSUME S # {} PROVE FALSE
  OBVIOUS
<1>1. S \in SUBSET Nat
  OBVIOUS
<1>2. First(S) \in S /\ \A j \in S : First(S) <= j
  <2> HIDE DEF S
  <2> QED
    BY <1>1, FirstProperties
<1>3. PICK i \in S : \A j \in S : i <= j
  BY <1>2
<1>4. i \in 1 .. n /\ i \notin A
  OBVIOUS
<1>5. i - 1 \notin S
  BY <1>3, <1>4
<1>6. i - 1 \in A
  BY <1>4, <1>5
<1> QED
  BY <1>4, <1>6

\* The steps of a recursion of length n over Y.
Stages(n, Y) == [1 .. n -> [Y -> Y]]

\* A function can be defined by recursion along the places 0 to n.
LEMMA Recursion ==
    ASSUME NEW n \in Nat, NEW Y, NEW x \in Y, NEW G \in Stages(n, Y)
    PROVE  \E f \in [0 .. n -> Y] : f[0] = x /\ \A i \in 1 .. n : f[i] = G[i][f[i - 1]]
<1> DEFINE Upto(k, f) == f[0] = x /\ \A i \in 1 .. k : f[i] = G[i][f[i - 1]]
           A == {k \in 0 .. n : \E f \in [0 .. k -> Y] : Upto(k, f)}
<1>0. G \in [1 .. n -> [Y -> Y]]
  BY DEF Stages
<1>1. 0 \in A
  <2> DEFINE f == [i \in 0 .. 0 |-> x]
  <2>1. f \in [0 .. 0 -> Y] /\ Upto(0, f)
    OBVIOUS
  <2> HIDE DEF f, Upto
  <2> QED
    BY <2>1
<1>2. ASSUME NEW k \in 1 .. n, k - 1 \in A PROVE k \in A
  <2>1. PICK f \in [0 .. k - 1 -> Y] : Upto(k - 1, f)
    BY <1>2
  <2> DEFINE g == [i \in 0 .. k |-> IF i = k THEN G[k][f[k - 1]] ELSE f[i]]
  <2>2. g[k] = G[k][f[k - 1]] /\ \A i \in 0 .. k - 1 : g[i] = f[i]
    OBVIOUS
  <2>3. g \in [0 .. k -> Y]
    <3>1. f[k - 1] \in Y
      OBVIOUS
    <3>2. G[k] \in [Y -> Y]
      BY <1>0
    <3>3. G[k][f[k - 1]] \in Y
      BY <3>1, <3>2
    <3>4. \A i \in 0 .. k : i # k => i \in 0 .. k - 1
      OBVIOUS
    <3> QED
      BY <3>3, <3>4
  <2> HIDE DEF g
  <2>4. \A i \in 1 .. k : g[i] = G[i][g[i - 1]]
    <3> TAKE i \in 1 .. k
    <3>1. i - 1 \in 0 .. k - 1 /\ g[i - 1] = f[i - 1]
      BY <2>2
    <3>2. CASE i # k
      <4>1. i \in 1 .. k - 1 /\ i \in 0 .. k - 1
        BY <3>2
      <4> QED
        BY <2>1, <2>2, <3>1, <4>1
    <3> QED
      BY <2>2, <3>1, <3>2
  <2>5. g[0] = x
    BY <2>1, <2>2
  <2>6. Upto(k, g)
    BY <2>4, <2>5
  <2> HIDE DEF Upto
  <2> QED
    BY <2>3, <2>6
<1>3. n \in A
  <2> HIDE DEF A
  <2>1. \A i \in 0 .. n : i \in A
    BY <1>1, <1>2, Upward
  <2> QED
    BY <2>1
<1> QED
  BY <1>3

-----------------------------------------------------------------------------
(* The edges of the search. *)

LEMMA UnseenIsNatural == Unseen \in Nat /\ Unseen > 0
  BY SMT DEF Unseen

\* The whole track is shorter than Unseen.
LEMMA EdgesShort ==
    ASSUME NEW n \in Node, NEW i \in 1 .. Len(Edges(n))
    PROVE  Edges(n)[i].dist * Cardinality(Node) < Unseen
<1>1. Cardinality(Node) \in Nat
  BY TrackAssumption, FS_CardinalityType
<1>2. CASE \E j \in 1 .. Len(Leads[n]) : Edges(n)[i] = Leads[n][j]
  BY <1>2, LengthAssumption
<1>3. CASE Edges(n)[i] = [to |-> Reverse[n], dist |-> 0]
  <2>1. Edges(n)[i].dist = 0
    BY <1>3
  <2> QED
    BY <1>1, <2>1, UnseenIsNatural
<1> QED
  BY <1>2, <1>3, EdgesProperties

\* Step is the length of the shortest edge.
LEMMA StepProperties ==
    ASSUME NEW n \in Node, NEW m \in Joined(n)
    PROVE  /\ m \in Node /\ Step(n, m) \in Nat
           /\ \E i \in 1 .. Len(Edges(n)) : Edges(n)[i].to = m /\ Edges(n)[i].dist = Step(n, m)
           /\ \A i \in 1 .. Len(Edges(n)) : Edges(n)[i].to = m => Step(n, m) <= Edges(n)[i].dist
<1> DEFINE I == {j \in 1 .. Len(Edges(n)) : Edges(n)[j].to = m}
           dists == {Edges(n)[i].dist : i \in I}
<1>1. PICK k \in 1 .. Len(Edges(n)) : Edges(n)[k].to = m
  BY DEF Joined
<1>2. \A i \in 1 .. Len(Edges(n)) : Edges(n)[i].to \in Node /\ Edges(n)[i].dist \in Nat
  BY EdgesProperties
<1>3. k \in I
  BY <1>1
<1>4. dists \in SUBSET Nat /\ dists # {}
  BY <1>2, <1>3
<1>5. First(dists) \in dists /\ \A e \in dists : First(dists) <= e
  <2> HIDE DEF dists
  <2> QED
    BY <1>4, FirstProperties
<1>6. Step(n, m) = First(dists)
  BY DEF Step, First
<1>7. PICK i \in I : First(dists) = Edges(n)[i].dist
  BY <1>5
<1>8. \A j \in I : Step(n, m) <= Edges(n)[j].dist
  BY <1>5, <1>6
<1> HIDE DEF dists
<1> QED
  BY <1>1, <1>2, <1>6, <1>7, <1>8

-----------------------------------------------------------------------------
(* One round of the search. *)

SearchState ==
    [dist : [Node -> 0 .. Unseen], prev : [Node -> Node], visited : SUBSET Node, found : SUBSET Node]

\* What Relax does to a node.
LEMMA RelaxProperties ==
    ASSUME NEW s \in SearchState, NEW n \in Node, NEW edge \in [to : Node, dist : Nat]
    PROVE  /\ Relax(s, n, edge) \in SearchState
           /\ Relax(s, n, edge).visited = s.visited /\ Relax(s, n, edge).found = s.found
           /\ \A m \in Node :
                 IF m = edge.to /\ s.dist[n] + edge.dist < s.dist[m]
                 THEN Relax(s, n, edge).dist[m] = s.dist[n] + edge.dist /\ Relax(s, n, edge).prev[m] = n
                 ELSE Relax(s, n, edge).dist[m] = s.dist[m] /\ Relax(s, n, edge).prev[m] = s.prev[m]
<1>1. /\ s.dist \in [Node -> 0 .. Unseen] /\ s.prev \in [Node -> Node]
      /\ s.visited \in SUBSET Node /\ s.found \in SUBSET Node
      /\ s = [dist |-> s.dist, prev |-> s.prev, visited |-> s.visited, found |-> s.found]
  BY DEF SearchState
<1>2. edge.to \in Node /\ edge.dist \in Nat
  OBVIOUS
<1>3. CASE s.dist[n] + edge.dist < s.dist[edge.to]
  <2> DEFINE d == s.dist[n] + edge.dist
             r == [dist |-> [s.dist EXCEPT ![edge.to] = d], prev |-> [s.prev EXCEPT ![edge.to] = n],
                   visited |-> s.visited, found |-> s.found]
  <2>1. Relax(s, n, edge) = r
    <3>1. PICK h, p, u, f : s = [dist |-> h, prev |-> p, visited |-> u, found |-> f]
      BY <1>1
    <3>2. s.dist = h /\ s.prev = p /\ s.visited = u /\ s.found = f
      BY <3>1
    <3>3. Relax(s, n, edge) = [s EXCEPT !.dist[edge.to] = d, !.prev[edge.to] = n]
      BY ONLY <1>3 DEF Relax
    <3> QED
      BY ONLY <3>1, <3>2, <3>3
  <2>2. d \in 0 .. Unseen
    BY <1>1, <1>2, <1>3, UnseenIsNatural
  <2>3. r \in SearchState
    BY <1>1, <1>2, <2>2 DEF SearchState
  <2> QED
    BY <1>1, <1>2, <1>3, <2>1, <2>3
<1>4. CASE ~(s.dist[n] + edge.dist < s.dist[edge.to])
  <2>1. Relax(s, n, edge) = s
    BY <1>4 DEF Relax
  <2> QED
    BY <1>4, <2>1
<1> QED
  BY <1>3, <1>4

\* State r comes from state v by the first k edges of n: a node has been left alone, or is
\* nearer by one of the edges, and no edge brings it nearer still.
RelaxedBy(v, n, k, r) ==
    /\ r \in SearchState /\ r.visited = v.visited /\ r.found = v.found
    /\ r.dist[n] = v.dist[n]
    /\ \A m \in Node :
          \/ r.dist[m] = v.dist[m] /\ r.prev[m] = v.prev[m]
          \/ /\ r.dist[m] < v.dist[m] /\ r.prev[m] = n
             /\ \E j \in 1 .. k : Edges(n)[j].to = m /\ r.dist[m] = v.dist[n] + Edges(n)[j].dist
    /\ \A j \in 1 .. k : r.dist[Edges(n)[j].to] <= v.dist[n] + Edges(n)[j].dist

LEMMA RelaxOne ==
    ASSUME NEW v \in SearchState, NEW n \in Node, NEW k \in 1 .. Len(Edges(n)), NEW r,
           RelaxedBy(v, n, k - 1, r)
    PROVE  RelaxedBy(v, n, k, Relax(r, n, Edges(n)[k]))
<1> DEFINE edge == Edges(n)[k]
           q == Relax(r, n, edge)
<1>1. \A j \in 1 .. Len(Edges(n)) :
         Edges(n)[j] \in [to : Node, dist : Nat] /\ Edges(n)[j].to \in Node /\ Edges(n)[j].dist \in Nat
  BY EdgesProperties
<1>2. Len(Edges(n)) \in Nat /\ edge \in [to : Node, dist : Nat]
  BY <1>1, EdgesProperties
<1>3. r \in SearchState /\ \A m \in Node : r.dist[m] \in Nat /\ v.dist[m] \in Nat
  BY UnseenIsNatural DEF RelaxedBy, SearchState
<1>4. /\ q \in SearchState /\ q.visited = r.visited /\ q.found = r.found
      /\ \A m \in Node :
            IF m = edge.to /\ r.dist[n] + edge.dist < r.dist[m]
            THEN q.dist[m] = r.dist[n] + edge.dist /\ q.prev[m] = n
            ELSE q.dist[m] = r.dist[m] /\ q.prev[m] = r.prev[m]
  BY <1>2, <1>3, RelaxProperties
<1>5. r.dist[n] = v.dist[n] /\ r.visited = v.visited /\ r.found = v.found
  BY DEF RelaxedBy
<1>6. edge.to \in Node /\ edge.dist \in Nat /\ k \in 1 .. k /\ \A j \in 1 .. k - 1 : j \in 1 .. k
  BY <1>1, <1>2
<1>7. \A m \in Node : q.dist[m] <= r.dist[m]
  BY <1>3, <1>4, <1>6
<1>8. q.dist[n] = v.dist[n]
  BY <1>3, <1>4, <1>5, <1>6
<1>9. ASSUME NEW m \in Node
      PROVE  \/ q.dist[m] = v.dist[m] /\ q.prev[m] = v.prev[m]
             \/ /\ q.dist[m] < v.dist[m] /\ q.prev[m] = n
                /\ \E j \in 1 .. k : Edges(n)[j].to = m /\ q.dist[m] = v.dist[n] + Edges(n)[j].dist
  <2>1. \/ r.dist[m] = v.dist[m] /\ r.prev[m] = v.prev[m]
        \/ /\ r.dist[m] < v.dist[m] /\ r.prev[m] = n
           /\ \E j \in 1 .. k - 1 : Edges(n)[j].to = m /\ r.dist[m] = v.dist[n] + Edges(n)[j].dist
    BY DEF RelaxedBy
  <2>2. CASE m = edge.to /\ r.dist[n] + edge.dist < r.dist[m]
    <3>1. q.dist[m] = v.dist[n] + edge.dist /\ q.prev[m] = n /\ q.dist[m] < r.dist[m] /\ r.dist[m] <= v.dist[m]
      BY <1>3, <1>4, <1>5, <2>1, <2>2
    <3>2. q.dist[m] < v.dist[m]
      BY <1>3, <1>6, <3>1
    <3> QED
      BY <1>6, <2>2, <3>1, <3>2
  <2>3. CASE ~(m = edge.to /\ r.dist[n] + edge.dist < r.dist[m])
    <3>1. q.dist[m] = r.dist[m] /\ q.prev[m] = r.prev[m]
      BY <1>4, <2>3
    <3> QED
      BY <1>6, <2>1, <3>1
  <2> QED
    BY <2>2, <2>3
<1>10. ASSUME NEW j \in 1 .. k PROVE q.dist[Edges(n)[j].to] <= v.dist[n] + Edges(n)[j].dist
  <2>1. j \in 1 .. Len(Edges(n)) /\ Edges(n)[j].to \in Node /\ Edges(n)[j].dist \in Nat
    BY <1>1, <1>2
  <2>2. CASE j = k
    BY <1>3, <1>4, <1>5, <1>6, <2>2
  <2>3. CASE j # k
    <3>1. j \in 1 .. k - 1
      BY <2>3
    <3>2. r.dist[Edges(n)[j].to] <= v.dist[n] + Edges(n)[j].dist
      BY <3>1 DEF RelaxedBy
    <3>3. \A m \in Node : q.dist[m] \in Nat
      BY <1>4, UnseenIsNatural DEF SearchState
    <3> HIDE DEF q
    <3>4. PICK m \in Node : m = Edges(n)[j].to
      BY <2>1
    <3> QED
      BY <1>3, <1>7, <2>1, <3>2, <3>3, <3>4
  <2> QED
    BY <2>2, <2>3
<1> HIDE DEF q, edge
<1> QED
  BY <1>4, <1>5, <1>8, <1>9, <1>10 DEF RelaxedBy, q, edge

\* Relaxed takes all edges.
LEMMA RelaxedProperties ==
    ASSUME NEW v \in SearchState, NEW n \in Node
    PROVE  RelaxedBy(v, n, Len(Edges(n)), Relaxed(v, n))
<1> DEFINE N == Len(Edges(n))
           S == [i \in 0 .. N |-> {r \in SearchState : RelaxedBy(v, n, i, r)}]
           G == [i \in 1 .. N |-> [r \in SearchState |-> Relax(r, n, Edges(n)[i])]]
           Is(f) == f = [i \in 0 .. N |-> IF i = 0 THEN v ELSE Relax(f[i - 1], n, Edges(n)[i])]
           f == CHOOSE f : Is(f)
<1>1. N \in Nat
  BY EdgesProperties
<1>2. v \in S[0]
  BY <1>1 DEF RelaxedBy
<1>3. ASSUME NEW i \in 1 .. N, NEW r \in S[i - 1]
      PROVE  r \in SearchState /\ Relax(r, n, Edges(n)[i]) \in S[i]
  <2>1. i - 1 \in 0 .. N /\ i \in 0 .. N
    BY <1>1
  <2>2. r \in SearchState /\ RelaxedBy(v, n, i - 1, r)
    BY <2>1
  <2>3. RelaxedBy(v, n, i, Relax(r, n, Edges(n)[i]))
    BY <2>2, RelaxOne
  <2> QED
    BY <2>1, <2>2, <2>3 DEF RelaxedBy
<1>5. \E g : Is(g)
  <2>1. G \in Stages(N, SearchState)
    BY EdgesProperties, RelaxProperties DEF Stages
  <2>2. PICK g \in [0 .. N -> SearchState] : g[0] = v /\ \A i \in 1 .. N : g[i] = G[i][g[i - 1]]
    <3>1. PICK k \in Nat : k = N
      BY <1>1
    <3>2. PICK h \in Stages(k, SearchState) : h = G
      BY <2>1, <3>1
    <3>3. \E g \in [0 .. k -> SearchState] : g[0] = v /\ \A i \in 1 .. k : g[i] = h[i][g[i - 1]]
      BY Recursion
    <3> QED
      BY <3>1, <3>2, <3>3
  <2>3. \A i \in 1 .. N : i - 1 \in 0 .. N /\ g[i - 1] \in SearchState
    BY <1>1
  <2>4. \A i \in 1 .. N : g[i] = Relax(g[i - 1], n, Edges(n)[i])
    BY <2>2, <2>3
  <2>5. g = [i \in 0 .. N |-> IF i = 0 THEN v ELSE Relax(g[i - 1], n, Edges(n)[i])]
    <3> HIDE DEF N
    <3> QED
      BY <1>1, <2>2, <2>4
  <2> QED
    BY <2>5
<1>6. Is(f)
  <2> HIDE DEF N, Is
  <2> QED
    BY <1>5
<1>7. \A i \in 0 .. N : f[i] \in S[i]
  <2> DEFINE A == {i \in 0 .. N : f[i] \in S[i]}
  <2> HIDE DEF N, f, S
  <2>1. 0 \in A
    BY <1>1, <1>2, <1>6
  <2>2. ASSUME NEW i \in 1 .. N, i - 1 \in A PROVE i \in A
    BY <1>1, <1>3, <1>6, <2>2
  <2> HIDE DEF A
  <2>3. \A i \in 0 .. N : i \in A
    BY <1>1, <2>1, <2>2, Upward
  <2> QED
    BY <2>3 DEF A
<1>8. Relaxed(v, n) = f[N]
  BY DEF Relaxed
<1>9. f[N] \in S[N]
  BY <1>1, <1>7
<1> HIDE DEF f
<1> QED
  BY <1>1, <1>8, <1>9

\* Finitely many natural numbers have a bound.
LEMMA FiniteIsBounded ==
    ASSUME NEW S \in SUBSET Nat, IsFiniteSet(S)
    PROVE  \E b \in Nat : S \subseteq 0 .. b
<1>1. PICK n \in Nat : n = Cardinality(S) /\ ExistsBijection(1 .. n, S)
  BY FS_CardinalityType
<1>2. PICK f \in Bijection(1 .. n, S) : TRUE
  BY <1>1 DEF ExistsBijection
<1>3. f \in [1 .. n -> S] /\ \A x \in S : \E i \in 1 .. n : f[i] = x
  BY <1>2 DEF Bijection, Surjection
<1> DEFINE A == {k \in 0 .. n : \E b \in Nat : \A i \in 1 .. k : f[i] <= b}
<1>4. 0 \in A
  OBVIOUS
<1>5. ASSUME NEW k \in 1 .. n, k - 1 \in A PROVE k \in A
  <2>1. PICK b \in Nat : \A i \in 1 .. k - 1 : f[i] <= b
    BY <1>5
  <2>2. f[k] \in Nat /\ \A i \in 1 .. k : f[i] \in Nat
    <3>1. \A i \in 1 .. n : f[i] \in S /\ f[i] \in Nat
      BY <1>3
    <3>2. \A i \in 1 .. k : i \in 1 .. n
      OBVIOUS
    <3> QED
      BY <3>1, <3>2
  <2>3. \A i \in 1 .. k : i = k \/ i \in 1 .. k - 1
    OBVIOUS
  <2>4. b + f[k] \in Nat /\ \A i \in 1 .. k : f[i] <= b + f[k]
    BY <2>1, <2>2, <2>3
  <2>5. k \in 0 .. n
    OBVIOUS
  <2>6. \E c \in Nat : \A i \in 1 .. k : f[i] <= c
    BY <2>4
  <2> QED
    BY <2>5, <2>6
<1>6. n \in A
  <2> HIDE DEF A
  <2>1. \A i \in 0 .. n : i \in A
    BY <1>4, <1>5, Upward
  <2> QED
    BY <2>1
<1>7. PICK b \in Nat : \A i \in 1 .. n : f[i] <= b
  BY <1>6
<1>8. \A x \in S : x \in 0 .. b
  BY <1>3, <1>7
<1> QED
  BY <1>8

\* Nearest takes a nearest node.
LEMMA NearestProperties ==
    ASSUME NEW s \in SearchState, Unvisited(s) # {}
    PROVE  /\ Nearest(s) \in Unvisited(s)
           /\ \A m \in Unvisited(s) : s.dist[Nearest(s)] <= s.dist[m]
<1>1. PICK b \in Nat : Node \subseteq 0 .. b
  BY FiniteIsBounded, TrackAssumption
<1>2. Unvisited(s) \subseteq Node /\ \A n \in Unvisited(s) : s.dist[n] \in Nat /\ n \in Nat
  BY UnseenIsNatural, TrackAssumption DEF Unvisited, SearchState
<1> DEFINE D == {s.dist[n] : n \in Unvisited(s)}
           d == First(D)
           L == {n \in Unvisited(s) : s.dist[n] = d}
<1>3. d \in D /\ \A e \in D : d <= e
  <2>1. D \in SUBSET Nat /\ D # {}
    BY <1>2
  <2> HIDE DEF D
  <2> QED
    BY <2>1, FirstProperties
<1>4. Latest(L) \in L /\ \A j \in L : j <= Latest(L)
  <2>1. L \in SUBSET (0 .. b) /\ L # {}
    BY <1>1, <1>2, <1>3
  <2> HIDE DEF L
  <2> QED
    BY <2>1, LatestProperties
<1>5. PICK n \in Unvisited(s) : s.dist[n] = d /\ \A j \in L : j <= n
  BY <1>4
<1>6. ASSUME NEW m \in Unvisited(s)
      PROVE  s.dist[n] < s.dist[m] \/ (s.dist[n] = s.dist[m] /\ n >= m)
  <2>1. s.dist[n] <= s.dist[m]
    BY <1>3, <1>5
  <2>2. CASE s.dist[n] = s.dist[m]
    <3>1. m \in L
      BY <1>5, <2>2
    <3>2. m <= n
      BY <1>5, <3>1
    <3> QED
      BY <1>2, <2>2, <3>2
  <2> QED
    BY <1>2, <2>1, <2>2
<1>7. /\ Nearest(s) \in Unvisited(s)
      /\ \A m \in Unvisited(s) : \/ s.dist[Nearest(s)] < s.dist[m]
                                 \/ s.dist[Nearest(s)] = s.dist[m] /\ Nearest(s) >= m
  <2> HIDE DEF L, D
  <2> QED
    BY <1>6 DEF Nearest
<1> QED
  BY <1>2, <1>7

\* What the search has done at any time.  Those visited are no farther than the others seen;
\* a node seen is reached by an edge from one visited before; the edges of those visited are
\* relaxed, but for one found; the predecessors of the nodes do not go round in circles; no
\* distance is near Unseen; and the search has gone on until it met the destination.
Ordered(s) ==
    \A n \in s.visited : s.dist[n] # Unseen /\ \A m \in Unvisited(s) : s.dist[n] <= s.dist[m]

Linked(s, src, avoid) ==
    \A n \in Node \ {src} : s.dist[n] # Unseen =>
        /\ s.prev[n] \in s.visited /\ Into(s.prev[n]) \notin avoid /\ n \in Joined(s.prev[n])
        /\ s.dist[s.prev[n]] + Step(s.prev[n], n) <= s.dist[n]

Spread(s, S, avoid) ==
    \A n \in S : Into(n) \notin avoid =>
        \A i \in 1 .. Len(Edges(n)) : s.dist[Edges(n)[i].to] <= s.dist[n] + Edges(n)[i].dist

Acyclic(s, src) ==
    \E order \in [Node -> Nat] : \A n \in s.visited \ {src} : order[s.prev[n]] < order[n]

Bounded(s) ==
    \A n \in Node : s.dist[n] # Unseen =>
        s.dist[n] * Cardinality(Node) <= Cardinality(s.visited) * (Unseen - 1)

Searching(s, src, dest, avoid) ==
    /\ s \in SearchState /\ s.dist[src] = 0
    /\ Ordered(s) /\ Linked(s, src, avoid) /\ Spread(s, s.visited \ s.found, avoid)
    /\ Acyclic(s, src) /\ Bounded(s)
    /\ s.found = s.visited \cap {dest, Reverse[dest]} /\ \A m, n \in s.found : m = n

LEMMA CardinalityOfNodes ==
    /\ Cardinality(Node) \in Nat
    /\ \A S \in SUBSET Node : /\ IsFiniteSet(S) /\ Cardinality(S) \in Nat /\ Cardinality(S) <= Cardinality(Node)
                              /\ Cardinality(S) = Cardinality(Node) => S = Node
                              /\ \A n \in Node \ S : Cardinality(S \cup {n}) = Cardinality(S) + 1
<1>1. IsFiniteSet(Node) /\ Cardinality(Node) \in Nat
  BY TrackAssumption, FS_CardinalityType
<1>2. ASSUME NEW S \in SUBSET Node
      PROVE  /\ IsFiniteSet(S) /\ Cardinality(S) \in Nat /\ Cardinality(S) <= Cardinality(Node)
             /\ Cardinality(S) = Cardinality(Node) => S = Node
             /\ \A n \in Node \ S : Cardinality(S \cup {n}) = Cardinality(S) + 1
  <2>1. IsFiniteSet(S) /\ Cardinality(S) <= Cardinality(Node) /\ (Cardinality(Node) = Cardinality(S) => Node = S)
    BY <1>1, FS_Subset
  <2>2. Cardinality(S) \in Nat
    BY <2>1, FS_CardinalityType
  <2>3. \A n : n \notin S => Cardinality(S \cup {n}) = Cardinality(S) + 1
    BY <2>1, FS_AddElement
  <2> QED
    BY <2>1, <2>2, <2>3
<1> QED
  BY <1>1, <1>2

\* Before the first round.
LEMMA SearchBegins ==
    ASSUME NEW src \in Node, NEW dest \in Node, NEW avoid
    PROVE  Searching(Unsearched(src), src, dest, avoid)
<1> DEFINE s == Unsearched(src)
<1>1. /\ s.dist = [n \in Node |-> IF n = src THEN 0 ELSE Unseen] /\ s.prev = [n \in Node |-> src]
      /\ s.visited = {} /\ s.found = {} /\ s \in SearchState
  BY UnseenIsNatural DEF Unsearched, SearchState
<1> HIDE DEF s
<1>2. \A n \in Node : s.dist[n] = IF n = src THEN 0 ELSE Unseen
  BY <1>1
<1>3. Acyclic(s, src)
  <2>1. [n \in Node |-> 0] \in [Node -> Nat]
    OBVIOUS
  <2> QED
    BY <1>1, <2>1 DEF Acyclic
<1>4. Bounded(s)
  <2>1. Cardinality(s.visited) = 0
    BY <1>1, FS_EmptySet
  <2>2. 0 * Cardinality(Node) = 0 /\ 0 * (Unseen - 1) = 0
    BY CardinalityOfNodes, UnseenIsNatural
  <2> QED
    BY <1>2, <2>1, <2>2 DEF Bounded
<1>5. Ordered(s) /\ Linked(s, src, avoid) /\ Spread(s, s.visited \ s.found, avoid)
  BY <1>1, <1>2 DEF Ordered, Linked, Spread
<1> QED
  BY <1>1, <1>2, <1>3, <1>4, <1>5 DEF Searching, s

\* State v comes from s by visiting n, one of the nearest.
Visiting(s, v, n) ==
    /\ s.found = {} /\ n \in Unvisited(s) /\ \A m \in Unvisited(s) : s.dist[n] <= s.dist[m]
    /\ v \in SearchState /\ v.dist = s.dist /\ v.prev = s.prev /\ v.visited = s.visited \cup {n}

\* Relaxing edges of the node n just visited keeps what the search has done.
LEMMA VisitedKeeps ==
    ASSUME NEW src \in Node, NEW dest \in Node, NEW avoid, NEW s, Searching(s, src, dest, avoid),
           NEW v, NEW n, Visiting(s, v, n), NEW k, NEW r, RelaxedBy(v, n, k, r),
           k \in 0 .. Len(Edges(n)), k > 0 => Into(n) \notin avoid
    PROVE  /\ r \in SearchState /\ r.dist[src] = 0 /\ r.visited = s.visited \cup {n}
           /\ Ordered(r) /\ Linked(r, src, avoid) /\ Spread(r, s.visited, avoid)
           /\ Acyclic(r, src) /\ Bounded(r)
<1>0. /\ s.found = {} /\ n \in Unvisited(s) /\ \A m \in Unvisited(s) : s.dist[n] <= s.dist[m]
      /\ v \in SearchState /\ v.dist = s.dist /\ v.prev = s.prev /\ v.visited = s.visited \cup {n}
  BY DEF Visiting
<1>1. /\ s \in SearchState /\ s.dist[src] = 0
      /\ Ordered(s) /\ Linked(s, src, avoid) /\ Spread(s, s.visited, avoid)
      /\ Acyclic(s, src) /\ Bounded(s)
  <2>1. s.visited \ s.found = s.visited
    BY <1>0
  <2> QED
    BY <2>1 DEF Searching
<1>2. /\ s.visited \subseteq Node /\ \A m \in Node : s.dist[m] \in Nat /\ s.prev[m] \in Node
      /\ s.dist[n] # Unseen /\ n \in Node \ s.visited
  BY <1>0, <1>1, UnseenIsNatural DEF SearchState, Unvisited
<1>3. r \in SearchState /\ r.visited = s.visited \cup {n} /\ r.dist[n] = s.dist[n]
  BY <1>0 DEF RelaxedBy
<1>4. \A m \in Node : r.dist[m] \in Nat /\ r.prev[m] \in Node /\ r.dist[m] <= Unseen /\ s.dist[m] <= Unseen
  BY <1>1, <1>3, UnseenIsNatural DEF SearchState
<1>5. Len(Edges(n)) \in Nat /\ \A j \in 1 .. Len(Edges(n)) : Edges(n)[j].to \in Node /\ Edges(n)[j].dist \in Nat
  BY <1>2, EdgesProperties
<1>6. \A m \in Node :
         \/ r.dist[m] = s.dist[m] /\ r.prev[m] = s.prev[m]
         \/ /\ r.dist[m] < s.dist[m] /\ r.prev[m] = n /\ Into(n) \notin avoid
            /\ \E j \in 1 .. Len(Edges(n)) :
                  Edges(n)[j].to = m /\ r.dist[m] = s.dist[n] + Edges(n)[j].dist
  <2>1. \A j \in 1 .. k : j \in 1 .. Len(Edges(n)) /\ k > 0
    BY <1>5
  <2> QED
    BY <1>0, <2>1 DEF RelaxedBy
<1>7. \A m \in Node : r.dist[m] <= s.dist[m]
  BY <1>2, <1>4, <1>6
\* Those visited stay as they are.
<1>8. \A x \in s.visited \cup {n} : x \in Node /\ r.dist[x] = s.dist[x] /\ r.prev[x] = s.prev[x] /\ s.dist[x] <= s.dist[n] /\ s.dist[x] # Unseen
  <2> TAKE x \in s.visited \cup {n}
  <2>1. x \in Node /\ s.dist[x] <= s.dist[n] /\ s.dist[x] # Unseen
    BY <1>0, <1>1, <1>2 DEF Ordered
  <2>2. ASSUME NEW j \in 1 .. Len(Edges(n)), r.dist[x] = s.dist[n] + Edges(n)[j].dist, r.dist[x] < s.dist[x]
        PROVE  FALSE
    BY <1>2, <1>5, <2>1, <2>2
  <2> QED
    BY <1>6, <2>1, <2>2
<1>9. r.dist[src] = 0
  BY <1>1, <1>2, <1>4, <1>7
<1>10. Ordered(r)
  <2> SUFFICES ASSUME NEW x \in s.visited \cup {n}, NEW m \in Unvisited(r)
               PROVE  r.dist[x] <= r.dist[m]
    BY <1>3, <1>8 DEF Ordered
  <2>1. m \in Node /\ r.dist[m] # Unseen /\ m \notin s.visited \cup {n}
    BY <1>3 DEF Unvisited
  <2>2. CASE r.dist[m] = s.dist[m]
    <3>1. m \in Unvisited(s)
      BY <2>1, <2>2 DEF Unvisited
    <3>2. s.dist[n] <= s.dist[m]
      BY <1>0, <3>1
    <3> QED
      BY <1>2, <1>8, <2>1, <2>2, <3>2
  <2>3. CASE \E j \in 1 .. Len(Edges(n)) : r.dist[m] = s.dist[n] + Edges(n)[j].dist
    BY <1>2, <1>4, <1>5, <1>8, <2>1, <2>3
  <2> QED
    BY <1>6, <2>1, <2>2, <2>3
<1>11. Linked(r, src, avoid)
  <2> SUFFICES ASSUME NEW m \in Node \ {src}, r.dist[m] # Unseen
               PROVE  /\ r.prev[m] \in r.visited /\ Into(r.prev[m]) \notin avoid /\ m \in Joined(r.prev[m])
                      /\ r.dist[r.prev[m]] + Step(r.prev[m], m) <= r.dist[m]
    BY DEF Linked
  <2>1. CASE r.dist[m] = s.dist[m] /\ r.prev[m] = s.prev[m]
    <3>1. /\ s.prev[m] \in s.visited /\ Into(s.prev[m]) \notin avoid /\ m \in Joined(s.prev[m])
          /\ s.dist[s.prev[m]] + Step(s.prev[m], m) <= s.dist[m]
      BY <1>1, <2>1 DEF Linked
    <3>2. r.dist[s.prev[m]] = s.dist[s.prev[m]]
      BY <1>8, <3>1
    <3> QED
      BY <1>3, <2>1, <3>1, <3>2
  <2>2. CASE /\ r.dist[m] < s.dist[m] /\ r.prev[m] = n /\ Into(n) \notin avoid
             /\ \E j \in 1 .. Len(Edges(n)) :
                   Edges(n)[j].to = m /\ r.dist[m] = s.dist[n] + Edges(n)[j].dist
    <3>1. PICK j \in 1 .. Len(Edges(n)) : Edges(n)[j].to = m /\ r.dist[m] = s.dist[n] + Edges(n)[j].dist
      BY <2>2
    <3>2. m \in Joined(n)
      BY <3>1 DEF Joined
    <3>3. Step(n, m) \in Nat /\ Step(n, m) <= Edges(n)[j].dist
      BY <1>2, <3>1, <3>2, StepProperties
    <3>4. r.dist[n] + Step(n, m) <= r.dist[m]
      BY <1>2, <1>3, <1>5, <3>1, <3>3
    <3> QED
      BY <1>3, <2>2, <3>2, <3>4
  <2> QED
    BY <1>6, <2>1, <2>2
<1>12. Spread(r, s.visited, avoid)
  <2> SUFFICES ASSUME NEW x \in s.visited, Into(x) \notin avoid, NEW i \in 1 .. Len(Edges(x))
               PROVE  r.dist[Edges(x)[i].to] <= r.dist[x] + Edges(x)[i].dist
    BY DEF Spread
  <2>1. s.dist[Edges(x)[i].to] <= s.dist[x] + Edges(x)[i].dist
    BY <1>1 DEF Spread
  <2>2. PICK m \in Node, d \in Nat : Edges(x)[i].to = m /\ Edges(x)[i].dist = d
    BY <1>8, EdgesProperties
  <2>3. r.dist[m] <= s.dist[m] /\ r.dist[x] = s.dist[x] /\ x \in Node
    BY <1>7, <1>8
  <2> QED
    BY <1>2, <1>4, <2>1, <2>2, <2>3
<1>13. Acyclic(r, src)
  <2>1. PICK order \in [Node -> Nat] : \A x \in s.visited \ {src} : order[s.prev[x]] < order[x]
    BY <1>1 DEF Acyclic
  <2>2. PICK p \in Node : p = s.prev[n]
    BY <1>2
  <2> DEFINE later == [order EXCEPT ![n] = order[p] + 1]
  <2>3. later \in [Node -> Nat] /\ \A x \in Node : later[x] = IF x = n THEN order[p] + 1 ELSE order[x]
    BY <1>2, <2>2
  <2> HIDE DEF later
  <2>4. \A x \in (s.visited \cup {n}) \ {src} : s.prev[x] \in s.visited /\ s.prev[x] # n
    BY <1>1, <1>2, <1>8 DEF Linked
  <2>5. ASSUME NEW x \in (s.visited \cup {n}) \ {src} PROVE later[r.prev[x]] < later[x]
    <3>1. r.prev[x] = s.prev[x] /\ x \in Node
      BY <1>8
    <3>2. PICK q \in Node : q = s.prev[x] /\ q # n
      BY <1>2, <2>4, <3>1
    <3>3. later[q] = order[q]
      BY <2>3, <3>2
    <3>4. CASE x = n
      BY <1>2, <2>1, <2>2, <2>3, <3>1, <3>2, <3>3, <3>4
    <3>5. CASE x # n
      BY <2>1, <2>3, <3>1, <3>2, <3>3, <3>5
    <3> QED
      BY <3>4, <3>5
  <2> QED
    BY <1>3, <2>3, <2>5 DEF Acyclic
<1>14. Bounded(r)
  <2>1. PICK N \in Nat : N = Cardinality(Node)
    BY CardinalityOfNodes
  <2>2. PICK c \in Nat : c = Cardinality(s.visited) /\ Cardinality(r.visited) = c + 1
    BY <1>2, <1>3, CardinalityOfNodes
  <2>3. PICK u \in Nat : u = Unseen - 1
    BY UnseenIsNatural
  <2>4. (c + 1) * u = c * u + u /\ c * u \in Nat
    OBVIOUS
  <2>5. \A m \in Node : s.dist[m] # Unseen => s.dist[m] * N <= c * u
    BY <1>1, <2>1, <2>2, <2>3 DEF Bounded
  <2> SUFFICES ASSUME NEW m \in Node, r.dist[m] # Unseen PROVE r.dist[m] * N <= (c + 1) * u
    BY <2>1, <2>2, <2>3 DEF Bounded
  <2>6. CASE r.dist[m] = s.dist[m]
    <3>1. s.dist[m] * N <= c * u
      BY <2>5, <2>6
    <3>2. s.dist[m] * N \in Nat
      BY <1>2
    <3> QED
      BY <2>4, <2>6, <3>1, <3>2
  <2>7. CASE \E j \in 1 .. Len(Edges(n)) : r.dist[m] = s.dist[n] + Edges(n)[j].dist
    <3>1. PICK j \in 1 .. Len(Edges(n)) : r.dist[m] = s.dist[n] + Edges(n)[j].dist
      BY <2>7
    <3>2. PICK d \in Nat, e \in Nat : d = s.dist[n] /\ e = Edges(n)[j].dist
      BY <1>2, <1>5
    <3>3. e * N < Unseen
      BY <1>2, <2>1, <3>2, EdgesShort
    <3>4. d * N <= c * u
      BY <1>2, <2>5, <3>2
    <3>5. (d + e) * N = d * N + e * N /\ d * N \in Nat /\ e * N \in Nat
      OBVIOUS
    <3>6. e * N <= u
      BY <2>3, <3>3, <3>5, UnseenIsNatural
    <3>7. d * N + e * N <= c * u + u
      BY <2>4, <3>4, <3>5, <3>6
    <3>8. r.dist[m] = d + e
      BY <3>1, <3>2
    <3> QED
      BY <2>4, <3>5, <3>7, <3>8
  <2> QED
    BY <1>6, <2>6, <2>7
<1> QED
  BY <1>3, <1>9, <1>10, <1>11, <1>12, <1>13, <1>14

\* A round of the search keeps it too, and visits one node more.
LEMMA RoundKeeps ==
    ASSUME NEW src \in Node, NEW dest \in Node, NEW avoid, NEW s, Searching(s, src, dest, avoid)
    PROVE  /\ Searching(Round(s, dest, avoid), src, dest, avoid)
           /\ IF s.found # {} \/ Unvisited(s) = {}
              THEN Round(s, dest, avoid) = s
              ELSE \E n \in Node \ s.visited : Round(s, dest, avoid).visited = s.visited \cup {n}
<1>1. CASE s.found # {} \/ Unvisited(s) = {}
  BY <1>1 DEF Round
<1>2. CASE s.found = {} /\ Unvisited(s) # {}
  <2>1. s \in SearchState
    BY DEF Searching
  <2>2. PICK n \in Unvisited(s) : n = Nearest(s) /\ \A m \in Unvisited(s) : s.dist[n] <= s.dist[m]
    BY <1>2, <2>1, NearestProperties
  <2>3. n \in Node \ s.visited
    BY <2>2 DEF Unvisited
  <2>4. PICK d, p, u, f : /\ s = [dist |-> d, prev |-> p, visited |-> u, found |-> f]
                          /\ d \in [Node -> 0 .. Unseen] /\ p \in [Node -> Node]
                          /\ u \in SUBSET Node /\ f \in SUBSET Node
    BY <2>1 DEF SearchState
  <2>5. PICK v \in SearchState : /\ v = [s EXCEPT !.visited = @ \cup {n}]
                                 /\ v.dist = s.dist /\ v.prev = s.prev /\ v.found = {}
                                 /\ v.visited = s.visited \cup {n}
    <3> DEFINE w == [dist |-> d, prev |-> p, visited |-> u \cup {n}, found |-> f]
    <3>1. [s EXCEPT !.visited = @ \cup {n}] = w
      BY <2>4
    <3>2. w \in SearchState
      BY <2>3, <2>4 DEF SearchState
    <3> QED
      BY <1>2, <2>4, <3>1, <3>2
  <2>6. Round(s, dest, avoid) = IF n \in {dest, Reverse[dest]} THEN [v EXCEPT !.found = {n}]
                                ELSE IF Into(n) \in avoid THEN v ELSE Relaxed(v, n)
    BY <1>2, <2>2, <2>5 DEF Round, Visit
  <2>7. s.visited \cap {dest, Reverse[dest]} = {}
    BY <1>2 DEF Searching
  <2>8. Len(Edges(n)) \in Nat
    BY <2>3, EdgesProperties
  <2>9. RelaxedBy(v, n, 0, v)
    BY <2>5 DEF RelaxedBy
  <2>10. Visiting(s, v, n)
    BY <1>2, <2>2, <2>5 DEF Visiting
  <2>11. /\ v.dist[src] = 0 /\ Ordered(v) /\ Linked(v, src, avoid) /\ Spread(v, s.visited, avoid)
         /\ Acyclic(v, src) /\ Bounded(v)
    <3>1. PICK k \in 0 .. Len(Edges(n)) : k = 0 /\ ~(k > 0)
      BY <2>8
    <3>2. RelaxedBy(v, n, k, v)
      BY <2>9, <3>1
    <3> QED
      BY <2>10, <3>1, <3>2, VisitedKeeps
  <2>12. CASE n \in {dest, Reverse[dest]}
    <3>1. PICK q \in SearchState : /\ q = Round(s, dest, avoid) /\ q.found = {n}
                                   /\ q.dist = v.dist /\ q.prev = v.prev /\ q.visited = v.visited
      <4> DEFINE w == [dist |-> v.dist, prev |-> v.prev, visited |-> v.visited, found |-> {n}]
      <4>1. v = [dist |-> v.dist, prev |-> v.prev, visited |-> v.visited, found |-> v.found]
            /\ w \in SearchState
        BY <2>3 DEF SearchState
      <4>2. [v EXCEPT !.found = {n}] = w
        BY <4>1
      <4> QED
        BY <2>6, <2>12, <4>1, <4>2
    <3>2. Unvisited(q) = Unvisited(v)
      BY <3>1 DEF Unvisited
    <3>3. Ordered(q) /\ Linked(q, src, avoid) /\ Acyclic(q, src) /\ Bounded(q)
      BY <2>11, <3>1, <3>2 DEF Ordered, Linked, Acyclic, Bounded
    <3>4. q.visited \ q.found = s.visited
      BY <2>3, <2>5, <3>1
    <3>5. Spread(q, q.visited \ q.found, avoid)
      BY <2>11, <3>1, <3>4 DEF Spread
    <3>6. q.found = q.visited \cap {dest, Reverse[dest]} /\ \A m, x \in q.found : m = x
      BY <2>5, <2>7, <2>12, <3>1
    <3>7. Searching(q, src, dest, avoid)
      BY <2>11, <3>1, <3>3, <3>5, <3>6 DEF Searching
    <3> QED
      BY <1>2, <2>3, <2>5, <3>1, <3>7
  <2>13. CASE n \notin {dest, Reverse[dest]} /\ Into(n) \in avoid
    <3>1. v.visited \ v.found = s.visited \cup {n}
      BY <2>5
    <3>2. Spread(v, v.visited \ v.found, avoid)
      BY <2>11, <2>13, <3>1 DEF Spread
    <3>3. v.found = v.visited \cap {dest, Reverse[dest]} /\ \A m, x \in v.found : m = x
      BY <2>5, <2>7, <2>13
    <3>4. Searching(v, src, dest, avoid)
      BY <2>11, <3>2, <3>3 DEF Searching
    <3> QED
      BY <1>2, <2>3, <2>5, <2>6, <2>13, <3>4
  <2>14. CASE n \notin {dest, Reverse[dest]} /\ Into(n) \notin avoid
    <3>1. PICK r : r = Relaxed(v, n) /\ RelaxedBy(v, n, Len(Edges(n)), r)
      BY <2>3, RelaxedProperties
    <3>2. Len(Edges(n)) \in 0 .. Len(Edges(n))
      BY <2>8
    <3>3. /\ r \in SearchState /\ r.dist[src] = 0 /\ r.visited = s.visited \cup {n}
          /\ Ordered(r) /\ Linked(r, src, avoid) /\ Spread(r, s.visited, avoid)
          /\ Acyclic(r, src) /\ Bounded(r)
      BY <2>14, <2>10, <3>1, <3>2, VisitedKeeps
    <3>4. r.found = {} /\ r.visited \ r.found = s.visited \cup {n}
      BY <2>5, <3>1, <3>3 DEF RelaxedBy
    <3>5. \A i \in 1 .. Len(Edges(n)) : r.dist[Edges(n)[i].to] <= r.dist[n] + Edges(n)[i].dist
      BY <3>1 DEF RelaxedBy
    <3>6. Spread(r, r.visited \ r.found, avoid)
      BY <3>3, <3>4, <3>5 DEF Spread
    <3>7. r.found = r.visited \cap {dest, Reverse[dest]} /\ \A m, x \in r.found : m = x
      BY <2>7, <2>14, <3>3, <3>4
    <3>8. Searching(r, src, dest, avoid)
      BY <3>3, <3>6, <3>7 DEF Searching
    <3> QED
      BY <1>2, <2>3, <2>6, <2>14, <3>1, <3>3, <3>8
  <2> QED
    BY <2>12, <2>13, <2>14
<1> QED
  BY <1>1, <1>2

\* The search goes on until it has met the destination or visited all that can be reached.
LEMMA SearchEnds ==
    ASSUME NEW src \in Node, NEW dest \in Node, NEW avoid
    PROVE  /\ Searching(Searched(src, dest, avoid), src, dest, avoid)
           /\ Searched(src, dest, avoid).found # {} \/ Unvisited(Searched(src, dest, avoid)) = {}
<1> DEFINE N == Cardinality(Node)
           Y == {s \in SearchState : Searching(s, src, dest, avoid)}
           G == [i \in 1 .. N |-> [s \in Y |-> Round(s, dest, avoid)]]
           Is(f) == f = [i \in 0 .. N |-> IF i = 0 THEN Unsearched(src) ELSE Round(f[i - 1], dest, avoid)]
           f == CHOOSE f : Is(f)
           Over(s) == s.found # {} \/ Unvisited(s) = {}
<1>1. N \in Nat
  BY CardinalityOfNodes
<1>2. Unsearched(src) \in Y
  <2>1. Searching(Unsearched(src), src, dest, avoid)
    BY SearchBegins
  <2> QED
    BY <2>1 DEF Searching
<1>3. ASSUME NEW s \in Y PROVE Round(s, dest, avoid) \in Y
  <2>1. Searching(Round(s, dest, avoid), src, dest, avoid)
    BY RoundKeeps
  <2> QED
    BY <2>1 DEF Searching
<1>4. \E g : Is(g)
  <2>1. G \in Stages(N, Y)
    BY <1>3 DEF Stages
  <2>2. PICK g \in [0 .. N -> Y] : g[0] = Unsearched(src) /\ \A i \in 1 .. N : g[i] = G[i][g[i - 1]]
    <3>1. PICK k \in Nat : k = N
      BY <1>1
    <3>2. PICK Z0 : Z0 = Y
      OBVIOUS
    <3>3. PICK h \in Stages(k, Z0) : h = G
      BY <2>1, <3>1, <3>2
    <3>4. PICK x \in Z0 : x = Unsearched(src)
      BY <1>2, <3>2
    <3>5. \E g \in [0 .. k -> Z0] : g[0] = x /\ \A i \in 1 .. k : g[i] = h[i][g[i - 1]]
      BY Recursion
    <3> QED
      BY <3>1, <3>2, <3>3, <3>4, <3>5
  <2>3. \A i \in 1 .. N : i - 1 \in 0 .. N /\ g[i - 1] \in Y
    BY <1>1
  <2>4. \A i \in 1 .. N : g[i] = Round(g[i - 1], dest, avoid)
    BY <2>2, <2>3
  <2>5. g = [i \in 0 .. N |-> IF i = 0 THEN Unsearched(src) ELSE Round(g[i - 1], dest, avoid)]
    <3> HIDE DEF N, Y
    <3> QED
      BY <1>1, <2>2, <2>4
  <2> QED
    BY <2>5
<1>5. Is(f)
  <2> HIDE DEF Is
  <2> QED
    BY <1>4
<1>6. \A i \in 0 .. N : f[i] \in Y /\ (Over(f[i]) \/ Cardinality(f[i].visited) = i)
  <2> DEFINE A == {i \in 0 .. N : f[i] \in Y /\ (Over(f[i]) \/ Cardinality(f[i].visited) = i)}
  <2> HIDE DEF f
  <2>1. 0 \in A
    <3>1. f[0] = Unsearched(src) /\ f[0].visited = {}
      BY <1>1, <1>5 DEF Unsearched
    <3>2. Cardinality(f[0].visited) = 0
      BY <3>1, FS_EmptySet
    <3> QED
      BY <1>1, <1>2, <3>1, <3>2
  <2>2. ASSUME NEW i \in 1 .. N, i - 1 \in A PROVE i \in A
    <3>1. PICK s \in Y : s = f[i - 1] /\ (Over(s) \/ Cardinality(s.visited) = i - 1)
      BY <2>2
    <3>2. i \in 0 .. N /\ f[i] = Round(s, dest, avoid)
      BY <1>1, <1>5, <3>1
    <3>3. f[i] \in Y
      BY <1>3, <3>2
    <3>4. CASE Over(s)
      <4>1. f[i] = s
        BY <3>2, <3>4, RoundKeeps
      <4> QED
        BY <3>2, <3>3, <3>4, <4>1
    <3>5. CASE ~Over(s)
      <4>1. PICK n \in Node \ s.visited : f[i].visited = s.visited \cup {n}
        BY <3>2, <3>5, RoundKeeps
      <4>2. s.visited \in SUBSET Node
        BY DEF SearchState
      <4>3. Cardinality(f[i].visited) = (i - 1) + 1
        BY <3>1, <3>5, <4>1, <4>2, CardinalityOfNodes
      <4> QED
        BY <3>2, <3>3, <4>3
    <3> QED
      BY <3>4, <3>5
  <2> HIDE DEF A, N
  <2>3. \A i \in 0 .. N : i \in A
    BY <1>1, <2>1, <2>2, Upward
  <2> QED
    BY <2>3 DEF A
<1>7. Searched(src, dest, avoid) = f[N]
  BY DEF Searched
<1>8. PICK s \in Y : s = Searched(src, dest, avoid) /\ (Over(s) \/ Cardinality(s.visited) = N)
  <2> HIDE DEF f, N, Y
  <2>1. N \in 0 .. N
    BY <1>1
  <2> QED
    BY <1>6, <1>7, <2>1
<1>9. CASE Cardinality(s.visited) = N
  <2>1. s.visited = Node
    BY <1>9, CardinalityOfNodes DEF SearchState
  <2> QED
    BY <1>8, <2>1 DEF Unvisited
<1> HIDE DEF f
<1> QED
  BY <1>8, <1>9

-----------------------------------------------------------------------------
(* The way found. *)

\* A sequence that decreases has no value twice.
LEMMA Decreasing ==
    ASSUME NEW n \in Nat, NEW f \in [0 .. n -> Nat], \A i \in 1 .. n : f[i] < f[i - 1]
    PROVE  \A j \in 0 .. n : \A i \in 0 .. j - 1 : f[j] < f[i]
<1> DEFINE A == {j \in 0 .. n : \A i \in 0 .. j - 1 : f[j] < f[i]}
<1>1. 0 \in A
  OBVIOUS
<1>2. ASSUME NEW j \in 1 .. n, j - 1 \in A PROVE j \in A
  <2>1. j \in 0 .. n /\ j - 1 \in 0 .. n /\ f[j] < f[j - 1]
    OBVIOUS
  <2>2. f[j] \in Nat /\ f[j - 1] \in Nat
    BY <2>1
  <2>3. ASSUME NEW i \in 0 .. j - 1 PROVE f[j] < f[i]
    <3>1. i \in 0 .. n /\ f[i] \in Nat
      OBVIOUS
    <3>2. CASE i = j - 1
      BY <2>1, <3>2
    <3>3. CASE i # j - 1
      <4>1. i \in 0 .. (j - 1) - 1
        BY <3>3
      <4>2. f[j - 1] < f[i]
        BY <1>2, <4>1
      <4> QED
        BY <2>1, <2>2, <3>1, <4>2
    <3> QED
      BY <3>2, <3>3
  <2> QED
    BY <2>1, <2>3
<1> HIDE DEF A
<1>3. \A j \in 0 .. n : j \in A
  BY <1>1, <1>2, Upward
<1> QED
  BY <1>3 DEF A

\* b goes back along the predecessors.
GoesBack(s, N, b) ==
    b \in [0 .. N -> Node] /\ b[0] \in s.visited /\ \A i \in 1 .. N : b[i] = s.prev[b[i - 1]]

\* From a node visited, the predecessors lead back to src, along no node twice.
LEMMA BackToSource ==
    ASSUME NEW src \in Node, NEW dest \in Node, NEW avoid, NEW s, Searching(s, src, dest, avoid),
           NEW N \in Nat, N = Cardinality(Node), NEW back, GoesBack(s, N, back)
    PROVE  \E n \in 0 .. N :
               /\ back[n] = src /\ \A i \in 0 .. n - 1 : back[i] # src
               /\ \A i \in 0 .. n : back[i] \in s.visited
               /\ \A i, j \in 0 .. n : back[i] = back[j] => i = j
<1>0. /\ back \in [0 .. N -> Node] /\ back[0] \in s.visited
      /\ \A i \in 1 .. N : back[i] = s.prev[back[i - 1]]
  BY DEF GoesBack
<1>1. /\ s \in SearchState /\ Linked(s, src, avoid) /\ Ordered(s)
      /\ s.visited \subseteq Node /\ \A m \in s.visited : s.dist[m] # Unseen
  BY DEF Searching, SearchState, Ordered
<1>2. PICK order \in [Node -> Nat] : \A m \in s.visited \ {src} : order[s.prev[m]] < order[m]
  BY DEF Searching, Acyclic
\* As long as src has not been met.
<1>3. ASSUME NEW n \in 0 .. N, \A i \in 0 .. n - 1 : back[i] # src
      PROVE  /\ \A i \in 0 .. n : back[i] \in s.visited
             /\ \A i, j \in 0 .. n : back[i] = back[j] => i = j
  <2>0. n \in Nat /\ n <= N
    OBVIOUS
  <2>1. \A i \in 0 .. n : i \in 0 .. N /\ back[i] \in Node
    BY <1>0, <2>0
  <2> DEFINE A == {i \in 0 .. n : back[i] \in s.visited}
  <2>2. 0 \in A
    BY <1>0, <2>0
  <2>3. ASSUME NEW i \in 1 .. n, i - 1 \in A PROVE i \in A
    <3>1. i - 1 \in 0 .. n - 1 /\ i \in 1 .. N /\ i \in 0 .. n
      OBVIOUS
    <3>2. PICK m \in s.visited \ {src} : m = back[i - 1]
      BY <1>3, <2>3, <3>1
    <3>3. s.prev[m] \in s.visited
      BY <1>1, <3>2 DEF Linked
    <3>4. back[i] = s.prev[m]
      BY <1>0, <3>1, <3>2
    <3> QED
      BY <3>1, <3>3, <3>4
  <2> HIDE DEF A
  <2>4. \A i \in 0 .. n : i \in A
    BY <2>0, <2>2, <2>3, Upward
  <2>5. \A i \in 0 .. n : back[i] \in s.visited
    BY <2>4 DEF A
  <2> DEFINE f == [i \in 0 .. n |-> order[back[i]]]
  <2>6. f \in [0 .. n -> Nat] /\ \A i \in 0 .. n : f[i] = order[back[i]]
    BY <2>1
  <2> HIDE DEF f
  <2>7. ASSUME NEW i \in 1 .. n PROVE f[i] < f[i - 1]
    <3>1. i - 1 \in 0 .. n - 1 /\ i \in 1 .. N /\ i \in 0 .. n /\ i - 1 \in 0 .. n
      OBVIOUS
    <3>2. PICK m \in s.visited \ {src} : m = back[i - 1]
      BY <1>3, <2>5, <3>1
    <3>3. back[i] = s.prev[m]
      BY <1>0, <3>1, <3>2
    <3>4. order[s.prev[m]] < order[m]
      BY <1>2
    <3> QED
      BY <2>6, <3>1, <3>2, <3>3, <3>4
  <2>8. \A j \in 0 .. n : \A i \in 0 .. j - 1 : f[j] < f[i]
    <3>1. PICK k \in Nat : k = n
      BY <2>0
    <3>2. f \in [0 .. k -> Nat] /\ \A i \in 1 .. k : f[i] < f[i - 1]
      BY <2>6, <2>7, <3>1
    <3>3. \A j \in 0 .. k : \A i \in 0 .. j - 1 : f[j] < f[i]
      BY <3>2, Decreasing
    <3> QED
      BY <3>1, <3>3
  <2>9. ASSUME NEW i \in 0 .. n, NEW j \in 0 .. n, i < j PROVE back[i] # back[j]
    <3>1. f[j] < f[i]
      BY <2>8, <2>9
    <3>2. f[i] \in Nat
      BY <2>6
    <3> QED
      BY <2>6, <3>1, <3>2
  <2>10. ASSUME NEW i \in 0 .. n, NEW j \in 0 .. n, back[i] = back[j] PROVE i = j
    <3>1. ~(i < j) /\ ~(j < i)
      BY <2>9, <2>10
    <3> QED
      BY <3>1
  <2> QED
    BY <2>5, <2>10
<1> DEFINE E == {i \in 0 .. N : back[i] = src}
<1>4. E # {}
  <2> SUFFICES ASSUME E = {} PROVE FALSE
    OBVIOUS
  <2>1. N \in 0 .. N /\ \A i \in 0 .. N - 1 : back[i] # src
    OBVIOUS
  <2>2. \A i, j \in 0 .. N : back[i] = back[j] => i = j
    BY <1>3, <2>1
  <2>3. PICK I : I = 0 .. N
    OBVIOUS
  <2>4. IsFiniteSet(I) /\ Cardinality(I) = N + 1
    <3>1. 0 \in Int /\ N \in Int
      OBVIOUS
    <3>2. IsFiniteSet(0 .. N) /\ Cardinality(0 .. N) = IF 0 > N THEN 0 ELSE N - 0 + 1
      BY ONLY <3>1, FS_Interval
    <3> QED
      BY <2>3, <3>2
  <2>5. IsFiniteSet(Node) /\ Cardinality(Node) < Cardinality(I) /\ back \in [I -> Node]
    BY <1>0, <2>3, <2>4, TrackAssumption
  <2>6. \E i, j \in I : i # j /\ back[i] = back[j]
    BY <2>4, <2>5, FS_PigeonHole
  <2> QED
    BY <2>2, <2>3, <2>6
<1>5. PICK n \in E : \A j \in E : n <= j
  <2>1. E \in SUBSET Nat
    OBVIOUS
  <2>2. First(E) \in E /\ \A j \in E : First(E) <= j
    <3> HIDE DEF E
    <3> QED
      BY <1>4, <2>1, FirstProperties
  <2> QED
    BY <2>2
<1>6. n \in 0 .. N /\ back[n] = src /\ \A i \in 0 .. n - 1 : back[i] # src
  <2>1. n \in 0 .. N /\ back[n] = src
    OBVIOUS
  <2>2. ASSUME NEW i \in 0 .. n - 1, back[i] = src PROVE FALSE
    <3>1. i \in E
      BY <2>1, <2>2
    <3> QED
      BY <1>5, <2>1, <3>1
  <2> QED
    BY <2>1, <2>2
<1> QED
  BY <1>3, <1>6

\* A way the search has gone: from src to a node found, along edges it may take, along no
\* node twice, and from one node to the next no shorter than the step between them.
Gone(s, path, src, avoid) ==
    /\ path \in Seq(Node) /\ Len(path) \in Nat /\ Len(path) >= 1
    /\ \A i, j \in 1 .. Len(path) : path[i] = path[j] => i = j
    /\ path[1] = src /\ path[Len(path)] \in s.found
    /\ \A i \in 1 .. Len(path) - 1 :
          /\ path[i + 1] \in Joined(path[i]) /\ Into(path[i]) \notin avoid
          /\ s.dist[path[i]] + Step(path[i], path[i + 1]) <= s.dist[path[i + 1]]

\* do_edge_trace finds it.
LEMMA TracedIsGone ==
    ASSUME NEW src \in Node, NEW dest \in Node, NEW avoid, NEW s, Searching(s, src, dest, avoid),
           s.found # {}
    PROVE  Gone(s, Traced(s, src), src, avoid)
<1> DEFINE Is(b) == b = [i \in 0 .. Cardinality(Node) |->
                            IF i = 0 THEN CHOOSE n \in s.found : TRUE ELSE s.prev[b[i - 1]]]
           back == CHOOSE b : Is(b)
           Begins(i) == back[i] = src
           edges == CHOOSE i \in 0 .. Cardinality(Node) : Begins(i) /\ \A j \in 0 .. i - 1 : ~Begins(j)
<1>1. /\ s \in SearchState /\ Linked(s, src, avoid) /\ Ordered(s)
      /\ s.visited \subseteq Node /\ s.found \subseteq s.visited /\ s.prev \in [Node -> Node]
  BY DEF Searching, SearchState
<1>2. PICK N \in Nat : N = Cardinality(Node)
  BY CardinalityOfNodes
<1>3. PICK f \in s.found : f = CHOOSE n \in s.found : TRUE
  OBVIOUS
<1>4. \E b : Is(b)
  <2> DEFINE G == [i \in 1 .. N |-> s.prev]
  <2>1. f \in Node /\ G \in Stages(N, Node)
    BY <1>1 DEF Stages
  <2>2. PICK b \in [0 .. N -> Node] : b[0] = f /\ \A i \in 1 .. N : b[i] = s.prev[b[i - 1]]
    <3>1. PICK h \in Stages(N, Node) : h = G
      BY <2>1
    <3>2. PICK x \in Node : x = f
      BY <2>1
    <3>3. \E b \in [0 .. N -> Node] : b[0] = x /\ \A i \in 1 .. N : b[i] = h[i][b[i - 1]]
      BY Recursion
    <3> QED
      BY <3>1, <3>2, <3>3
  <2>3. b = [i \in 0 .. N |-> IF i = 0 THEN f ELSE s.prev[b[i - 1]]]
    BY <2>2
  <2> QED
    BY <1>2, <1>3, <2>3
<1>5. Is(back)
  <2> HIDE DEF Is
  <2> QED
    BY <1>4
<1>6. PICK b : /\ b = back /\ b = [i \in 0 .. N |-> b[i]]
               /\ b[0] = f /\ \A i \in 1 .. N : b[i] = s.prev[b[i - 1]]
  <2> HIDE DEF back
  <2> QED
    BY <1>2, <1>3, <1>5
<1>7. b \in [0 .. N -> Node]
  <2> DEFINE A == {i \in 0 .. N : b[i] \in Node}
  <2>1. 0 \in A
    BY <1>1, <1>6
  <2>2. ASSUME NEW i \in 1 .. N, i - 1 \in A PROVE i \in A
    <3>1. i \in 0 .. N /\ b[i - 1] \in Node
      BY <2>2
    <3>2. b[i] = s.prev[b[i - 1]]
      BY <1>6
    <3> QED
      BY <1>1, <3>1, <3>2
  <2> HIDE DEF A
  <2>3. \A i \in 0 .. N : i \in A
    BY <2>1, <2>2, Upward
  <2> QED
    BY <1>6, <2>3 DEF A
<1>8. PICK n \in 0 .. N :
         /\ b[n] = src /\ \A i \in 0 .. n - 1 : b[i] # src
         /\ \A i \in 0 .. n : b[i] \in s.visited
         /\ \A i, j \in 0 .. n : b[i] = b[j] => i = j
  <2>1. GoesBack(s, N, b)
    BY <1>1, <1>6, <1>7 DEF GoesBack
  <2> QED
    BY <1>2, <2>1, BackToSource
<1>9. edges = n
  <2>1. \A i \in 0 .. N : (b[i] = src /\ \A j \in 0 .. i - 1 : b[j] # src) => i = n
    <3> SUFFICES ASSUME NEW i \in 0 .. N, b[i] = src, \A j \in 0 .. i - 1 : b[j] # src, i # n
                 PROVE  FALSE
      OBVIOUS
    <3>1. i \in 0 .. n - 1 \/ n \in 0 .. i - 1
      OBVIOUS
    <3> QED
      BY <1>8, <3>1
  <2>2. edges = CHOOSE i \in 0 .. N : b[i] = src /\ \A j \in 0 .. i - 1 : ~(b[j] = src)
    BY <1>2, <1>6
  <2> HIDE DEF edges
  <2> QED
    BY <1>8, <2>1, <2>2
<1>10. Traced(s, src) = [i \in 1 .. edges + 1 |-> back[edges + 1 - i]]
  BY DEF Traced
<1>11. PICK path : path = Traced(s, src) /\ path = [i \in 1 .. n + 1 |-> b[n + 1 - i]]
  <2> HIDE DEF edges, back
  <2> QED
    BY <1>6, <1>9, <1>10
<1>12. n \in Nat /\ n <= N
  OBVIOUS
<1>13. /\ path \in Seq(Node) /\ Len(path) = n + 1
       /\ \A i \in 1 .. n + 1 : path[i] = b[n + 1 - i] /\ n + 1 - i \in 0 .. n /\ n + 1 - i \in 0 .. N
  <2>1. \A i \in 1 .. n + 1 : n + 1 - i \in 0 .. n /\ n + 1 - i \in 0 .. N
    BY <1>12
  <2>2. path \in [1 .. n + 1 -> Node] /\ n + 1 \in Nat
    BY <1>7, <1>11, <1>12, <2>1
  <2>3. path \in Seq(Node) /\ Len(path) = n + 1
    <3>1. PICK k \in Nat : k = n + 1
      BY <2>2
    <3>2. path \in [1 .. k -> Node]
      BY <2>2, <3>1
    <3>3. path \in Seq(Node)
      BY <3>2, SeqDef
    <3>4. 1 .. Len(path) = 1 .. k /\ Len(path) \in Nat
      BY <3>2, <3>3, LenProperties
    <3> QED
      BY <3>1, <3>3, <3>4
  <2> QED
    BY <1>11, <2>1, <2>3
<1>14. \A i, j \in 1 .. n + 1 : path[i] = path[j] => i = j
  <2> SUFFICES ASSUME NEW i \in 1 .. n + 1, NEW j \in 1 .. n + 1, path[i] = path[j] PROVE i = j
    OBVIOUS
  <2>1. n + 1 - i = n + 1 - j
    BY <1>8, <1>13
  <2> QED
    BY <1>12, <2>1
<1>15. path[1] = src /\ path[n + 1] = f
  <2>1. 1 \in 1 .. n + 1 /\ n + 1 \in 1 .. n + 1 /\ n + 1 - 1 = n /\ n + 1 - (n + 1) = 0
    BY <1>12
  <2> QED
    BY <1>6, <1>8, <1>13, <2>1
<1>16. ASSUME NEW i \in 1 .. n
       PROVE  /\ path[i + 1] \in Joined(path[i]) /\ Into(path[i]) \notin avoid
              /\ s.dist[path[i]] + Step(path[i], path[i + 1]) <= s.dist[path[i + 1]]
  <2>1. PICK j \in 0 .. n - 1 : j = n - i
    BY <1>12
  <2>2. /\ i \in 1 .. n + 1 /\ i + 1 \in 1 .. n + 1 /\ n + 1 - (i + 1) = j /\ n + 1 - i = j + 1
        /\ j \in 0 .. n /\ j + 1 \in 1 .. N /\ (j + 1) - 1 = j
    BY <1>12, <2>1
  <2>3. path[i + 1] = b[j] /\ path[i] = b[j + 1]
    BY <1>13, <2>2
  <2>4. PICK m \in s.visited \ {src} : m = b[j]
    BY <1>8, <2>1, <2>2
  <2>5. path[i] = s.prev[m]
    BY <1>6, <2>2, <2>3, <2>4
  <2>6. m \in Node /\ s.dist[m] # Unseen
    BY <1>1 DEF Ordered
  <2> QED
    BY <1>1, <2>3, <2>4, <2>5, <2>6 DEF Linked
<1>17. Len(path) \in Nat /\ Len(path) >= 1 /\ 1 .. Len(path) = 1 .. n + 1 /\ 1 .. Len(path) - 1 = 1 .. n
  BY <1>12, <1>13
<1> HIDE DEF back, edges, Is
<1>18. path[Len(path)] \in s.found
  BY <1>13, <1>15
<1>19. Gone(s, path, src, avoid)
  BY <1>13, <1>14, <1>15, <1>16, <1>17, <1>18 DEF Gone
<1> QED
  BY <1>11, <1>19

\* The way found is no longer than the distance the search has of its end.
LEMMA WayIsNear ==
    ASSUME NEW s \in SearchState, NEW path, NEW src, NEW avoid, Gone(s, path, src, avoid)
    PROVE  /\ Distance(path, 1, Len(path)) \in Nat
           /\ Distance(path, 1, Len(path)) <= s.dist[path[Len(path)]]
<1> DEFINE Is(g) == g = [k \in 0 .. Len(path) - 1 |->
                            IF k = 0 THEN 0 ELSE g[k - 1] + Step(path[1 + k - 1], path[1 + k])]
           upto == CHOOSE g : Is(g)
<1>0. Len(path) \in Nat /\ Len(path) >= 1
  BY DEF Gone
<1>1. PICK N \in Nat : N = Len(path) - 1
  BY <1>0
<1>2. \A i \in 1 .. N : i \in 1 .. Len(path) - 1 /\ 1 + i - 1 = i /\ 1 + i = i + 1
  BY <1>1
<1>3. \A i \in 1 .. Len(path) : path[i] \in Node /\ s.dist[path[i]] \in Nat
  BY ElementOfSeq, UnseenIsNatural DEF Gone, SearchState
<1>4. \A i \in 1 .. N : i \in 1 .. Len(path) /\ i + 1 \in 1 .. Len(path)
  BY <1>1
<1>5. PICK L \in [1 .. N -> Nat] : \A i \in 1 .. N : L[i] = Step(path[i], path[i + 1])
  <2> DEFINE l == [i \in 1 .. N |-> Step(path[i], path[i + 1])]
  <2>1. ASSUME NEW i \in 1 .. N PROVE Step(path[i], path[i + 1]) \in Nat
    <3>1. PICK n \in Node : n = path[i]
      BY <1>3, <1>4
    <3>2. PICK m \in Joined(n) : m = path[i + 1]
      BY <1>2, <3>1 DEF Gone
    <3>3. Step(n, m) \in Nat
      BY StepProperties
    <3> QED
      BY <3>1, <3>2, <3>3
  <2>2. l \in [1 .. N -> Nat] /\ \A i \in 1 .. N : l[i] = Step(path[i], path[i + 1])
    BY <2>1
  <2> QED
    BY <2>2
<1>6. \A i \in 1 .. N : Step(path[1 + i - 1], path[1 + i]) = L[i]
  BY <1>2, <1>5
<1>7. \E g : Is(g)
  <2> DEFINE G == [i \in 1 .. N |-> [d \in Nat |-> d + L[i]]]
  <2>1. G \in Stages(N, Nat)
    BY DEF Stages
  <2>2. PICK g \in [0 .. N -> Nat] : g[0] = 0 /\ \A i \in 1 .. N : g[i] = g[i - 1] + L[i]
    <3>1. PICK Y : Y = Nat
      OBVIOUS
    <3>2. PICK h \in Stages(N, Y) : h = G
      BY <2>1, <3>1
    <3>3. PICK x \in Y : x = 0
      BY <3>1
    <3>4. \E g \in [0 .. N -> Y] : g[0] = x /\ \A i \in 1 .. N : g[i] = h[i][g[i - 1]]
      BY Recursion
    <3>5. PICK g \in [0 .. N -> Nat] : g[0] = 0 /\ \A i \in 1 .. N : g[i] = G[i][g[i - 1]]
      BY <3>1, <3>2, <3>3, <3>4
    <3>6. ASSUME NEW i \in 1 .. N PROVE g[i] = g[i - 1] + L[i]
      <4>1. PICK d \in Nat : d = g[i - 1]
        OBVIOUS
      <4>2. G[i][d] = d + L[i]
        OBVIOUS
      <4> QED
        BY <3>5, <4>1, <4>2
    <3> QED
      BY <3>5, <3>6
  <2>3. g = [k \in 0 .. N |-> IF k = 0 THEN 0 ELSE g[k - 1] + Step(path[1 + k - 1], path[1 + k])]
    <3>1. \A k \in 0 .. N : k # 0 => k \in 1 .. N
      OBVIOUS
    <3> QED
      BY <1>6, <2>2, <3>1
  <2> QED
    BY <1>1, <2>3
<1>8. Is(upto)
  <2> HIDE DEF Is
  <2> QED
    BY <1>7
<1>9. Distance(path, 1, Len(path)) = upto[Len(path) - 1]
  BY DEF Distance
<1>10. PICK g : g = upto /\ g[0] = 0 /\ \A i \in 1 .. N : g[i] = g[i - 1] + L[i]
  <2> HIDE DEF upto
  <2>1. \A i \in 1 .. N : i \in 0 .. N /\ i # 0
    OBVIOUS
  <2> QED
    BY <1>1, <1>6, <1>8, <2>1
<1>11. \A k \in 0 .. N : g[k] \in Nat /\ g[k] <= s.dist[path[k + 1]]
  <2> DEFINE A == {k \in 0 .. N : g[k] \in Nat /\ g[k] <= s.dist[path[k + 1]]}
  <2>1. 0 \in A
    <3>1. 0 + 1 = 1 /\ 1 \in 1 .. Len(path)
      BY <1>1
    <3>2. s.dist[path[0 + 1]] \in Nat
      BY <1>3, <3>1
    <3> QED
      BY <1>10, <3>2
  <2>2. ASSUME NEW k \in 1 .. N, k - 1 \in A PROVE k \in A
    <3>1. g[k - 1] \in Nat /\ g[k - 1] <= s.dist[path[k]] /\ k \in 0 .. N
      <4>1. (k - 1) + 1 = k
        OBVIOUS
      <4> QED
        BY <2>2, <4>1
    <3>2. s.dist[path[k]] + L[k] <= s.dist[path[k + 1]]
      BY <1>2, <1>5 DEF Gone
    <3>3. PICK x \in Nat, y \in Nat, l \in Nat, d \in Nat :
             x = s.dist[path[k]] /\ y = s.dist[path[k + 1]] /\ l = L[k] /\ d = g[k - 1]
      BY <1>3, <1>4, <3>1
    <3>4. g[k] = d + l
      BY <1>10, <3>3
    <3>5. d <= x /\ x + l <= y
      BY <3>1, <3>2, <3>3
    <3>6. d + l \in Nat /\ d + l <= y
      BY <3>5
    <3> QED
      BY <3>1, <3>3, <3>4, <3>6
  <2> HIDE DEF A
  <2>3. \A k \in 0 .. N : k \in A
    BY <2>1, <2>2, Upward
  <2> QED
    BY <2>3 DEF A
<1>12. N \in 0 .. N /\ N + 1 = Len(path)
  BY <1>1 DEF Gone
<1>13. g[N] \in Nat /\ g[N] <= s.dist[path[N + 1]]
  BY <1>11, <1>12
<1>14. Distance(path, 1, Len(path)) = g[N]
  BY <1>1, <1>9, <1>10
<1> HIDE DEF upto, Is
<1> QED
  BY <1>12, <1>13, <1>14

\* When the search is over: it has found no farther an end than p, or has visited the node
\* of p on no longer a way.
Reached(s, p) ==
    \/ p[1] \in s.visited \ s.found /\ s.dist[p[1]] <= p[2]
    \/ \E f \in s.found : s.dist[f] <= p[2]

LEMMA Cancel ==
    ASSUME NEW a \in Nat, NEW n \in Nat, NEW u \in Nat, NEW c \in Nat, c < n, a * n <= c * u + u
    PROVE  a <= u
<1> SUFFICES ASSUME a > u PROVE FALSE
  OBVIOUS
<1>1. PICK r \in Nat : a = u + 1 + r
  <2>1. a - u - 1 \in Nat /\ a = u + 1 + (a - u - 1)
    OBVIOUS
  <2> QED
    BY <2>1
<1>2. PICK q \in Nat : n = c + 1 + q
  <2>1. n - c - 1 \in Nat /\ n = c + 1 + (n - c - 1)
    OBVIOUS
  <2> QED
    BY <2>1
<1>3. a * n = u * n + n + r * n /\ u * n = c * u + u + u * q
  BY <1>1, <1>2
<1>4. r * n \in Nat /\ u * q \in Nat /\ c * u \in Nat /\ u * n \in Nat /\ a * n \in Nat
  OBVIOUS
<1> QED
  BY <1>3, <1>4

\* No step of the reference leads beyond it.
LEMMA ReachedStep ==
    ASSUME NEW src \in Node, NEW dest \in Node, NEW avoid, NEW s, Searching(s, src, dest, avoid),
           s.found # {} \/ Unvisited(s) = {},
           NEW n \in Node, NEW d \in Nat, Reached(s, <<n, d>>), Into(n) \notin avoid,
           NEW m \in Joined(n)
    PROVE  Reached(s, <<m, d + Step(n, m)>>)
<1>1. m \in Node /\ Step(n, m) \in Nat
  BY StepProperties
<1>2. /\ s \in SearchState /\ Ordered(s) /\ Spread(s, s.visited \ s.found, avoid) /\ Bounded(s)
      /\ \A x \in Node : s.dist[x] \in Nat /\ s.dist[x] <= Unseen
      /\ s.visited \subseteq Node /\ s.found \subseteq s.visited
  BY UnseenIsNatural DEF Searching, SearchState
<1>3. CASE \E f \in s.found : s.dist[f] <= d
  <2>1. PICK f \in s.found : s.dist[f] <= d
    BY <1>3
  <2>2. s.dist[f] <= d + Step(n, m)
    BY <1>1, <1>2, <2>1
  <2> QED
    BY <2>2 DEF Reached
<1>4. CASE n \in s.visited \ s.found /\ s.dist[n] <= d
  <2>1. PICK i \in 1 .. Len(Edges(n)) : Edges(n)[i].to = m /\ Edges(n)[i].dist = Step(n, m)
    BY StepProperties
  <2>2. s.dist[m] <= s.dist[n] + Step(n, m)
    BY <1>2, <1>4, <2>1 DEF Spread
  <2>3. s.dist[m] <= d + Step(n, m)
    BY <1>1, <1>2, <1>4, <2>2
  <2>4. CASE m \in s.visited
    BY <2>3, <2>4 DEF Reached
  <2>5. CASE m \notin s.visited /\ s.found # {}
    <3>1. PICK f \in s.found : TRUE
      BY <2>5
    <3>2. s.dist[f] <= s.dist[m]
      <4>1. CASE s.dist[m] = Unseen
        BY <1>2, <4>1
      <4>2. CASE s.dist[m] # Unseen
        <5>1. m \in Unvisited(s)
          BY <1>1, <2>5, <4>2 DEF Unvisited
        <5> QED
          BY <1>2, <5>1 DEF Ordered
      <4> QED
        BY <4>1, <4>2
    <3>3. s.dist[f] <= d + Step(n, m)
      BY <1>1, <1>2, <2>3, <3>2
    <3> QED
      BY <3>3 DEF Reached
  <2>6. CASE m \notin s.visited /\ Unvisited(s) = {}
    <3>1. s.dist[m] = Unseen
      BY <1>1, <2>6 DEF Unvisited
    <3>2. PICK N \in Nat : N = Cardinality(Node)
      BY CardinalityOfNodes
    <3>3. PICK c \in Nat : c = Cardinality(s.visited) /\ c < N
      <4>1. Cardinality(s.visited) # Cardinality(Node)
        BY <1>1, <1>2, <2>6, CardinalityOfNodes
      <4> QED
        BY <1>2, <3>2, <4>1, CardinalityOfNodes
    <3>4. PICK u \in Nat : u = Unseen - 1
      BY UnseenIsNatural
    <3>5. PICK a \in Nat, e \in Nat : a = s.dist[n] /\ e = Step(n, m)
      BY <1>1, <1>2
    <3>6. a * N <= c * u
      BY <1>2, <1>4, <3>2, <3>3, <3>4, <3>5 DEF Bounded, Ordered
    <3>7. e * N < Unseen
      BY <2>1, <3>2, <3>5, EdgesShort
    <3>8. (a + e) * N = a * N + e * N /\ a * N \in Nat /\ e * N \in Nat /\ c * u \in Nat
      OBVIOUS
    <3>9. (a + e) * N <= c * u + u
      BY <3>4, <3>6, <3>7, <3>8, UnseenIsNatural
    <3>10. a + e <= u
      <4>1. PICK b \in Nat : b = a + e
        OBVIOUS
      <4>2. b * N <= c * u + u
        BY <3>9, <4>1
      <4>3. b <= u
        BY <3>3, <4>2, Cancel
      <4> QED
        BY <4>1, <4>3
    <3> QED
      BY <2>2, <3>1, <3>4, <3>5, <3>10, UnseenIsNatural
  <2> QED
    BY <2>4, <2>5, <2>6
<1> QED
  BY <1>3, <1>4 DEF Reached

LEMMA FurtherReached ==
    ASSUME NEW src \in Node, NEW dest \in Node, NEW avoid, NEW s, Searching(s, src, dest, avoid),
           s.found # {} \/ Unvisited(s) = {},
           NEW reached \in SUBSET {p \in Node \X Nat : Reached(s, p)}
    PROVE  Further(reached, avoid) \in SUBSET {p \in Node \X Nat : Reached(s, p)}
<1> DEFINE from  == {p \in reached : Into(p[1]) \notin avoid}
           steps == {<<p[1], p[2], m>> : p \in from, m \in Node}
           along == {t \in steps : t[3] \in Joined(t[1])}
           more  == reached \cup {<<t[3], t[2] + Step(t[1], t[3])>> : t \in along}
<1>1. Further(reached, avoid) \subseteq more
  BY DEF Further
<1>2. ASSUME NEW q \in more PROVE q \in Node \X Nat /\ Reached(s, q)
  <2>1. CASE q \in reached
    BY <2>1
  <2>2. CASE \E t \in along : q = <<t[3], t[2] + Step(t[1], t[3])>>
    <3>1. PICK t \in along : q = <<t[3], t[2] + Step(t[1], t[3])>>
      BY <2>2
    <3>2. PICK p \in from, m \in Node : t = <<p[1], p[2], m>>
      OBVIOUS
    <3>3. t[1] = p[1] /\ t[2] = p[2] /\ t[3] = m /\ t[3] \in Joined(t[1])
      BY <3>2
    <3>4. PICK n \in Node, d \in Nat : p = <<n, d>> /\ Reached(s, <<n, d>>) /\ Into(n) \notin avoid
      <4>1. p \in Node \X Nat /\ Reached(s, p) /\ Into(p[1]) \notin avoid
        OBVIOUS
      <4>2. PICK n \in Node, d \in Nat : p = <<n, d>>
        BY <4>1
      <4>3. Into(n) \notin avoid
        BY <4>1, <4>2
      <4> QED
        BY <4>1, <4>2, <4>3
    <3>5. m \in Joined(n) /\ q = <<m, d + Step(n, m)>>
      BY <3>1, <3>3, <3>4
    <3>6. Reached(s, <<m, d + Step(n, m)>>)
      BY <3>4, <3>5, ReachedStep
    <3>7. Step(n, m) \in Nat
      BY <3>5, StepProperties
    <3> QED
      BY <3>5, <3>6, <3>7
  <2> QED
    BY <2>1, <2>2
<1> HIDE DEF more
<1> QED
  BY <1>1, <1>2

LEMMA LeastReached ==
    ASSUME NEW src \in Node, NEW dest \in Node, NEW avoid, NEW s, Searching(s, src, dest, avoid),
           s.found # {} \/ Unvisited(s) = {}
    PROVE  \A p \in Least(src, avoid) : p \in Node \X Nat /\ Reached(s, p)
<1> DEFINE P == {p \in Node \X Nat : Reached(s, p)}
           Is(g) == g = [i \in 0 .. Cardinality(Node) |->
                            IF i = 0 THEN {<<src, 0>>} ELSE Further(g[i - 1], avoid)]
           reached == CHOOSE g : Is(g)
<1>1. PICK N \in Nat : N = Cardinality(Node)
  BY CardinalityOfNodes
<1>2. {<<src, 0>>} \in SUBSET P
  <2>1. /\ s.dist[src] = 0 /\ src \in s.visited \cup Unvisited(s)
        /\ \A f \in s.found : f \in s.visited /\ \A m \in Unvisited(s) : s.dist[f] <= s.dist[m]
    BY UnseenIsNatural DEF Searching, Ordered, Unvisited
  <2>2. Reached(s, <<src, 0>>)
    <3>1. CASE src \in s.visited
      BY <2>1, <3>1 DEF Reached
    <3>2. CASE src \in Unvisited(s)
      BY <2>1, <3>2 DEF Reached
    <3> QED
      BY <2>1, <3>1, <3>2
  <2> QED
    BY <2>2
<1>3. \A r \in SUBSET P : Further(r, avoid) \in SUBSET P
  BY FurtherReached
<1>4. \E g : Is(g)
  <2> DEFINE G == [i \in 1 .. N |-> [r \in SUBSET P |-> Further(r, avoid)]]
  <2>1. PICK Y : Y = SUBSET P
    OBVIOUS
  <2>2. G \in Stages(N, Y)
    <3> HIDE DEF P
    <3> QED
      BY <1>3, <2>1 DEF Stages
  <2>3. PICK h \in Stages(N, Y) : h = G
    BY <2>2
  <2>4. PICK x \in Y : x = {<<src, 0>>}
    BY <1>2, <2>1
  <2>5. PICK g \in [0 .. N -> Y] : g[0] = x /\ \A i \in 1 .. N : g[i] = h[i][g[i - 1]]
    BY Recursion
  <2>6. ASSUME NEW i \in 1 .. N PROVE g[i] = Further(g[i - 1], avoid)
    <3>1. PICK r \in Y : r = g[i - 1]
      OBVIOUS
    <3>2. h[i][r] = Further(r, avoid)
      BY <2>1, <2>3
    <3> QED
      BY <2>5, <3>1, <3>2
  <2>7. g = [i \in 0 .. N |-> IF i = 0 THEN {<<src, 0>>} ELSE Further(g[i - 1], avoid)]
    <3>1. \A k \in 0 .. N : k # 0 => k \in 1 .. N
      OBVIOUS
    <3>2. g = [i \in 0 .. N |-> g[i]]
      OBVIOUS
    <3>3. \A i \in 0 .. N : g[i] = IF i = 0 THEN {<<src, 0>>} ELSE Further(g[i - 1], avoid)
      BY <2>4, <2>5, <2>6, <3>1
    <3> QED
      BY <3>2, <3>3
  <2> QED
    BY <1>1, <2>7
<1>5. Is(reached)
  <2> HIDE DEF Is
  <2> QED
    BY <1>4
<1>6. Least(src, avoid) = reached[Cardinality(Node)]
  BY DEF Least
<1>7. PICK g : g = reached /\ g[0] = {<<src, 0>>} /\ \A i \in 1 .. N : g[i] = Further(g[i - 1], avoid)
  <2> HIDE DEF reached
  <2>1. \A i \in 1 .. N : i \in 0 .. N /\ i # 0
    OBVIOUS
  <2> QED
    BY <1>1, <1>5, <2>1
<1> DEFINE A == {i \in 0 .. N : g[i] \in SUBSET P}
<1> HIDE DEF P
<1>8. 0 \in A
  <2>1. 0 \in 0 .. N
    OBVIOUS
  <2>2. g[0] \in SUBSET P
    BY ONLY <1>2, <1>7
  <2> QED
    BY <2>1, <2>2
<1>9. ASSUME NEW i \in 1 .. N, i - 1 \in A PROVE i \in A
  <2>1. g[i - 1] \in SUBSET P /\ i \in 0 .. N
    BY <1>9
  <2>2. Further(g[i - 1], avoid) \in SUBSET P
    BY <1>3, <2>1
  <2> QED
    BY <1>7, <2>1, <2>2
<1>10. N \in A
  <2> HIDE DEF A
  <2>1. \A i \in 0 .. N : i \in A
    BY <1>8, <1>9, Upward
  <2> QED
    BY <2>1
<1>11. Least(src, avoid) \in SUBSET P
  <2> HIDE DEF reached
  <2> QED
    BY <1>1, <1>6, <1>7, <1>10
<1> QED
  BY <1>11 DEF P

\* The way found is one of the shortest, and one is found if there is any.
LEMMA SearchIsRight ==
    ASSUME NEW src \in Node, NEW dest \in Node, NEW avoid
    PROVE  WayFound(do_djikstra(src, dest, avoid), src, dest, avoid)
<1>1. PICK s : /\ s = Searched(src, dest, avoid) /\ Searching(s, src, dest, avoid)
               /\ s.found # {} \/ Unvisited(s) = {}
  BY SearchEnds
<1>2. PICK ends : ends = {p \in Least(src, avoid) : p[1] \in {dest, Reverse[dest]}}
  OBVIOUS
<1>3. \A p \in ends : p \in Node \X Nat /\ \E f \in s.found : s.dist[f] <= p[2]
  <2> TAKE p \in ends
  <2>1. p \in Node \X Nat /\ Reached(s, p) /\ p[1] \in {dest, Reverse[dest]}
    BY <1>1, <1>2, LeastReached
  <2>2. p[1] \notin s.visited \ s.found
    BY <1>1, <2>1 DEF Searching
  <2> QED
    BY <2>1, <2>2 DEF Reached
<1>4. CASE s.found = {}
  <2>1. do_djikstra(src, dest, avoid) = <<>>
    BY <1>1, <1>4 DEF do_djikstra
  <2>2. ends = {}
    BY <1>3, <1>4
  <2> QED
    BY <1>2, <2>1, <2>2 DEF WayFound
<1>5. CASE s.found # {}
  <2>1. PICK path : path = do_djikstra(src, dest, avoid) /\ Gone(s, path, src, avoid)
    BY <1>1, <1>5, TracedIsGone DEF do_djikstra
  <2>2. path # <<>>
    <3>1. Len(<<>>) = 0
      BY EmptySeq
    <3> QED
      BY <2>1, <3>1 DEF Gone
  <2>3. /\ s \in SearchState /\ s.found = s.visited \cap {dest, Reverse[dest]}
        /\ \A m, n \in s.found : m = n
        /\ \A f \in s.found : s.dist[f] \in Nat
    BY <1>1, UnseenIsNatural DEF Searching, SearchState
  <2>4. PICK d : d = Distance(path, 1, Len(path)) /\ d \in Nat /\ d <= s.dist[path[Len(path)]]
    BY <2>1, <2>3, WayIsNear
  <2>5. path[Len(path)] \in s.found /\ path[Len(path)] \in {dest, Reverse[dest]}
    BY <2>1, <2>3 DEF Gone
  <2>6. \A p \in ends : d <= p[2]
    <3> TAKE p \in ends
    <3>1. p[2] \in Nat /\ s.dist[path[Len(path)]] <= p[2]
      BY <1>3, <2>3, <2>5
    <3>2. PICK e \in Nat : e = s.dist[path[Len(path)]]
      BY <2>3, <2>5
    <3> QED
      BY <2>4, <3>1, <3>2
  <2>7. /\ path \in Seq(Node) /\ \A i, j \in 1 .. Len(path) : path[i] = path[j] => i = j
        /\ path[1] = src
        /\ \A i \in 1 .. Len(path) - 1 : path[i + 1] \in Joined(path[i]) /\ Into(path[i]) \notin avoid
    BY <2>1 DEF Gone
  <2>8. WayFound(path, src, dest, avoid)
    BY <1>2, <2>2, <2>4, <2>5, <2>6, <2>7 DEF WayFound
  <2> QED
    BY <2>1, <2>8
<1> QED
  BY <1>4, <1>5

\* The search finds a shortest way, for every source and destination and every set of zones to
\* avoid, and misses none (do_djikstra and do_edge_trace of
\* src/user/pathfinder-server/helpers.c).
THEOREM FindsShortestWays == ShortestWays
<1> SUFFICES ASSUME NEW w \in Ways PROVE WayFound(w.way, w.src, w.dest, w.avoid)
  BY DEF ShortestWays
<1>1. PICK src \in Sensor, dest \in Dests, avoid \in SUBSET Zone :
         w = [src |-> src, dest |-> dest, avoid |-> avoid, way |-> do_djikstra(src, dest, avoid)]
  BY DEF Ways
<1>2. src \in Node /\ dest \in Node
  BY TrackAssumption, PathAssumption
<1>3. WayFound(do_djikstra(src, dest, avoid), src, dest, avoid)
  BY <1>2, SearchIsRight
<1> QED
  BY <1>1, <1>3

-----------------------------------------------------------------------------
(* The ways the search finds. *)

\* A way the search finds is a way.
LEMMA FoundIsWay ==
    ASSUME NEW w \in Ways, Len(w.way) > 1
    PROVE  Way(w.way) /\ w.way[1] = w.src
<1> DEFINE r == w.way
<1>1. w.src \in Sensor /\ w.dest \in Dests
  BY DEF Ways
<1>2. w.dest \in Sensor /\ Reverse[w.dest] \in Sensor
  BY <1>1, PathAssumption, TrackAssumption
<1>3. /\ r \in Seq(Node) /\ \A i, j \in 1 .. Len(r) : r[i] = r[j] => i = j
      /\ r[1] = w.src /\ r[Len(r)] \in {w.dest, Reverse[w.dest]}
      /\ \A i \in 1 .. Len(r) - 1 : r[i + 1] \in Joined(r[i])
  <2>1. WayFound(r, w.src, w.dest, w.avoid)
    BY FindsShortestWays DEF ShortestWays
  <2>2. r # <<>>
    <3>1. Len(<<>>) = 0
      BY EmptySeq
    <3> QED
      BY <3>1
  <2> HIDE DEF r
  <2> QED
    BY <2>1, <2>2 DEF WayFound
<1> HIDE DEF r
<1>4. Len(r) \in Nat /\ Len(r) > 1
  BY <1>3, LenProperties DEF r
<1>5. \A i \in 1 .. Len(r) : r[i] \in Node
  BY <1>3, ElementOfSeq
<1>6. ASSUME NEW i \in 2 .. Len(r)
      PROVE  ZoneOf[r[i]] = Into(r[i - 1]) /\ (Turns(r, i) => r[i - 1] \in Sensor)
  <2>1. i - 1 \in 1 .. Len(r) - 1 /\ (i - 1) + 1 = i /\ i - 1 \in 1 .. Len(r) /\ i \in 1 .. Len(r)
    BY <1>4
  <2>2. PICK n \in Node, m \in Node : n = r[i - 1] /\ m = r[i]
    BY <1>5, <2>1
  <2>3. m \in Joined(n)
    BY <1>3, <2>1, <2>2
  <2>4. CASE n \in Sensor /\ m = Reverse[n]
    BY <2>2, <2>4 DEF Into
  <2>5. CASE m \in Ahead(n)
    <3>1. m # Reverse[n]
      BY <2>5, TrackAssumption
    <3>2. Edges(m) # <<>>
      <4> SUFFICES ASSUME Edges(m) = <<>> PROVE FALSE
        OBVIOUS
      <4>1. m \notin Sensor /\ Joined(m) = {}
        BY EndsOfTrack
      <4>2. i # Len(r)
        BY <1>2, <1>3, <2>2, <4>1
      <4>3. i \in 1 .. Len(r) - 1
        BY <1>4, <4>2
      <4> QED
        BY <1>3, <2>2, <4>1, <4>3
    <3>3. Edges(Reverse[n]) # <<>>
      <4> SUFFICES ASSUME Edges(Reverse[n]) = <<>> PROVE FALSE
        OBVIOUS
      <4>1. Reverse[n] \in Node /\ Reverse[Reverse[n]] = n
        BY TrackAssumption
      <4>2. Reverse[n] \notin Sensor /\ \A k \in Node : n \notin Ahead(k)
        BY <4>1, EndsOfTrack
      <4>3. n \notin Sensor
        BY <4>2, TrackAssumption
      <4>4. i - 1 # 1
        BY <1>1, <1>3, <2>2, <4>3
      <4>5. i - 2 \in 1 .. Len(r) - 1 /\ (i - 2) + 1 = i - 1 /\ i - 2 \in 1 .. Len(r)
        BY <1>4, <4>4
      <4>6. n \in Joined(r[i - 2]) /\ r[i - 2] \in Node
        BY <1>3, <1>5, <2>2, <4>5
      <4>7. r[i - 2] \in Sensor /\ n = Reverse[r[i - 2]]
        BY <4>2, <4>6, JoinedOrTurned
      <4> QED
        BY <4>3, <4>7, TrackAssumption
    <3>4. Into(n) = ZoneOf[m]
      BY <2>5, <3>2, <3>3, TrackAssumption
    <3> QED
      BY <2>2, <3>1, <3>4 DEF Turns
  <2> QED
    BY <2>3, <2>4, <2>5, JoinedOrTurned
<1> QED
  BY <1>1, <1>3, <1>4, <1>6 DEF Way, r

\* The zones a train enters are zones; behind a sensor, up to the next one, they are one.
LEMMA WayZones ==
    ASSUME NEW r, Way(r)
    PROVE  /\ Len(r) \in Nat /\ Len(r) >= 1
           /\ \A i \in 1 .. Len(r) : r[i] \in Node /\ Zoned(r, i) \in Zone /\ Zoned(<<r[i]>>, 1) = Zoned(r, i)
           /\ \A i \in 2 .. Len(r) : ZoneOf[r[i]] = Zoned(r, i - 1)
                                     /\ (r[i] \notin Sensor => Zoned(r, i) = Zoned(r, i - 1))
<1>1. r \in Seq(Node) /\ Len(r) \in Nat /\ Len(r) >= 1
  BY LenProperties DEF Way
<1>2. ASSUME NEW i \in 1 .. Len(r)
      PROVE  r[i] \in Node /\ Zoned(r, i) \in Zone /\ Zoned(<<r[i]>>, 1) = Zoned(r, i)
  <2>1. r[i] \in Node
    BY <1>1, ElementOfSeq
  <2>2. Reverse[r[i]] \in Node
    BY <2>1, TrackAssumption
  <2> QED
    BY <2>1, <2>2, TrackAssumption DEF Zoned, Into
<1>3. ASSUME NEW i \in 2 .. Len(r)
      PROVE  ZoneOf[r[i]] = Zoned(r, i - 1) /\ (r[i] \notin Sensor => Zoned(r, i) = Zoned(r, i - 1))
  <2>1. ZoneOf[r[i]] = Zoned(r, i - 1)
    BY DEF Way, Zoned
  <2>2. i \in 1 .. Len(r)
    BY <1>1
  <2>3. r[i] \in Node
    BY <1>2, <2>2
  <2>4. r[i] \notin Sensor => Into(r[i]) = ZoneOf[r[i]]
    BY <2>3, TrackAssumption
  <2> QED
    BY <2>1, <2>4 DEF Zoned
<1> QED
  BY <1>1, <1>2, <1>3

\* Where a leg ends and where its train stops: at a sensor, the target or one it turns at.
LEMMA StopProperties ==
    ASSUME NEW t \in Train, InOrder(t)
    PROVE  /\ lo[t] \in Nat /\ target[t] \in Nat /\ Len(route[t]) \in Nat /\ lo[t] >= 1
           /\ lo[t] <= target[t] /\ target[t] <= Len(route[t])
           /\ lo[t] = target[t] => Hi(t) = target[t]
           /\ lo[t] < target[t] =>
                /\ Hi(t) \in lo[t] + 1 .. target[t]
                /\ Turns(route[t], Hi(t)) => /\ Stop(t) = Hi(t) - 1
                                             /\ route[t][Hi(t)] = Reverse[route[t][Stop(t)]]
                /\ ~Turns(route[t], Hi(t)) => Stop(t) = Hi(t) /\ Hi(t) = target[t]
                /\ route[t][Stop(t)] \in Sensor
<1> DEFINE T == {i \in lo[t] + 1 .. target[t] : Turns(route[t], i)}
           S == T \cup {target[t]}
<1>1. Len(route[t]) \in Nat /\ route[t] \in Seq(Node)
  BY LenProperties DEF InOrder, Way
<1>2. /\ lo[t] \in Nat /\ target[t] \in Nat /\ lo[t] >= 1
      /\ lo[t] <= target[t] /\ target[t] <= Len(route[t])
  <2>1. next[t] \in 2 .. Len(route[t]) + 1 /\ target[t] \in 1 .. next[t] - 1
        /\ at[t] \in 1 .. target[t] /\ lo[t] \in 1 .. at[t]
    BY DEF InOrder
  <2>2. PICK L \in Nat : L = Len(route[t])
    BY <1>1
  <2>3. PICK n \in Nat : n = next[t] /\ n <= L + 1
    BY <2>1, <2>2
  <2>4. PICK k \in Nat : k = target[t] /\ k <= n - 1
    BY <2>1, <2>3
  <2>5. PICK a \in Nat : a = at[t] /\ a <= k
    BY <2>1, <2>4
  <2>6. PICK l \in Nat : l = lo[t] /\ l >= 1 /\ l <= a
    BY <2>1, <2>5
  <2>7. k <= L /\ l <= k
    BY <2>3, <2>4, <2>5, <2>6
  <2> QED
    BY <2>2, <2>4, <2>6, <2>7
<1>3. Hi(t) = First(S)
  BY DEF Hi
<1>4. S \in SUBSET Nat /\ S # {}
  BY <1>2
<1>5. Hi(t) \in S /\ \A j \in S : Hi(t) <= j
  <2> HIDE DEF S
  <2> QED
    BY <1>3, <1>4, FirstProperties
<1>6. lo[t] = target[t] => Hi(t) = target[t]
  BY <1>2, <1>5
<1>7. ASSUME lo[t] < target[t]
      PROVE  /\ Hi(t) \in lo[t] + 1 .. target[t]
             /\ Turns(route[t], Hi(t)) => /\ Stop(t) = Hi(t) - 1
                                          /\ route[t][Hi(t)] = Reverse[route[t][Stop(t)]]
             /\ ~Turns(route[t], Hi(t)) => Stop(t) = Hi(t) /\ Hi(t) = target[t]
             /\ route[t][Stop(t)] \in Sensor
  <2>1. Hi(t) \in lo[t] + 1 .. target[t]
    BY <1>2, <1>5, <1>7
  <2>2. Hi(t) \in T \/ Hi(t) = target[t]
    BY <1>5
  <2>3. CASE Turns(route[t], Hi(t))
    <3>1. Stop(t) = Hi(t) - 1 /\ route[t][Hi(t)] = Reverse[route[t][Hi(t) - 1]]
      BY <2>3 DEF Stop, Turns
    <3>2. Hi(t) \in 2 .. Len(route[t])
      BY <1>1, <1>2, <2>1
    <3>3. route[t][Hi(t) - 1] \in Sensor
      BY <2>3, <3>2 DEF InOrder, Way
    <3> QED
      BY <2>1, <2>3, <3>1, <3>3
  <2>4. CASE ~Turns(route[t], Hi(t))
    <3>1. Stop(t) = Hi(t)
      BY <2>4 DEF Stop
    <3>2. Hi(t) = target[t]
      BY <2>2, <2>4
    <3>3. route[t][target[t]] \in Sensor
      BY DEF InOrder
    <3> QED
      BY <2>1, <2>4, <3>1, <3>2, <3>3
  <2> QED
    BY <2>3, <2>4
<1> QED
  BY <1>1, <1>2, <1>6, <1>7

\* Counting places one by one, from either end.
LEMMA PlacesFinite ==
    ASSUME NEW r, NEW z, NEW a \in Int, NEW b \in Int
    PROVE  /\ IsFiniteSet(Places(r, z, a, b)) /\ Cardinality(Places(r, z, a, b)) \in Nat
           /\ Cardinality(Places(r, z, a, b)) = 0 => \A i \in a .. b : Zoned(r, i) # z
<1>1. IsFiniteSet(a .. b)
  BY FS_Interval
<1>2. Places(r, z, a, b) \in SUBSET (a .. b)
  BY DEF Places
<1>3. IsFiniteSet(Places(r, z, a, b))
  BY <1>1, <1>2, FS_Subset
<1>4. Cardinality(Places(r, z, a, b)) = 0 => Places(r, z, a, b) = {}
  BY <1>3, FS_EmptySet
<1>5. Places(r, z, a, b) = {} => \A i \in a .. b : Zoned(r, i) # z
  BY DEF Places
<1> QED
  BY <1>3, <1>4, <1>5, FS_CardinalityType

\* A later beginning counts no more places.
LEMMA PlacesNarrow ==
    ASSUME NEW r, NEW z, NEW a \in Int, NEW b \in Int, NEW c \in Int, a <= c
    PROVE  Cardinality(Places(r, z, c, b)) <= Cardinality(Places(r, z, a, b))
<1>1. Places(r, z, c, b) \in SUBSET Places(r, z, a, b)
  BY DEF Places
<1> QED
  BY <1>1, PlacesFinite, FS_Subset

\* The first place is counted for its zone.
LEMMA PlacesFirst ==
    ASSUME NEW r, NEW z, NEW a \in Int, NEW b \in Int, a <= b
    PROVE  Cardinality(Places(r, z, a, b)) =
                Cardinality(Places(r, z, a + 1, b)) + IF Zoned(r, a) = z THEN 1 ELSE 0
<1>1. a \notin Places(r, z, a + 1, b) /\ a + 1 \in Int
  BY DEF Places
<1>2. IsFiniteSet(Places(r, z, a + 1, b)) /\ Cardinality(Places(r, z, a + 1, b)) \in Nat
  BY <1>1, PlacesFinite
<1>3. CASE Zoned(r, a) = z
  <2>1. Places(r, z, a, b) = Places(r, z, a + 1, b) \cup {a}
    BY <1>3 DEF Places
  <2>2. Cardinality(Places(r, z, a + 1, b) \cup {a}) = Cardinality(Places(r, z, a + 1, b)) + 1
    BY <1>1, <1>2, FS_AddElement
  <2> QED
    BY <1>3, <2>1, <2>2
<1>4. CASE Zoned(r, a) # z
  <2>1. Places(r, z, a, b) = Places(r, z, a + 1, b)
    BY <1>4 DEF Places
  <2> QED
    BY <1>2, <1>4, <2>1
<1> QED
  BY <1>3, <1>4

\* One place more, at the end, is counted for its zone.
LEMMA PlacesLast ==
    ASSUME NEW r, NEW z, NEW a \in Int, NEW b \in Int, a <= b + 1
    PROVE  Cardinality(Places(r, z, a, b + 1)) =
                Cardinality(Places(r, z, a, b)) + IF Zoned(r, b + 1) = z THEN 1 ELSE 0
<1>1. b + 1 \notin Places(r, z, a, b)
  BY DEF Places
<1>2. IsFiniteSet(Places(r, z, a, b)) /\ Cardinality(Places(r, z, a, b)) \in Nat
  BY PlacesFinite
<1>3. CASE Zoned(r, b + 1) = z
  <2>1. Places(r, z, a, b + 1) = Places(r, z, a, b) \cup {b + 1}
    BY <1>3 DEF Places
  <2>2. Cardinality(Places(r, z, a, b) \cup {b + 1}) = Cardinality(Places(r, z, a, b)) + 1
    BY <1>1, <1>2, FS_AddElement
  <2> QED
    BY <1>3, <2>1, <2>2
<1>4. CASE Zoned(r, b + 1) # z
  <2>1. Places(r, z, a, b + 1) = Places(r, z, a, b)
    BY <1>4 DEF Places
  <2> QED
    BY <1>2, <1>4, <2>1
<1> QED
  BY <1>3, <1>4

\* The order of the places, as inequalities.
LEMMA Bounds ==
    ASSUME NEW t \in Train, InOrder(t)
    PROVE  /\ Len(route[t]) \in Nat /\ next[t] \in Nat /\ target[t] \in Nat /\ at[t] \in Nat
           /\ lo[t] \in Nat /\ cutoff[t] \in Nat /\ seen[t] \in Nat
           /\ 1 <= lo[t] /\ lo[t] <= at[t] /\ at[t] <= target[t] /\ target[t] <= next[t] - 1
           /\ 2 <= next[t] /\ next[t] <= Len(route[t]) + 1
           /\ lo[t] + 1 <= cutoff[t] /\ cutoff[t] <= target[t] + 1
           /\ lo[t] <= seen[t] /\ seen[t] <= target[t]
<1>1. Len(route[t]) \in Nat
  BY LenProperties DEF InOrder, Way
<1>2. /\ next[t] \in 2 .. Len(route[t]) + 1 /\ target[t] \in 1 .. next[t] - 1
      /\ at[t] \in 1 .. target[t] /\ lo[t] \in 1 .. at[t]
      /\ cutoff[t] \in lo[t] + 1 .. target[t] + 1 /\ seen[t] \in lo[t] .. target[t]
  BY DEF InOrder
<1>3. PICK L \in Nat : L = Len(route[t])
  BY <1>1
<1>4. PICK n \in 2 .. L + 1 : n = next[t]
  BY <1>2, <1>3
<1>5. PICK k \in 1 .. n - 1 : k = target[t]
  BY <1>2, <1>4
<1>6. PICK a \in 1 .. k : a = at[t]
  BY <1>2, <1>5
<1>7. PICK l \in 1 .. a : l = lo[t]
  BY <1>2, <1>6
<1>8. PICK c \in l + 1 .. k + 1 : c = cutoff[t]
  BY <1>2, <1>5, <1>7
<1>9. PICK s \in l .. k : s = seen[t]
  BY <1>2, <1>5, <1>7
<1>10. /\ n \in Nat /\ k \in Nat /\ a \in Nat /\ l \in Nat
       /\ 1 <= l /\ l <= a /\ a <= k /\ k <= n - 1 /\ 2 <= n /\ n <= L + 1
  OBVIOUS
<1>11. /\ c \in Nat /\ s \in Nat
       /\ l + 1 <= c /\ c <= k + 1 /\ l <= s /\ s <= k
  BY <1>10
<1> QED
  BY <1>3, <1>4, <1>5, <1>6, <1>7, <1>8, <1>9, <1>10, <1>11

-----------------------------------------------------------------------------
(* What a request to the zone server changes. *)

\* The zones of trains other than t stay theirs, and no others become theirs.
Foreign(t) ==
    \A u \in Train \ {t} : \A z \in Zone : (reservations'[z] = u) <=> (reservations[z] = u)

\* zone_reserve: the zone is the train's then, unless another train has it.
LEMMA ReserveEffect ==
    ASSUME Typed, NEW t \in Train, NEW z \in Zone, Z!ZoneReserve(t, z)
    PROVE  /\ reservations' \in [Zone -> Train \cup {NoTrain}]
           /\ Foreign(t)
           /\ \A y \in Zone : reservations[y] = t => reservations'[y] = t
           /\ \A y \in Zone : reservations'[y] = t => reservations[y] = t \/ y = z
           /\ ~Z!IsReserved(reservations, t, z) => reservations'[z] = t
           /\ Z!IsReserved(reservations, t, z) => reservations' = reservations
           /\ UNCHANGED answer /\ wait_change' = {}
<1>1. reservations \in [Zone -> Train \cup {NoTrain}] /\ NoTrain \notin Train
  BY PathAssumption DEF Typed
<1>2. /\ reservations' = IF Z!IsReserved(reservations, t, z) THEN reservations
                         ELSE [reservations EXCEPT ![z] = t]
      /\ UNCHANGED answer /\ wait_change' = {}
  BY DEF Z!ZoneReserve
<1>3. CASE Z!IsReserved(reservations, t, z)
  BY <1>1, <1>2, <1>3 DEF Foreign
<1>4. CASE ~Z!IsReserved(reservations, t, z)
  <2>1. reservations' = [reservations EXCEPT ![z] = t]
    BY <1>2, <1>4
  <2>2. reservations[z] \in {NoTrain, t}
    BY <1>4 DEF Z!IsReserved
  <2> QED
    BY <1>1, <1>2, <1>4, <2>1, <2>2 DEF Foreign
<1> QED
  BY <1>3, <1>4

\* The zones of Y that are the train's are free, and the waiting tasks answered.
LEMMA ReleaseEffect ==
    ASSUME Typed, NEW t \in Train, NEW Y \in SUBSET Zone, NEW res, NEW any,
           res = [z \in Zone |-> IF z \in Y /\ reservations[z] = t THEN NoTrain ELSE reservations[z]],
           Z!Released(res, any)
    PROVE  /\ reservations' \in [Zone -> Train \cup {NoTrain}]
           /\ Foreign(t)
           /\ \A z \in Zone : reservations'[z] = t <=> (reservations[z] = t /\ z \notin Y)
           /\ answer' \in [Train -> Z!Answer] /\ wait_change' = {}
<1>1. reservations \in [Zone -> Train \cup {NoTrain}] /\ NoTrain \notin Train
      /\ answer \in [Train -> Z!Answer]
  BY PathAssumption DEF Typed
<1>2. reservations' = res /\ wait_change' = {}
  BY DEF Z!Released
<1>3. answer' \in [Train -> Z!Answer]
  BY <1>1 DEF Z!Released, Z!AnswerTo, Z!Answer
<1> QED
  BY <1>1, <1>2, <1>3 DEF Foreign

\* zone_unreserve: the train has the zone no more.
LEMMA UnreserveEffect ==
    ASSUME Typed, NEW t \in Train, NEW z \in Zone, Z!ZoneUnreserve(t, z)
    PROVE  /\ reservations' \in [Zone -> Train \cup {NoTrain}]
           /\ Foreign(t)
           /\ \A y \in Zone : reservations'[y] = t <=> (reservations[y] = t /\ y # z)
           /\ answer' \in [Train -> Z!Answer] /\ wait_change' = {}
<1> DEFINE res == IF reservations[z] = t THEN [reservations EXCEPT ![z] = NoTrain] ELSE reservations
<1>1. reservations \in [Zone -> Train \cup {NoTrain}]
  BY DEF Typed
<1>2. res = [y \in Zone |-> IF y \in {z} /\ reservations[y] = t THEN NoTrain ELSE reservations[y]]
  BY <1>1
<1>3. Z!Released(res, {z})
  BY DEF Z!ZoneUnreserve
<1> HIDE DEF res
<1>4. /\ reservations' \in [Zone -> Train \cup {NoTrain}]
      /\ Foreign(t)
      /\ \A y \in Zone : reservations'[y] = t <=> (reservations[y] = t /\ y \notin {z})
      /\ answer' \in [Train -> Z!Answer] /\ wait_change' = {}
  <2>1. {z} \in SUBSET Zone
    OBVIOUS
  <2> QED
    BY <1>2, <1>3, <2>1, ReleaseEffect
<1> QED
  BY <1>4

\* zone_unreserve_all_except: the train has no zone but those to keep.
LEMMA UnreserveAllEffect ==
    ASSUME Typed, NEW t \in Train, NEW keep, Z!ZoneUnreserveAll(t, keep)
    PROVE  /\ reservations' \in [Zone -> Train \cup {NoTrain}]
           /\ Foreign(t)
           /\ \A y \in Zone : reservations'[y] = t <=> (reservations[y] = t /\ y \in keep)
           /\ answer' \in [Train -> Z!Answer] /\ wait_change' = {}
<1> DEFINE Y == {z \in Zone : reservations[z] = t} \ keep
           res == [z \in Zone |-> IF z \in Y THEN NoTrain ELSE reservations[z]]
<1>1. res = [z \in Zone |-> IF z \in Y /\ reservations[z] = t THEN NoTrain ELSE reservations[z]]
  OBVIOUS
<1>2. Z!Released(res, Y)
  BY DEF Z!ZoneUnreserveAll
<1>3. Y \in SUBSET Zone
  OBVIOUS
<1>4. \A y \in Zone : y \notin Y <=> (reservations[y] # t \/ y \in keep)
  OBVIOUS
<1> HIDE DEF Y, res
<1>5. /\ reservations' \in [Zone -> Train \cup {NoTrain}]
      /\ Foreign(t)
      /\ \A y \in Zone : reservations'[y] = t <=> (reservations[y] = t /\ y \notin Y)
      /\ answer' \in [Train -> Z!Answer] /\ wait_change' = {}
  BY <1>1, <1>2, <1>3, ReleaseEffect
<1> QED
  BY <1>4, <1>5

-----------------------------------------------------------------------------
(* What the step of one task leaves alone. *)

\* Nothing of train u changes, and its zones do not.
Same(u) ==
    /\ pc'[u] = pc[u] /\ route'[u] = route[u] /\ next'[u] = next[u] /\ target'[u] = target[u]
    /\ deadlocks'[u] = deadlocks[u] /\ lo'[u] = lo[u] /\ cutoff'[u] = cutoff[u]
    /\ seen'[u] = seen[u] /\ src_is_rev'[u] = src_is_rev[u] /\ zone_sem'[u] = zone_sem[u]
    /\ at'[u] = at[u] /\ turned'[u] = turned[u] /\ (u \in slipped' <=> u \in slipped)

\* Where a leg ends depends on the route, its target and where the leg begins.
LEMMA SameStop ==
    ASSUME NEW t \in Train,
           route'[t] = route[t], target'[t] = target[t], lo'[t] = lo[t]
    PROVE  Hi(t)' = Hi(t) /\ Stop(t)' = Stop(t)
<1>1. Hi(t)' = Hi(t)
  BY DEF Hi
<1> QED
  BY <1>1 DEF Stop

OfTrain(t) == InOrder(t) /\ Phased(t) /\ Resting(t) /\ (t \notin slipped => Kept(t))

\* What is said of a train goes on when nothing of it changes.
LEMMA SameKeeps ==
    ASSUME Typed, NEW u \in Train, OfTrain(u), Same(u),
           \A z \in Zone : (reservations'[z] = u) <=> (reservations[z] = u)
    PROVE  OfTrain(u)'
<1>1. Stop(u)' = Stop(u)
  BY SameStop DEF Same
<1>2. InOrder(u)'
  BY DEF OfTrain, Same, InOrder
<1>3. Phased(u)'
  BY <1>1 DEF OfTrain, Same, Phased
<1>4. Resting(u)'
  BY DEF OfTrain, Same, Resting
<1>5. ASSUME u \notin slipped' PROVE Kept(u)'
  <2>1. Kept(u)
    BY <1>5 DEF OfTrain, Same
  <2>2. Low(u)' = Low(u)
    BY DEF Low, Same
  <2>3. \A z \in Zone : CountedFor(u, z)' = CountedFor(u, z)
    BY <2>2 DEF CountedFor, Same
  <2>4. \A i \in Low(u)' .. next'[u] - 1 : reservations'[Zoned(route'[u], i)] = u
    <3>1. \A i \in Low(u) .. next[u] - 1 : reservations[Zoned(route[u], i)] = u
      BY <2>1 DEF Kept
    <3>2. \A i \in Low(u) .. next[u] - 1 : Zoned(route[u], i) \in Zone
      <4>1. InOrder(u) /\ Way(route[u])
        BY DEF OfTrain, InOrder
      <4>2. Low(u) >= 1 /\ Low(u) \in Int /\ next[u] - 1 <= Len(route[u]) /\ next[u] \in Nat
        <5>1. PICK p \in Nat, c \in Nat, n \in Nat, L \in Nat :
                  /\ p = lo[u] /\ c = cutoff[u] /\ n = next[u] /\ L = Len(route[u])
                  /\ 1 <= p /\ p + 1 <= c /\ n <= L + 1
          BY <4>1, Bounds
        <5>2. src_is_rev[u] => p >= 2
          BY <2>1, <5>1 DEF Kept
        <5>3. Low(u) = IF src_is_rev[u] THEN p - 1 ELSE c - 1
          BY <5>1 DEF Low
        <5>4. 1 <= p /\ p + 1 <= c /\ n <= L + 1
          BY <5>1
        <5>5. c - 1 \in Int /\ c - 1 >= 1 /\ n - 1 <= L /\ p - 1 \in Int /\ (p >= 2 => p - 1 >= 1)
          BY <5>4
        <5>6. Low(u) \in Int /\ Low(u) >= 1
          BY <5>2, <5>3, <5>5
        <5> QED
          BY <5>1, <5>5, <5>6
      <4>3. Len(route[u]) \in Nat
        BY <4>1, WayZones
      <4>4. \A i \in Low(u) .. next[u] - 1 : i \in 1 .. Len(route[u])
        BY <4>2, <4>3
      <4> QED
        BY <4>1, <4>4, WayZones
    <3> QED
      BY <2>2, <3>1, <3>2 DEF Same
  <2> QED
    BY <2>1, <2>2, <2>3, <2>4 DEF Kept, Same
<1> QED
  BY <1>2, <1>3, <1>4, <1>5 DEF OfTrain

\* A step of train t that keeps what is said of it keeps the invariant.
LEMMA OwnStep ==
    ASSUME IInv, NEW t \in Train, Typed', Foreign(t), \A u \in Train \ {t} : Same(u), OfTrain(t)'
    PROVE  IInv'
<1>1. Typed /\ \A u \in Train : OfTrain(u)
  BY DEF IInv, OfTrain
<1>2. \A u \in Train \ {t} : OfTrain(u)'
  BY <1>1, SameKeeps DEF Foreign
<1>3. \A u \in Train : OfTrain(u)'
  BY <1>2
<1> QED
  BY <1>3 DEF IInv, OfTrain

-----------------------------------------------------------------------------
(* Steps that only change what a task does next. *)

Doing == {"idle", "plan", "reserve", "drive", "wait", "waiting", "again"}

\* A task that is not driving goes on to another stage, its plan and its train unchanged.
LEMMA QuietStep ==
    ASSUME IInv, NEW t \in Train, NEW p \in Doing, NEW d \in Nat,
           pc[t] # "drive", pc' = [pc EXCEPT ![t] = p], deadlocks' = [deadlocks EXCEPT ![t] = d],
           p \in {"idle", "plan"} => Len(route[t]) = 1,
           p \notin {"idle", "plan"} => pc[t] \notin {"idle", "plan"},
           p \in {"wait", "waiting", "again"} => lo[t] = target[t] /\ next[t] <= Len(route[t]),
           d <= (IF p = "plan" THEN MaxDeadlocks + 1 ELSE MaxDeadlocks),
           answer' \in [Train -> Z!Answer], wait_change' = {},
           UNCHANGED <<reservations, route, next, target, leg, zone_sem, trains>>
    PROVE  IInv'
<1>1. Typed /\ OfTrain(t)
  BY DEF IInv, OfTrain
<1>2. /\ UNCHANGED <<reservations, route, next, target>>
      /\ UNCHANGED <<lo, cutoff, seen, src_is_rev, zone_sem, at, turned, slipped>>
  BY DEF leg, trains
<1>3. pc'[t] = p /\ deadlocks'[t] = d
  BY <1>1 DEF Typed
<1>4. Typed'
  BY <1>1, <1>2 DEF Typed, Doing
<1>5. Foreign(t)
  BY <1>2 DEF Foreign
<1>6. \A u \in Train \ {t} : Same(u)
  BY <1>1, <1>2 DEF Typed, Same
<1>7. InOrder(t)'
  BY <1>1, <1>2 DEF OfTrain, InOrder
<1>8. Phased(t)'
  <2>1. Stop(t)' = Stop(t)
    BY <1>2, SameStop
  <2>2. seen[t] = lo[t] /\ at[t] = lo[t] /\ cutoff[t] = lo[t] + 1 /\ ~src_is_rev[t]
    BY <1>1 DEF OfTrain, Phased
  <2>3. ASSUME lo[t] < target[t]
        PROVE  at[t] <= Stop(t) /\ (lo[t] < Stop(t) /\ seen[t] >= Stop(t) => at[t] = Stop(t))
    <3>1. /\ lo[t] \in Nat
          /\ Hi(t) \in lo[t] + 1 .. target[t] /\ (Stop(t) = Hi(t) \/ Stop(t) = Hi(t) - 1)
      BY <1>1, <2>3, StopProperties DEF OfTrain
    <3> QED
      BY <2>2, <3>1
  <2>4. pc'[t] # "drive" => seen'[t] = lo'[t] /\ at'[t] = lo'[t] /\ cutoff'[t] = lo'[t] + 1
                            /\ ~src_is_rev'[t]
    BY <1>2, <2>2
  <2>5. pc'[t] = "drive" /\ lo'[t] < target'[t] =>
            at'[t] <= Stop(t)' /\ (lo'[t] < Stop(t)' /\ seen'[t] >= Stop(t)' => at'[t] = Stop(t)')
    BY <1>2, <2>1, <2>3
  <2>6. /\ pc'[t] \in {"idle", "plan"} => Len(route'[t]) = 1
        /\ pc'[t] \in {"wait", "waiting", "again"} => lo'[t] = target'[t] /\ next'[t] <= Len(route'[t])
        /\ deadlocks'[t] <= IF pc'[t] = "plan" THEN MaxDeadlocks + 1 ELSE MaxDeadlocks
    BY <1>2, <1>3
  <2> QED
    BY <2>4, <2>5, <2>6 DEF Phased
<1>9. Resting(t)'
  BY <1>1, <1>2 DEF OfTrain, Resting
<1>10. ASSUME t \notin slipped' PROVE Kept(t)'
  <2>1. Kept(t) /\ ~turned[t]
    BY <1>1, <1>2, <1>10 DEF OfTrain, Kept
  <2>2. Low(t)' = Low(t) /\ \A z \in Zone : CountedFor(t, z)' = CountedFor(t, z)
    BY <1>2 DEF Low, CountedFor
  <2> QED
    BY <1>2, <1>3, <2>1, <2>2 DEF Kept
<1> QED
  BY <1>4, <1>5, <1>6, <1>7, <1>8, <1>9, <1>10, OwnStep DEF OfTrain

\* A task starts, gives up, or has nowhere to go.
LEMMA IdleSteps ==
    ASSUME IInv, NEW t \in Train, Start(t) \/ Abort(t) \/ NoPlan(t)
    PROVE  IInv'
<1>1. Typed /\ OfTrain(t)
  BY DEF IInv, OfTrain
<1>2. pc[t] \in {"idle", "plan"} /\ UNCHANGED <<route, next, target, leg, zone_sem, trains>>
      /\ UNCHANGED <<reservations, wait_change, answer>>
  BY DEF Start, Abort, NoPlan, plan, zones
<1>3. /\ pc[t] # "drive" /\ Len(route[t]) = 1 /\ answer' \in [Train -> Z!Answer] /\ wait_change' = {}
      /\ deadlocks[t] \in Nat /\ deadlocks \in [Train -> Nat]
  BY <1>1, <1>2 DEF OfTrain, Phased, Typed
<1>4. CASE Start(t)
  <2>1. /\ pc' = [pc EXCEPT ![t] = "plan"] /\ pc[t] = "idle"
        /\ deadlocks' = deadlocks
    BY <1>4 DEF Start, Goto, plan
  <2>2. deadlocks' = [deadlocks EXCEPT ![t] = deadlocks[t]] /\ deadlocks[t] <= MaxDeadlocks + 1
    BY <1>1, <1>3, <2>1 DEF OfTrain, Phased, MaxDeadlocks
  <2>3. "plan" \in Doing
    BY DEF Doing
  <2> QED
    BY <1>2, <1>3, <2>1, <2>2, <2>3, QuietStep
<1>5. CASE Abort(t) \/ NoPlan(t)
  <2>1. pc' = [pc EXCEPT ![t] = "idle"] /\ deadlocks' = [deadlocks EXCEPT ![t] = 0]
    BY <1>5 DEF Abort, NoPlan, Goto
  <2>2. "idle" \in Doing /\ 0 \in Nat /\ 0 <= MaxDeadlocks
    BY DEF Doing, MaxDeadlocks
  <2> QED
    BY <1>2, <1>3, <2>1, <2>2, QuietStep
<1> QED
  BY <1>4, <1>5

\* The next place of a route that is not reserved to its end is one of its places.
LEMMA WantedZone ==
    ASSUME NEW t \in Train, InOrder(t), next[t] <= Len(route[t])
    PROVE  next[t] \in 1 .. Len(route[t]) /\ Wanted(t) \in Zone /\ Wanted(t) = Zoned(route[t], next[t])
<1>1. next[t] \in 1 .. Len(route[t])
  BY Bounds
<1>2. Zoned(route[t], next[t]) \in Zone
  BY <1>1, WayZones DEF InOrder
<1> QED
  BY <1>1, <1>2 DEF Wanted, Zoned

\* A task has reserved what it can, waits for the next zone, or is told that it is free.
LEMMA WaitSteps ==
    ASSUME IInv, NEW t \in Train, Blocked(t) \/ Depart(t) \/ Wait(t) \/ Freed(t)
    PROVE  IInv'
<1>1. Typed /\ OfTrain(t) /\ InOrder(t)
  BY DEF IInv, OfTrain
<1>2. pc[t] \in {"reserve", "wait", "waiting"} /\ UNCHANGED <<route, next, target, leg, zone_sem, trains>>
      /\ deadlocks' = deadlocks
  BY DEF Blocked, Depart, Wait, Freed, plan
<1>3. /\ pc[t] # "drive" /\ pc[t] \notin {"idle", "plan"}
      /\ deadlocks[t] \in Nat /\ deadlocks' = [deadlocks EXCEPT ![t] = deadlocks[t]]
      /\ deadlocks[t] <= MaxDeadlocks
  BY <1>1, <1>2 DEF OfTrain, Phased, Typed
<1>4. CASE Blocked(t)
  <2>1. next[t] <= Len(route[t]) /\ Z!IsReserved(reservations, t, Wanted(t))
        /\ Z!ZoneReserve(t, Wanted(t)) /\ pc[t] = "reserve"
        /\ pc' = [pc EXCEPT ![t] = IF lo[t] < target[t] THEN "drive" ELSE "wait"]
    BY <1>4 DEF Blocked, Goto
  <2>2. reservations' = reservations /\ answer' = answer /\ wait_change' = {}
    BY <1>1, <2>1, WantedZone, ReserveEffect
  <2>3. answer' \in [Train -> Z!Answer]
    BY <1>1, <2>2 DEF Typed
  <2>4. CASE lo[t] < target[t]
    <3>1. pc' = [pc EXCEPT ![t] = "drive"] /\ "drive" \in Doing
      BY <2>1, <2>4 DEF Doing
    <3> QED
      BY <1>2, <1>3, <2>2, <2>3, <3>1, QuietStep
  <2>5. CASE ~(lo[t] < target[t])
    <3>1. pc' = [pc EXCEPT ![t] = "wait"] /\ "wait" \in Doing
      BY <2>1, <2>5 DEF Doing
    <3>2. lo[t] = target[t]
      <4>1. lo[t] \in Nat /\ target[t] \in Nat /\ lo[t] <= target[t]
        BY <1>1, StopProperties
      <4> QED
        BY <2>5, <4>1
    <3> QED
      BY <1>2, <1>3, <2>1, <2>2, <2>3, <3>1, <3>2, QuietStep
  <2> QED
    BY <2>4, <2>5
<1>5. CASE Depart(t)
  <2>1. pc' = [pc EXCEPT ![t] = "drive"] /\ "drive" \in Doing
        /\ UNCHANGED <<reservations, wait_change, answer>>
    BY <1>5 DEF Depart, Goto, Doing, zones
  <2>2. answer' \in [Train -> Z!Answer] /\ wait_change' = {}
    BY <1>1, <2>1 DEF Typed
  <2> QED
    BY <1>2, <1>3, <2>1, <2>2, QuietStep
<1>6. CASE Wait(t)
  <2>1. pc' = [pc EXCEPT ![t] = "waiting"] /\ "waiting" \in Doing /\ pc[t] = "wait"
        /\ Z!ZoneWait(t, t, Wanted(t))
    BY <1>6 DEF Wait, Goto, Doing
  <2>2. answer' \in [Train -> Z!Answer] /\ wait_change' = {} /\ UNCHANGED reservations
    BY <1>1, <2>1 DEF Typed, Z!ZoneWait, Z!Answer
  <2>3. lo[t] = target[t] /\ next[t] <= Len(route[t])
    BY <1>1, <2>1 DEF OfTrain, Phased
  <2> QED
    BY <1>2, <1>3, <2>1, <2>2, <2>3, QuietStep
<1>7. CASE Freed(t)
  <2>1. pc' = [pc EXCEPT ![t] = "again"] /\ "again" \in Doing /\ pc[t] = "waiting"
        /\ Z!TakeAnswer(t) /\ UNCHANGED <<reservations, wait_change>>
    BY <1>7 DEF Freed, Goto, Doing
  <2>2. answer' \in [Train -> Z!Answer] /\ wait_change' = {}
    BY <1>1, <2>1 DEF Typed, Z!TakeAnswer, Z!Answer
  <2>3. lo[t] = target[t] /\ next[t] <= Len(route[t])
    BY <1>1, <2>1 DEF OfTrain, Phased
  <2> QED
    BY <1>2, <1>3, <2>1, <2>2, <2>3, QuietStep
<1> QED
  BY <1>4, <1>5, <1>6, <1>7

\* One count of one train changes.
LEMMA CountChanged ==
    ASSUME NEW f \in [Train -> [Zone -> Int]], NEW t \in Train, NEW z \in Zone, NEW v \in Int,
           NEW g, g = [f EXCEPT ![t][z] = v]
    PROVE  /\ g \in [Train -> [Zone -> Int]] /\ \A u \in Train \ {t} : g[u] = f[u]
           /\ g[t][z] = v /\ \A y \in Zone \ {z} : g[t][y] = f[t][y]
<1>1. g = [f EXCEPT ![t] = [f[t] EXCEPT ![z] = v]]
  OBVIOUS
<1>2. [f[t] EXCEPT ![z] = v] \in [Zone -> Int]
  OBVIOUS
<1> QED
  BY <1>1, <1>2

-----------------------------------------------------------------------------
(* Steps that change the route. *)

\* A task has a route: its train stands where the route begins.
LEMMA PlanStep ==
    ASSUME IInv, NEW t \in Train, Plan(t)
    PROVE  IInv'
<1>1. Typed /\ OfTrain(t) /\ InOrder(t)
  BY DEF IInv, OfTrain
<1>2. /\ pc[t] = "plan" /\ deadlocks[t] <= MaxDeadlocks /\ pc' = [pc EXCEPT ![t] = "reserve"]
      /\ zone_sem' = [zone_sem EXCEPT ![t] = [z \in Zone |-> IF z = Into(Src(t)) THEN 1 ELSE 0]]
      /\ UNCHANGED <<reservations, zone_requests, wait_change, answer, next, target, deadlocks>>
      /\ UNCHANGED <<lo, cutoff, seen, src_is_rev, at, turned, slipped>>
  BY DEF Plan, Goto, zones, leg, trains
<1>3. PICK way : way \in Choices(t) /\ Len(way) > 1 /\ route' = [route EXCEPT ![t] = way]
  BY DEF Plan
<1>4. Way(way) /\ way[1] = route[t][1]
  <2>1. PICK w \in Ways : w.way = way /\ w.src = Src(t)
    BY <1>3 DEF Choices
  <2> QED
    BY <1>3, <2>1, FoundIsWay DEF Src
<1>5. way \in Seq(Node) /\ Len(way) \in Nat /\ Len(way) > 1 /\ way[1] \in Sensor
  BY <1>3, <1>4, LenProperties DEF Way
<1>6. /\ lo[t] = 1 /\ at[t] = 1 /\ seen[t] = 1 /\ target[t] = 1 /\ next[t] = 2 /\ cutoff[t] = 2
      /\ ~src_is_rev[t]
  <2>1. Len(route[t]) = 1 /\ seen[t] = lo[t] /\ at[t] = lo[t] /\ cutoff[t] = lo[t] + 1 /\ ~src_is_rev[t]
    BY <1>1, <1>2 DEF OfTrain, Phased
  <2>2. /\ next[t] \in Nat /\ target[t] \in Nat /\ lo[t] \in Nat
        /\ 1 <= lo[t] /\ lo[t] <= target[t] /\ target[t] <= next[t] - 1
        /\ 2 <= next[t] /\ next[t] <= Len(route[t]) + 1
    BY <1>1, Bounds, StopProperties
  <2>3. next[t] = 2
    BY <2>1, <2>2
  <2>4. target[t] = 1 /\ lo[t] = 1
    BY <2>2, <2>3
  <2> QED
    BY <2>1, <2>3, <2>4
<1>7. pc'[t] = "reserve" /\ route'[t] = way /\ route' \in [Train -> Seq(Node)]
  BY <1>1, <1>2, <1>3, <1>5 DEF Typed
<1>8. Typed'
  <2>1. [z \in Zone |-> IF z = Into(Src(t)) THEN 1 ELSE 0] \in [Zone -> Int]
    OBVIOUS
  <2>2. zone_sem' \in [Train -> [Zone -> Int]]
    BY <1>1, <1>2, <2>1 DEF Typed
  <2>3. pc' \in [Train -> Doing]
    BY <1>1, <1>2 DEF Typed, Doing
  <2> QED
    BY <1>1, <1>2, <1>7, <2>2, <2>3 DEF Typed, Doing
<1>9. Foreign(t)
  BY <1>2 DEF Foreign
<1>10. \A u \in Train \ {t} : Same(u)
  BY <1>1, <1>2, <1>3 DEF Typed, Same
<1>11. InOrder(t)'
  BY <1>2, <1>4, <1>5, <1>6, <1>7 DEF InOrder
<1>12. Phased(t)'
  BY <1>2, <1>6, <1>7 DEF Phased
<1>13. Zoned(way, 1) = Zoned(route[t], 1) /\ Zoned(way, 1) = Into(Src(t))
  BY <1>4 DEF Zoned, Src
<1>14. Resting(t)'
  <2>1. \A z \in Zone : reservations[z] = t => \E i \in 1 .. 1 : z = Zoned(route[t], i)
    BY <1>1, <1>2, <1>6 DEF OfTrain, Resting
  <2> QED
    BY <1>2, <1>6, <1>7, <1>13, <2>1 DEF Resting
<1>15. ASSUME t \notin slipped' PROVE Kept(t)'
  <2>1. Kept(t) /\ ~turned[t]
    BY <1>1, <1>2, <1>15 DEF OfTrain, Kept
  <2>2. Low(t) = 1 /\ Low(t)' = 1
    BY <1>2, <1>6 DEF Low
  <2>3. reservations[Zoned(route[t], 1)] = t
    BY <1>6, <2>1, <2>2 DEF Kept
  <2>4. \A i \in 1 .. 1 : reservations'[Zoned(way, i)] = t
    BY <1>2, <1>13, <2>3
  <2>5. \A z \in Zone : Cardinality(CountedFor(t, z)') <= zone_sem'[t][z]
    <3> TAKE z \in Zone
    <3>1. CountedFor(t, z)' = Places(way, z, 1, 1)
      BY <1>2, <1>6, <1>7, <2>2 DEF CountedFor
    <3>2. Cardinality(Places(way, z, 1, 1)) = Cardinality(Places(way, z, 1 + 1, 1))
                                                + IF Zoned(way, 1) = z THEN 1 ELSE 0
      BY PlacesFirst
    <3>3. Cardinality(Places(way, z, 1 + 1, 1)) = 0
      <4>1. Places(way, z, 1 + 1, 1) = {}
        BY DEF Places
      <4> QED
        BY <4>1, FS_EmptySet
    <3>4. zone_sem'[t][z] = IF z = Zoned(way, 1) THEN 1 ELSE 0
      BY <1>1, <1>2, <1>13 DEF Typed
    <3> QED
      BY <3>1, <3>2, <3>3, <3>4
  <2> QED
    BY <1>2, <1>6, <1>7, <2>1, <2>2, <2>4, <2>5 DEF Kept
<1> QED
  BY <1>8, <1>9, <1>10, <1>11, <1>12, <1>14, <1>15, OwnStep DEF OfTrain

\* A task takes one more place of the route, with its zone or, if that is gone, without.
LEMMA TakeStep ==
    ASSUME IInv, NEW t \in Train, pc[t] \in {"reserve", "again"}, next[t] <= Len(route[t]),
           Z!ZoneReserve(t, Wanted(t)), Taken(t), pc' = [pc EXCEPT ![t] = "reserve"],
           UNCHANGED <<route, leg, deadlocks, at, turned>>,
           \/ /\ ~Z!IsReserved(reservations, t, Wanted(t)) /\ UNCHANGED slipped
              /\ zone_sem' = [zone_sem EXCEPT ![t][Wanted(t)] = @ + 1]
           \/ slipped' = slipped \cup {t} /\ UNCHANGED zone_sem
    PROVE  IInv'
<1>1. Typed /\ OfTrain(t) /\ InOrder(t) /\ Way(route[t])
  BY DEF IInv, OfTrain, InOrder
<1>2. /\ UNCHANGED <<route, deadlocks, at, turned>> /\ UNCHANGED <<lo, cutoff, seen, src_is_rev>>
      /\ next' = [next EXCEPT ![t] = next[t] + 1]
      /\ target' = IF route[t][next[t]] \in Sensor THEN [target EXCEPT ![t] = next[t]] ELSE target
  BY DEF leg, Taken
<1>3. next[t] \in 1 .. Len(route[t]) /\ Wanted(t) \in Zone /\ Wanted(t) = Zoned(route[t], next[t])
  BY <1>1, WantedZone
<1>4. /\ reservations' \in [Zone -> Train \cup {NoTrain}]
      /\ Foreign(t)
      /\ \A y \in Zone : reservations[y] = t => reservations'[y] = t
      /\ \A y \in Zone : reservations'[y] = t => reservations[y] = t \/ y = Wanted(t)
      /\ ~Z!IsReserved(reservations, t, Wanted(t)) => reservations'[Wanted(t)] = t
      /\ UNCHANGED answer /\ wait_change' = {}
  BY <1>1, <1>3, ReserveEffect
<1>5. /\ seen[t] = lo[t] /\ at[t] = lo[t] /\ cutoff[t] = lo[t] + 1 /\ ~src_is_rev[t]
      /\ deadlocks[t] <= MaxDeadlocks
  BY <1>1 DEF OfTrain, Phased
<1>6. /\ Len(route[t]) \in Nat /\ next[t] \in Nat /\ target[t] \in Nat /\ lo[t] \in Nat
      /\ 1 <= lo[t] /\ lo[t] <= target[t] /\ target[t] <= next[t] - 1 /\ 2 <= next[t]
  BY <1>1, Bounds, StopProperties
<1>7. /\ pc'[t] = "reserve" /\ next'[t] = next[t] + 1 /\ route'[t] = route[t]
      /\ target'[t] = IF route[t][next[t]] \in Sensor THEN next[t] ELSE target[t]
      /\ target'[t] \in Nat
  BY <1>1, <1>2, <1>6 DEF Typed
<1>8. Typed'
  <2>1. next' \in [Train -> Nat] /\ target' \in [Train -> Nat]
    BY <1>1, <1>2, <1>6, SMTT(30) DEF Typed
  <2>2. pc' \in [Train -> Doing]
    BY <1>1 DEF Typed, Doing
  <2>3. zone_sem' \in [Train -> [Zone -> Int]] /\ slipped' \subseteq Train
    <3>1. zone_sem[t][Wanted(t)] + 1 \in Int /\ zone_sem \in [Train -> [Zone -> Int]]
      BY <1>1, <1>3 DEF Typed
    <3>2. CASE zone_sem' = [zone_sem EXCEPT ![t][Wanted(t)] = @ + 1]
      <4>1. zone_sem' \in [Train -> [Zone -> Int]]
        BY <1>3, <3>1, <3>2, CountChanged
      <4> QED
        BY <1>1, <4>1 DEF Typed
    <3>3. CASE UNCHANGED zone_sem
      BY <1>1, <3>3 DEF Typed
    <3> QED
      BY <3>2, <3>3
  <2> QED
    BY <1>1, <1>2, <1>4, <2>1, <2>2, <2>3 DEF Typed, Doing
<1>9. \A u \in Train \ {t} : Same(u)
  <2> TAKE u \in Train \ {t}
  <2>1. zone_sem'[u] = zone_sem[u] /\ (u \in slipped' <=> u \in slipped)
    BY <1>1 DEF Typed
  <2>2. target'[u] = target[u] /\ next'[u] = next[u] /\ pc'[u] = pc[u]
    BY <1>1, <1>2 DEF Typed
  <2> QED
    BY <1>2, <2>1, <2>2 DEF Same
<1>10. InOrder(t)'
  <2>1. next'[t] \in 2 .. Len(route'[t]) + 1 /\ target'[t] \in 1 .. next'[t] - 1
    BY <1>3, <1>6, <1>7, SMTT(30)
  <2>2. lo[t] <= target'[t]
    BY <1>6, <1>7
  <2>3. /\ at'[t] \in 1 .. target'[t] /\ lo'[t] \in 1 .. at'[t]
        /\ cutoff'[t] \in lo'[t] + 1 .. target'[t] + 1 /\ seen'[t] \in lo'[t] .. target'[t]
    BY <1>2, <1>5, <1>6, <1>7, <2>2
  <2>4. route'[t][target'[t]] \in Sensor /\ route'[t][at'[t]] \in Sensor
    BY <1>1, <1>2, <1>7 DEF InOrder
  <2>5. ASSUME NEW i \in target'[t] + 1 .. next'[t] - 1 PROVE route[t][i] \notin Sensor
    <3>1. i <= next[t] /\ i \in Int
      BY <1>6, <1>7
    <3>2. CASE route[t][next[t]] \in Sensor
      BY <1>6, <1>7, <3>1, <3>2
    <3>3. CASE route[t][next[t]] \notin Sensor /\ i # next[t]
      <4>1. i \in target[t] + 1 .. next[t] - 1
        BY <1>6, <1>7, <3>1, <3>3
      <4> QED
        BY <1>1, <4>1 DEF InOrder
    <3> QED
      BY <3>2, <3>3
  <2> QED
    BY <1>1, <1>7, <2>1, <2>3, <2>4, <2>5 DEF InOrder
<1>11. Phased(t)'
  BY <1>2, <1>5, <1>7 DEF Phased
<1>12. Resting(t)'
  <2> SUFFICES ASSUME NEW z \in Zone, reservations'[z] = t
               PROVE  \E i \in lo[t] .. next[t] : z = Zoned(route[t], i)
    BY <1>2, <1>6, <1>7 DEF Resting
  <2>1. CASE reservations[z] = t
    <3>1. PICK i \in lo[t] .. next[t] - 1 : z = Zoned(route[t], i)
      BY <1>1, <2>1 DEF OfTrain, Resting
    <3>2. i \in lo[t] .. next[t]
      BY <1>6
    <3> QED
      BY <3>1, <3>2
  <2>2. CASE z = Wanted(t)
    <3>1. next[t] \in lo[t] .. next[t]
      BY <1>6
    <3> QED
      BY <1>3, <2>2, <3>1
  <2> QED
    BY <1>4, <2>1, <2>2
<1>13. ASSUME t \notin slipped' PROVE Kept(t)'
  <2>1. /\ ~Z!IsReserved(reservations, t, Wanted(t)) /\ t \notin slipped
        /\ zone_sem' = [zone_sem EXCEPT ![t][Wanted(t)] = @ + 1]
    BY <1>13
  <2>2. Kept(t) /\ ~turned[t]
    BY <1>1, <2>1 DEF OfTrain, Kept
  <2>3. Low(t) = lo[t] /\ Low(t)' = lo[t]
    BY <1>2, <1>5, <1>6 DEF Low
  <2>4. ASSUME NEW i \in lo[t] .. next[t] PROVE reservations'[Zoned(route[t], i)] = t
    <3>1. CASE i = next[t]
      BY <1>3, <1>4, <2>1, <3>1
    <3>2. CASE i # next[t]
      <4>1. i \in lo[t] .. next[t] - 1 /\ i \in 1 .. Len(route[t])
        BY <1>3, <1>6, <3>2
      <4>2. Zoned(route[t], i) \in Zone
        BY <1>1, <4>1, WayZones
      <4> QED
        BY <1>4, <2>2, <2>3, <4>1, <4>2 DEF Kept
    <3> QED
      BY <3>1, <3>2
  <2>5. ASSUME NEW z \in Zone PROVE Cardinality(CountedFor(t, z)') <= zone_sem'[t][z]
    <3>1. CountedFor(t, z)' = Places(route[t], z, lo[t], next[t])
      <4>1. next'[t] - 1 = next[t]
        BY <1>6, <1>7
      <4> QED
        BY <1>7, <2>3, <4>1 DEF CountedFor
    <3>2. Cardinality(Places(route[t], z, lo[t], next[t] - 1)) <= zone_sem[t][z]
      BY <2>2, <2>3 DEF Kept, CountedFor
    <3>3. PICK b \in Int : b = next[t] - 1
      BY <1>6
    <3>4. lo[t] <= b + 1 /\ b + 1 = next[t]
      BY <1>6, <3>3
    <3>5. PICK l \in Int : l = lo[t] /\ l <= b + 1
      BY <1>6, <3>4
    <3>6. /\ Cardinality(Places(route[t], z, l, b + 1)) = Cardinality(Places(route[t], z, l, b))
                + IF Zoned(route[t], b + 1) = z THEN 1 ELSE 0
          /\ Cardinality(Places(route[t], z, l, b)) \in Nat
      BY <3>5, PlacesLast, PlacesFinite
    <3>7. zone_sem'[t][z] = zone_sem[t][z] + (IF z = Wanted(t) THEN 1 ELSE 0) /\ zone_sem[t][z] \in Int
      <4>1. zone_sem[t][Wanted(t)] + 1 \in Int /\ zone_sem \in [Train -> [Zone -> Int]]
        BY <1>1, <1>3 DEF Typed
      <4>2. /\ zone_sem'[t][Wanted(t)] = zone_sem[t][Wanted(t)] + 1
            /\ \A y \in Zone \ {Wanted(t)} : zone_sem'[t][y] = zone_sem[t][y]
        BY <1>3, <2>1, <4>1, CountChanged
      <4>3. zone_sem[t][z] \in Int
        BY <4>1
      <4> QED
        BY <4>2, <4>3
    <3> QED
      BY <1>3, <3>1, <3>2, <3>3, <3>4, <3>5, <3>6, <3>7
  <2>6. next'[t] - 1 = next[t]
    BY <1>6, <1>7
  <2> QED
    BY <1>2, <1>5, <1>7, <2>2, <2>3, <2>4, <2>5, <2>6 DEF Kept
<1> QED
  BY <1>4, <1>8, <1>9, <1>10, <1>11, <1>12, <1>13, OwnStep DEF OfTrain

\* A task has its next zone, at once or after a wait, or goes on without it.
LEMMA TakeSteps ==
    ASSUME IInv, NEW t \in Train, Reserve(t) \/ Again(t)
    PROVE  IInv'
<1>1. Typed /\ OfTrain(t)
  BY DEF IInv, OfTrain
<1>2. CASE Reserve(t)
  <2>1. /\ pc[t] = "reserve" /\ next[t] <= Len(route[t]) /\ Z!ZoneReserve(t, Wanted(t))
        /\ ~Z!IsReserved(reservations, t, Wanted(t))
        /\ zone_sem' = [zone_sem EXCEPT ![t][Wanted(t)] = @ + 1] /\ Taken(t)
        /\ UNCHANGED <<pc, route, leg, deadlocks, trains>>
    BY <1>2 DEF Reserve, Counted
  <2>2. pc' = [pc EXCEPT ![t] = "reserve"]
    BY <1>1, <2>1 DEF Typed
  <2>3. UNCHANGED <<route, leg, deadlocks, at, turned>> /\ UNCHANGED slipped
    BY <2>1 DEF trains
  <2> QED
    BY <2>1, <2>2, <2>3, TakeStep
<1>3. CASE Again(t)
  <2>1. /\ pc[t] = "again" /\ Z!ZoneReserve(t, Wanted(t)) /\ pc' = [pc EXCEPT ![t] = "reserve"]
        /\ UNCHANGED <<route, leg, deadlocks, at, turned>> /\ Taken(t)
    BY <1>3 DEF Again, Goto, Counted
  <2>2. next[t] <= Len(route[t])
    BY <1>1, <2>1 DEF OfTrain, Phased
  <2>3. \/ /\ ~Z!IsReserved(reservations, t, Wanted(t)) /\ UNCHANGED slipped
           /\ zone_sem' = [zone_sem EXCEPT ![t][Wanted(t)] = @ + 1]
        \/ slipped' = slipped \cup {t} /\ UNCHANGED zone_sem
    BY <1>3 DEF Again, Counted
  <2> QED
    BY <2>1, <2>2, <2>3, TakeStep
<1> QED
  BY <1>2, <1>3

\* A place alone is a way.
LEMMA PlaceIsWay ==
    ASSUME NEW n \in Sensor
    PROVE  Way(<<n>>) /\ <<n>> \in Seq(Node) /\ Len(<<n>>) = 1 /\ <<n>>[1] = n
<1>1. n \in Node
  BY TrackAssumption
<1>2. <<n>> \in Seq(Node) /\ Len(<<n>>) = 1 /\ <<n>>[1] = n
  BY <1>1
<1>3. \A i, j \in 1 .. Len(<<n>>) : <<n>>[i] = <<n>>[j] => i = j
  BY <1>2
<1>4. \A i \in 2 .. Len(<<n>>) : FALSE
  BY <1>2
<1> QED
  BY <1>2, <1>3, <1>4 DEF Way

\* A task has no route any more: it keeps the zone its train stands in.
LEMMA ForgetStep ==
    ASSUME IInv, NEW t \in Train, NEW p \in {"idle", "plan"}, NEW d \in Nat, Forget(t),
           pc' = [pc EXCEPT ![t] = p], deadlocks' = [deadlocks EXCEPT ![t] = d],
           d <= (IF p = "plan" THEN MaxDeadlocks + 1 ELSE MaxDeadlocks),
           reservations' \in [Zone -> Train \cup {NoTrain}], Foreign(t),
           answer' \in [Train -> Z!Answer], wait_change' = {},
           turned' = turned, slipped' = slipped \/ slipped' = slipped \cup {t},
           \A z \in Zone : reservations'[z] = t => z = Zoned(route[t], at[t]),
           t \notin slipped' => ~turned[t] /\ reservations'[Zoned(route[t], at[t])] = t
    PROVE  IInv'
<1>1. Typed /\ OfTrain(t) /\ InOrder(t)
  BY DEF IInv, OfTrain
<1>2. route[t][at[t]] \in Sensor /\ at[t] \in 1 .. Len(route[t]) /\ Way(route[t])
  <2>1. /\ at[t] \in Nat /\ Len(route[t]) \in Nat /\ target[t] \in Nat /\ lo[t] \in Nat
        /\ 1 <= lo[t] /\ lo[t] <= at[t] /\ at[t] <= target[t] /\ target[t] <= Len(route[t])
    BY <1>1, Bounds, StopProperties
  <2>2. at[t] \in 1 .. Len(route[t])
    BY <2>1
  <2> QED
    BY <1>1, <2>2 DEF InOrder
<1> DEFINE r == <<route[t][at[t]]>>
<1>3. Way(r) /\ r \in Seq(Node) /\ Len(r) = 1 /\ r[1] \in Sensor /\ Zoned(r, 1) = Zoned(route[t], at[t])
  BY <1>2, PlaceIsWay, WayZones
<1>4. /\ route' = [route EXCEPT ![t] = r]
      /\ next' = [next EXCEPT ![t] = 2] /\ target' = [target EXCEPT ![t] = 1]
      /\ at' = [at EXCEPT ![t] = 1] /\ lo' = [lo EXCEPT ![t] = 1]
      /\ cutoff' = [cutoff EXCEPT ![t] = 2] /\ seen' = [seen EXCEPT ![t] = 1]
      /\ src_is_rev' = [src_is_rev EXCEPT ![t] = FALSE]
      /\ zone_sem' = [zone_sem EXCEPT ![t] = [z \in Zone |-> 0]]
  BY DEF Forget
<1> HIDE DEF r
<1>5. /\ pc'[t] = p /\ deadlocks'[t] = d /\ route'[t] = r /\ next'[t] = 2 /\ target'[t] = 1
      /\ at'[t] = 1 /\ lo'[t] = 1 /\ cutoff'[t] = 2 /\ seen'[t] = 1 /\ ~src_is_rev'[t]
  BY <1>1, <1>4 DEF Typed
<1>6. Typed'
  <2>1. [z \in Zone |-> 0] \in [Zone -> Int]
    OBVIOUS
  <2>2. pc' \in [Train -> Doing] /\ slipped' \subseteq Train /\ turned' \in [Train -> BOOLEAN]
    BY <1>1 DEF Typed, Doing
  <2>3. /\ route' \in [Train -> Seq(Node)] /\ zone_sem' \in [Train -> [Zone -> Int]]
        /\ src_is_rev' \in [Train -> BOOLEAN]
    BY <1>1, <1>3, <1>4, <2>1 DEF Typed
  <2>4. /\ next' \in [Train -> Nat] /\ target' \in [Train -> Nat] /\ deadlocks' \in [Train -> Nat]
        /\ lo' \in [Train -> Nat] /\ cutoff' \in [Train -> Nat] /\ seen' \in [Train -> Nat]
        /\ at' \in [Train -> Nat]
    BY <1>1, <1>4 DEF Typed
  <2> QED
    BY <2>2, <2>3, <2>4 DEF Typed, Doing
<1>7. \A u \in Train \ {t} : Same(u)
  BY <1>1, <1>4 DEF Typed, Same
<1>8. InOrder(t)'
  <2>1. \A i \in target'[t] + 1 .. next'[t] - 1 : FALSE
    BY <1>5
  <2>2. Way(route'[t]) /\ route'[t][target'[t]] \in Sensor /\ route'[t][at'[t]] \in Sensor
    BY <1>3, <1>5
  <2>3. next'[t] \in 2 .. Len(route'[t]) + 1 /\ target'[t] \in 1 .. next'[t] - 1
    <3>1. 2 \in 2 .. 1 + 1 /\ 1 \in 1 .. 2 - 1
      OBVIOUS
    <3>2. Len(route'[t]) = 1
      BY <1>3, <1>5
    <3> QED
      BY <1>5, <3>1, <3>2
  <2>4. /\ at'[t] \in 1 .. target'[t] /\ lo'[t] \in 1 .. at'[t]
        /\ cutoff'[t] \in lo'[t] + 1 .. target'[t] + 1 /\ seen'[t] \in lo'[t] .. target'[t]
    BY <1>5
  <2> QED
    BY <2>1, <2>2, <2>3, <2>4 DEF InOrder
<1>9. Phased(t)'
  BY <1>3, <1>5 DEF Phased
<1>10. Resting(t)'
  <2>1. 1 \in lo'[t] .. next'[t] - 1
    BY <1>5
  <2> QED
    BY <1>3, <1>5, <2>1 DEF Resting
<1>11. ASSUME t \notin slipped' PROVE Kept(t)'
  <2>1. Low(t)' = 1
    BY <1>5 DEF Low
  <2>2. \A i \in Low(t)' .. next'[t] - 1 : i = 1
    BY <1>5, <2>1
  <2> QED
    BY <1>3, <1>5, <1>11, <2>2 DEF Kept
<1> QED
  BY <1>6, <1>7, <1>8, <1>9, <1>10, <1>11, OwnStep DEF OfTrain

\* From the last sensor reserved on, the places reserved are in one zone.
LEMMA OneZone ==
    ASSUME NEW t \in Train, InOrder(t)
    PROVE  \A i \in target[t] .. next[t] - 1 : Zoned(route[t], i) = Zoned(route[t], target[t])
<1> DEFINE B == {i \in target[t] .. next[t] - 1 : Zoned(route[t], i) # Zoned(route[t], target[t])}
<1>1. /\ target[t] \in Nat /\ next[t] \in Nat /\ Len(route[t]) \in Nat /\ 1 <= target[t]
      /\ next[t] <= Len(route[t]) + 1
  <2>1. 1 <= target[t]
    BY StopProperties
  <2> QED
    BY <2>1, Bounds
<1>2. SUFFICES ASSUME B # {} PROVE FALSE
  OBVIOUS
<1>3. B \in SUBSET Nat
  BY <1>1
<1>4. First(B) \in B /\ \A j \in B : First(B) <= j
  <2> HIDE DEF B
  <2> QED
    BY <1>2, <1>3, FirstProperties
<1>5. PICK i \in B : \A j \in B : i <= j
  BY <1>4
<1>6. i \in target[t] .. next[t] - 1 /\ Zoned(route[t], i) # Zoned(route[t], target[t])
  OBVIOUS
<1>7. i # target[t]
  BY <1>6
<1>8. /\ i \in target[t] + 1 .. next[t] - 1 /\ i \in 2 .. Len(route[t])
      /\ i - 1 \in target[t] .. next[t] - 1 /\ ~(i <= i - 1)
  <2>1. PICK l \in Nat, n \in Nat, L \in Nat : l = target[t] /\ n = next[t] /\ L = Len(route[t])
    BY <1>1
  <2>2. i \in l .. n - 1 /\ i # l /\ 1 <= l /\ n <= L + 1
    BY <1>1, <1>6, <1>7, <2>1
  <2>3. i \in l + 1 .. n - 1 /\ i \in 2 .. L /\ i - 1 \in l .. n - 1 /\ ~(i <= i - 1)
    BY <2>2
  <2> QED
    BY <2>1, <2>3
<1>9. Zoned(route[t], i - 1) = Zoned(route[t], target[t])
  <2>1. i - 1 \notin B
    BY <1>5, <1>8
  <2> QED
    BY <1>8, <2>1
<1>10. route[t][i] \notin Sensor
  BY <1>8 DEF InOrder
<1>11. Zoned(route[t], i) = Zoned(route[t], i - 1)
  BY <1>8, <1>10, WayZones DEF InOrder
<1> QED
  BY <1>6, <1>9, <1>11

\* After a wait that timed out a task plans again from where its train stands.
LEMMA TimedOutStep ==
    ASSUME IInv, NEW t \in Train, TimedOut(t)
    PROVE  IInv'
<1>1. Typed /\ OfTrain(t) /\ InOrder(t)
  BY DEF IInv, OfTrain
<1>2. /\ pc[t] = "waiting" /\ Z!TakeAnswer(t) /\ pc' = [pc EXCEPT ![t] = "plan"] /\ Forget(t)
      /\ deadlocks' = [deadlocks EXCEPT ![t] = deadlocks[t] + 1]
      /\ UNCHANGED <<reservations, zone_requests, wait_change, turned, slipped>>
  BY DEF TimedOut, Goto
<1>3. deadlocks[t] + 1 \in Nat /\ deadlocks[t] + 1 <= MaxDeadlocks + 1
  BY <1>1, <1>2 DEF Typed, OfTrain, Phased, MaxDeadlocks
<1>4. answer' \in [Train -> Z!Answer] /\ wait_change' = {} /\ Foreign(t)
      /\ reservations' \in [Zone -> Train \cup {NoTrain}]
  BY <1>1, <1>2 DEF Typed, Z!TakeAnswer, Z!Answer, Foreign
<1>5. lo[t] = target[t] /\ at[t] = lo[t] /\ ~src_is_rev[t] /\ cutoff[t] = lo[t] + 1
  BY <1>1, <1>2 DEF OfTrain, Phased
<1>6. \A z \in Zone : reservations[z] = t => z = Zoned(route[t], at[t])
  BY <1>1, <1>2, <1>5, OneZone DEF OfTrain, Resting
<1>7. ASSUME t \notin slipped PROVE ~turned[t] /\ reservations[Zoned(route[t], at[t])] = t
  <2>1. Kept(t)
    BY <1>1, <1>7 DEF OfTrain
  <2>2. Low(t) = lo[t] /\ at[t] \in lo[t] .. next[t] - 1
    <3>1. lo[t] \in Nat /\ next[t] \in Nat /\ target[t] <= next[t] - 1
      BY <1>1, Bounds
    <3> QED
      BY <1>5, <3>1 DEF Low
  <2> QED
    BY <1>2, <2>1, <2>2 DEF Kept
<1>8. "plan" \in {"idle", "plan"} /\ turned' = turned /\ slipped' = slipped /\ reservations' = reservations
  BY <1>2
<1> QED
  BY <1>2, <1>3, <1>4, <1>6, <1>7, <1>8, ForgetStep

-----------------------------------------------------------------------------
(* Driving. *)

\* The train passes the next sensor of its leg, or the one it has turned at.
LEMMA MoveStep ==
    ASSUME IInv, NEW t \in Train, Move(t)
    PROVE  IInv'
<1>1. Typed /\ OfTrain(t) /\ InOrder(t) /\ Phased(t)
  BY DEF IInv, OfTrain
<1>2. /\ pc[t] = "drive" /\ at[t] < Stop(t)
      /\ UNCHANGED <<reservations, zone_requests, wait_change, answer, pc>>
      /\ UNCHANGED <<route, next, target, deadlocks, lo, cutoff, seen, src_is_rev, zone_sem, slipped>>
  BY DEF Move, zones, plan, leg
<1>3. /\ lo[t] \in Nat /\ target[t] \in Nat /\ at[t] \in Nat /\ Len(route[t]) \in Nat
      /\ lo[t] <= at[t] /\ at[t] <= target[t] /\ 1 <= lo[t]
      /\ lo[t] <= target[t] /\ target[t] <= Len(route[t])
  BY <1>1, Bounds, StopProperties
<1>4. lo[t] < target[t]
  <2> SUFFICES ASSUME lo[t] = target[t] PROVE FALSE
    BY <1>3
  <2>1. Hi(t) = target[t] /\ at[t] = target[t]
    BY <1>1, <1>3, StopProperties
  <2>2. Stop(t) <= target[t]
    BY <1>3, <2>1 DEF Stop
  <2> QED
    BY <1>2, <1>3, <2>1, <2>2 DEF Stop
<1>5. /\ Stop(t) \in Nat /\ Stop(t) <= target[t] /\ route[t][Stop(t)] \in Sensor
  <2>1. /\ Hi(t) \in lo[t] + 1 .. target[t] /\ (Stop(t) = Hi(t) \/ Stop(t) = Hi(t) - 1)
        /\ route[t][Stop(t)] \in Sensor
    BY <1>1, <1>4, StopProperties
  <2> QED
    BY <1>3, <2>1
<1>6. PICK a \in Nat : /\ at'[t] = a /\ at[t] <= a /\ a <= Stop(t) /\ route[t][a] \in Sensor
                       /\ at' \in [Train -> Nat] /\ turned' \in [Train -> BOOLEAN]
                       /\ (turned'[t] => turned[t] /\ a = at[t])
                       /\ \A u \in Train \ {t} : at'[u] = at[u] /\ turned'[u] = turned[u]
  <2>1. CASE turned[t]
    <3>1. turned' = [turned EXCEPT ![t] = FALSE] /\ UNCHANGED at
      BY <2>1 DEF Move
    <3>2. route[t][at[t]] \in Sensor
      BY <1>1 DEF InOrder
    <3>3. at'[t] = at[t] /\ at[t] <= at[t] /\ at[t] <= Stop(t)
      BY <1>2, <1>3, <1>5, <3>1
    <3>4. /\ at' \in [Train -> Nat] /\ turned' \in [Train -> BOOLEAN] /\ ~turned'[t]
          /\ \A u \in Train \ {t} : at'[u] = at[u] /\ turned'[u] = turned[u]
      BY <1>1, <3>1 DEF Typed
    <3> QED
      BY <1>3, <3>2, <3>3, <3>4
  <2>2. CASE ~turned[t]
    <3> DEFINE S == {i \in at[t] + 1 .. Stop(t) : route[t][i] \in Sensor}
    <3>1. at' = [at EXCEPT ![t] = First(S)] /\ UNCHANGED turned
      BY <2>2 DEF Move
    <3>2. S \in SUBSET Nat /\ Stop(t) \in S
      BY <1>2, <1>3, <1>5
    <3>3. First(S) \in S
      <4> HIDE DEF S
      <4> QED
        BY <3>2, FirstProperties
    <3>4. First(S) \in Nat /\ at[t] <= First(S) /\ First(S) <= Stop(t) /\ route[t][First(S)] \in Sensor
      BY <1>3, <1>5, <3>3
    <3> HIDE DEF S
    <3> QED
      BY <1>1, <2>2, <3>1, <3>4 DEF Typed
  <2> QED
    BY <2>1, <2>2
<1>7. Typed'
  BY <1>1, <1>2, <1>6 DEF Typed
<1>8. Foreign(t)
  BY <1>2 DEF Foreign
<1>9. \A u \in Train \ {t} : Same(u)
  BY <1>2, <1>6 DEF Same
<1>10. InOrder(t)'
  <2>1. a \in 1 .. target[t] /\ lo[t] \in 1 .. a
    BY <1>3, <1>5, <1>6
  <2> QED
    BY <1>1, <1>2, <1>6, <2>1 DEF InOrder
<1>11. Phased(t)'
  <2>1. Stop(t)' = Stop(t)
    BY <1>2, SameStop
  <2>2. lo[t] < Stop(t) /\ seen[t] >= Stop(t) => a = Stop(t)
    BY <1>1, <1>2, <1>3, <1>4, <1>5, <1>6 DEF Phased
  <2> QED
    BY <1>1, <1>2, <1>6, <2>1, <2>2 DEF Phased
<1>12. Resting(t)'
  BY <1>2 DEF Resting
<1>13. ASSUME t \notin slipped' PROVE Kept(t)'
  <2>1. Kept(t)
    BY <1>1, <1>2, <1>13 DEF OfTrain
  <2>2. Low(t)' = Low(t) /\ \A z \in Zone : CountedFor(t, z)' = CountedFor(t, z)
    BY <1>2 DEF Low, CountedFor
  <2>3. seen[t] <= a
    <3>1. seen[t] \in Nat
      BY <1>1, Bounds
    <3> QED
      BY <1>3, <1>6, <2>1, <3>1 DEF Kept
  <2> QED
    BY <1>2, <1>6, <2>1, <2>2, <2>3 DEF Kept
<1> QED
  BY <1>7, <1>8, <1>9, <1>10, <1>11, <1>12, <1>13, OwnStep DEF OfTrain

\* A leg ends between where it begins and the target, its train at most one place earlier.
LEMMA LegBounds ==
    ASSUME NEW t \in Train, InOrder(t)
    PROVE  /\ Hi(t) \in Nat /\ Stop(t) \in Nat /\ Hi(t) <= target[t] /\ lo[t] <= Hi(t)
           /\ Stop(t) <= Hi(t) /\ Hi(t) <= Stop(t) + 1
           /\ lo[t] < Hi(t) => lo[t] < target[t] /\ lo[t] <= Stop(t)
           /\ lo[t] < target[t] => lo[t] < Hi(t)
           /\ at[t] <= Len(route[t]) /\ Hi(t) <= Len(route[t])
<1>1. /\ lo[t] \in Nat /\ target[t] \in Nat /\ lo[t] >= 1 /\ lo[t] <= target[t]
      /\ at[t] \in Nat /\ at[t] <= target[t] /\ target[t] <= Len(route[t]) /\ Len(route[t]) \in Nat
  BY StopProperties, Bounds
<1>2. at[t] <= Len(route[t])
  BY <1>1
<1>3. Stop(t) = Hi(t) \/ Stop(t) = Hi(t) - 1
  BY DEF Stop
<1>4. CASE lo[t] = target[t]
  <2>1. Hi(t) = target[t]
    BY <1>4, StopProperties
  <2> QED
    BY <1>1, <1>3, <1>4, <2>1
<1>5. CASE lo[t] < target[t]
  <2>1. Hi(t) \in lo[t] + 1 .. target[t]
    BY <1>5, StopProperties
  <2>2. Hi(t) \in Nat /\ lo[t] < Hi(t) /\ lo[t] <= Hi(t) /\ Hi(t) <= target[t]
    BY <1>1, <2>1
  <2>3. Hi(t) <= Len(route[t])
    BY <1>1, <2>2
  <2>4. Stop(t) \in Nat /\ lo[t] <= Stop(t) /\ Stop(t) <= Hi(t) /\ Hi(t) <= Stop(t) + 1
    BY <1>1, <1>3, <2>2
  <2> QED
    BY <1>2, <1>5, <2>2, <2>3, <2>4
<1> QED
  BY <1>1, <1>4, <1>5

\* A sensor is taken for a place of the leg: the place up to which zones are to be counted
\* down changes, and the train has slipped when it has not been there.
LEMMA SeenStep ==
    ASSUME IInv, NEW t \in Train, NEW s \in Nat, pc[t] = "drive",
           lo[t] <= s, s <= target[t], t \notin slipped => cutoff[t] <= s + 1,
           s >= Stop(t) => at[t] = Stop(t),
           seen' = [seen EXCEPT ![t] = s],
           slipped' = IF s > at[t] THEN slipped \cup {t} ELSE slipped,
           UNCHANGED <<zones, pc, plan, lo, cutoff, src_is_rev, zone_sem, at, turned>>
    PROVE  IInv'
<1>1. Typed /\ OfTrain(t) /\ InOrder(t) /\ Phased(t)
  BY DEF IInv, OfTrain
<1>2. /\ UNCHANGED <<reservations, zone_requests, wait_change, answer, pc>>
      /\ UNCHANGED <<route, next, target, deadlocks, lo, cutoff, src_is_rev, zone_sem, at, turned>>
  BY DEF zones, plan
<1>3. seen'[t] = s
  BY <1>1 DEF Typed
<1>4. Typed'
  <2>1. seen' \in [Train -> Nat] /\ slipped' \subseteq Train
    BY <1>1 DEF Typed
  <2> QED
    BY <1>1, <1>2, <2>1 DEF Typed
<1>5. Foreign(t)
  BY <1>2 DEF Foreign
<1>6. \A u \in Train \ {t} : Same(u)
  BY <1>1, <1>2 DEF Typed, Same
<1>7. InOrder(t)'
  <2>1. s \in lo[t] .. target[t]
    <3>1. lo[t] \in Nat /\ target[t] \in Nat
      BY <1>1, Bounds
    <3> QED
      BY <3>1
  <2> QED
    BY <1>1, <1>2, <1>3, <2>1 DEF InOrder
<1>8. Phased(t)'
  <2>1. Stop(t)' = Stop(t)
    BY <1>2, SameStop
  <2> QED
    BY <1>1, <1>2, <1>3, <2>1 DEF Phased
<1>9. Resting(t)'
  BY <1>2 DEF Resting
<1>10. ASSUME t \notin slipped' PROVE Kept(t)'
  <2>1. Kept(t) /\ ~(s > at[t]) /\ cutoff[t] <= s + 1
    BY <1>1, <1>10 DEF OfTrain
  <2>2. s <= at[t]
    <3>1. at[t] \in Nat
      BY <1>1, Bounds
    <3> QED
      BY <2>1, <3>1
  <2>3. Low(t)' = Low(t) /\ \A z \in Zone : CountedFor(t, z)' = CountedFor(t, z)
    BY <1>2 DEF Low, CountedFor
  <2> QED
    BY <1>2, <1>3, <2>1, <2>2, <2>3 DEF Kept
<1> QED
  BY <1>4, <1>5, <1>6, <1>7, <1>8, <1>9, <1>10, OwnStep DEF OfTrain

\* The sensor a report of which is taken for the place where the train is to stop is the
\* one there, and its own train has passed it.
LEMMA ReportedAtStop ==
    ASSUME IInv, NEW t \in Train, pc[t] = "drive", lo[t] < Stop(t), NEW n \in Reported(t),
           NEW p \in cutoff[t] .. Hi(t), Num[route[t][p]] = Num[n], p >= Stop(t)
    PROVE  at[t] = Stop(t)
<1>1. \A u \in Train : InOrder(u) /\ Phased(u)
  BY DEF IInv
<1>2. /\ lo[t] \in Nat /\ at[t] \in Nat /\ target[t] \in Nat /\ Len(route[t]) \in Nat
      /\ cutoff[t] \in Nat /\ lo[t] + 1 <= cutoff[t] /\ at[t] <= target[t]
      /\ 1 <= lo[t] /\ at[t] <= Len(route[t]) /\ Hi(t) <= Len(route[t])
      /\ Hi(t) \in Nat /\ Stop(t) \in Nat /\ Hi(t) <= target[t]
      /\ Stop(t) <= Hi(t) /\ Hi(t) <= Stop(t) + 1
  BY <1>1, Bounds, LegBounds, StopProperties
<1>3. lo[t] < Hi(t)
  BY <1>2
<1>4. lo[t] < target[t]
  BY <1>1, <1>3, LegBounds
<1>5. at[t] <= Stop(t)
  BY <1>1, <1>4 DEF Phased
<1>6. /\ route[t][Stop(t)] \in Sensor
      /\ Turns(route[t], Hi(t)) => /\ Stop(t) = Hi(t) - 1
                                   /\ route[t][Hi(t)] = Reverse[route[t][Stop(t)]]
      /\ ~Turns(route[t], Hi(t)) => Stop(t) = Hi(t)
  BY <1>1, <1>4, StopProperties
<1>7. route[t][p] \in Sensor /\ route[t][p] \in {route[t][Stop(t)], Reverse[route[t][Stop(t)]]}
  <2>1. CASE Turns(route[t], Hi(t))
    <3>1. p = Stop(t) \/ p = Hi(t)
      <4>1. PICK h \in Nat, k \in Nat : h = Hi(t) /\ k = Stop(t)
        BY <1>2
      <4>2. PICK c \in Nat : c = cutoff[t]
        BY <1>2
      <4>3. p \in c .. h /\ h <= k + 1 /\ p >= k
        BY <1>2, <4>1, <4>2
      <4>4. p = k \/ p = h
        BY <4>3
      <4> QED
        BY <4>1, <4>4
    <3> QED
      BY <1>6, <2>1, <3>1, TrackAssumption
  <2>2. CASE ~Turns(route[t], Hi(t))
    <3>1. p = Stop(t)
      BY <1>2, <1>6, <2>2
    <3> QED
      BY <1>6, <3>1
  <2> QED
    BY <2>1, <2>2
<1>8. CASE n \in {route[t][i] : i \in {j \in lo[t] + 1 .. at[t] : route[t][j] \in Sensor}}
  <2>1. PICK i \in lo[t] + 1 .. at[t] : n = route[t][i] /\ route[t][i] \in Sensor
    BY <1>8
  <2>2. route[t][i] = route[t][p]
    BY <1>7, <2>1, TrackAssumption
  <2>3. i \in 1 .. Len(route[t]) /\ p \in 1 .. Len(route[t])
    <3>1. PICK l \in Nat, a \in Nat, c \in Nat, h \in Nat, L \in Nat :
              l = lo[t] /\ a = at[t] /\ c = cutoff[t] /\ h = Hi(t) /\ L = Len(route[t])
      BY <1>2
    <3>2. i \in l + 1 .. a /\ p \in c .. h
      <4> USE <3>1
      <4>1. i \in l + 1 .. a
        OBVIOUS
      <4>2. p \in c .. h
        OBVIOUS
      <4> QED
        BY <4>1, <4>2
    <3>3. 1 <= l /\ l + 1 <= c /\ a <= L /\ h <= L
      <4>1. at[t] <= Len(route[t]) /\ Hi(t) <= Len(route[t])
            /\ 1 <= lo[t] /\ lo[t] + 1 <= cutoff[t]
        BY <1>2
      <4> QED
        BY <3>1, <4>1
    <3>4. i \in 1 .. L /\ p \in 1 .. L
      BY <3>2, <3>3
    <3> QED
      BY <3>1, <3>4
  <2>4. i = p
    BY <1>1, <2>2, <2>3 DEF InOrder, Way
  <2> QED
    BY <1>2, <1>5, <2>4
<1>9. CASE n \in {route[u][at[u]] : u \in {v \in Train \ {t} : at[v] > 1 /\ ~turned[v]}}
                    \ {route[t][Stop(t)], Reverse[route[t][Stop(t)]]}
  <2>1. n \in Sensor
    BY <1>1, <1>9 DEF InOrder
  <2>2. n = route[t][p]
    BY <1>7, <2>1, TrackAssumption
  <2> QED
    BY <1>7, <1>9, <2>2
<1> QED
  BY <1>8, <1>9 DEF Reported

\* A sensor of the leg is reported.
LEMMA SensedSteps ==
    ASSUME IInv, NEW t \in Train, SensedShort(t) \/ Sensed(t)
    PROVE  IInv'
<1>1. Typed /\ InOrder(t) /\ Phased(t) /\ (t \notin slipped => Kept(t))
  BY DEF IInv
<1>2. /\ lo[t] \in Nat /\ at[t] \in Nat /\ target[t] \in Nat /\ seen[t] \in Nat
      /\ cutoff[t] \in Nat /\ lo[t] + 1 <= cutoff[t] /\ at[t] <= target[t]
      /\ Hi(t) \in Nat /\ Stop(t) \in Nat /\ Hi(t) <= target[t] /\ lo[t] <= Hi(t)
      /\ Stop(t) <= Hi(t) /\ Hi(t) <= Stop(t) + 1
  BY <1>1, Bounds, LegBounds
<1>3. CASE SensedShort(t)
  <2>1. /\ pc[t] = "drive" /\ lo[t] < Stop(t) /\ at[t] = Stop(t) /\ seen[t] < Stop(t) /\ Settled(t)
        /\ seen' = [seen EXCEPT ![t] = Hi(t)]
        /\ slipped' = IF Stop(t) < Hi(t) THEN slipped \cup {t} ELSE slipped
        /\ UNCHANGED <<zones, pc, plan, lo, cutoff, src_is_rev, zone_sem, at, turned>>
    BY <1>3 DEF SensedShort
  <2>2. slipped' = IF Hi(t) > at[t] THEN slipped \cup {t} ELSE slipped
    BY <1>2, <2>1
  <2>3. t \notin slipped => cutoff[t] <= Hi(t) + 1
    <3>1. t \notin slipped => cutoff[t] <= seen[t] + 1
      BY <1>1 DEF Kept
    <3> QED
      BY <1>2, <2>1, <3>1
  <2> QED
    BY <1>2, <2>1, <2>2, <2>3, SeenStep
<1>4. CASE Sensed(t)
  <2>1. /\ pc[t] = "drive" /\ lo[t] < Stop(t)
        /\ UNCHANGED <<zones, pc, plan, lo, cutoff, src_is_rev, zone_sem, at, turned>>
    BY <1>4 DEF Sensed
  <2>2. PICK n \in Reported(t) :
          LET passed == {i \in cutoff[t] .. Hi(t) : Num[route[t][i]] = Num[n]}
          IN  /\ passed # {}
              /\ seen' = [seen EXCEPT ![t] = Latest(passed)]
              /\ slipped' = IF Latest(passed) > at[t] THEN slipped \cup {t} ELSE slipped
    BY <1>4 DEF Sensed
  <2> DEFINE passed == {i \in cutoff[t] .. Hi(t) : Num[route[t][i]] = Num[n]}
  <2>3. passed # {} /\ passed \in SUBSET (0 .. Hi(t))
    BY <1>2, <2>2
  <2>4. Latest(passed) \in passed
    <3> HIDE DEF passed
    <3> QED
      BY <1>2, <2>3, LatestProperties
  <2>5. PICK p \in cutoff[t] .. Hi(t) : p = Latest(passed) /\ Num[route[t][p]] = Num[n]
    BY <2>4
  <2>6. /\ seen' = [seen EXCEPT ![t] = p]
        /\ slipped' = IF p > at[t] THEN slipped \cup {t} ELSE slipped
    BY <2>2, <2>5
  <2>7. p \in Nat /\ lo[t] <= p /\ p <= target[t] /\ cutoff[t] <= p + 1
    BY <1>2
  <2>8. p >= Stop(t) => at[t] = Stop(t)
    BY <2>1, <2>5, ReportedAtStop
  <2> HIDE DEF passed
  <2> QED
    BY <2>1, <2>6, <2>7, <2>8, SeenStep
<1> QED
  BY <1>3, <1>4

\* A zone is counted down, and given back with its last count.
LEMMA CountDownEffect ==
    ASSUME Typed, NEW t \in Train, NEW z \in Zone, CountDown(t, z)
    PROVE  /\ reservations' \in [Zone -> Train \cup {NoTrain}] /\ Foreign(t)
           /\ answer' \in [Train -> Z!Answer] /\ wait_change' = {}
           /\ \A y \in Zone : y # z \/ zone_sem[t][z] # 1 =>
                  (reservations'[y] = t <=> reservations[y] = t)
           /\ zone_sem' \in [Train -> [Zone -> Int]]
           /\ zone_sem'[t][z] = zone_sem[t][z] - 1
           /\ \A y \in Zone \ {z} : zone_sem'[t][y] = zone_sem[t][y]
           /\ \A u \in Train \ {t} : zone_sem'[u] = zone_sem[u]
<1>1. zone_sem' = [zone_sem EXCEPT ![t][z] = @ - 1]
  BY DEF CountDown
<1>2. zone_sem \in [Train -> [Zone -> Int]]
  BY DEF Typed
<1>3. /\ zone_sem' \in [Train -> [Zone -> Int]]
      /\ zone_sem'[t][z] = zone_sem[t][z] - 1
      /\ \A y \in Zone \ {z} : zone_sem'[t][y] = zone_sem[t][y]
      /\ \A u \in Train \ {t} : zone_sem'[u] = zone_sem[u]
  BY <1>1, <1>2
<1>4. CASE zone_sem[t][z] = 1
  <2>1. Z!ZoneUnreserve(t, z)
    BY <1>4 DEF CountDown
  <2>2. /\ reservations' \in [Zone -> Train \cup {NoTrain}] /\ Foreign(t)
        /\ \A y \in Zone : reservations'[y] = t <=> (reservations[y] = t /\ y # z)
        /\ answer' \in [Train -> Z!Answer] /\ wait_change' = {}
    BY <2>1, UnreserveEffect
  <2> QED
    BY <1>3, <1>4, <2>2
<1>5. CASE zone_sem[t][z] # 1
  <2>1. UNCHANGED <<reservations, zone_requests, wait_change, answer>>
    BY <1>5 DEF CountDown, zones
  <2>2. /\ reservations' \in [Zone -> Train \cup {NoTrain}] /\ Foreign(t)
        /\ answer' \in [Train -> Z!Answer] /\ wait_change' = {}
    BY <2>1 DEF Typed, Foreign
  <2> QED
    BY <1>3, <1>5, <2>1, <2>2
<1> QED
  BY <1>4, <1>5

\* The zone behind the next sensor seen is counted down.  It is given back only when no
\* place the train has yet to leave is counted for it.
LEMMA ReleaseStep ==
    ASSUME IInv, NEW t \in Train, Release(t)
    PROVE  IInv'
<1>1. Typed /\ OfTrain(t) /\ InOrder(t) /\ Phased(t)
  BY DEF IInv, OfTrain
<1>2. /\ pc[t] = "drive" /\ ~Settled(t)
      /\ UNCHANGED <<pc, route, next, target, deadlocks, lo, seen, at, turned, slipped>>
  BY DEF Release, plan, trains
<1>3. /\ lo[t] \in Nat /\ cutoff[t] \in Nat /\ seen[t] \in Nat /\ target[t] \in Nat /\ next[t] \in Nat
      /\ 1 <= lo[t] /\ lo[t] + 1 <= cutoff[t] /\ seen[t] <= target[t] /\ target[t] <= next[t] - 1
      /\ Len(route[t]) \in Nat /\ next[t] <= Len(route[t]) + 1
  BY <1>1, Bounds
<1>4. cutoff[t] <= seen[t]
  BY <1>2, <1>3 DEF Settled
<1>5. PICK p \in Nat, c \in Nat, s \in Nat, k \in Nat, m \in Nat, L \in Nat :
           /\ p = lo[t] /\ c = cutoff[t] /\ s = seen[t] /\ k = target[t] /\ m = next[t]
           /\ L = Len(route[t])
  BY <1>3
<1> DEFINE n == m - 1
<1>6. 1 <= p /\ p + 1 <= c /\ c <= s /\ s <= k
  BY <1>3, <1>4, <1>5
<1>7. k <= m - 1 /\ m <= L + 1
  BY <1>3, <1>5
<1>8. n \in Int /\ k <= n /\ n <= L
  BY <1>7
<1>9. next[t] - 1 = n
  BY <1>5
<1> HIDE DEF n
<1>10. 2 <= c /\ p < c /\ c <= n /\ p <= n /\ c <= k /\ p <= L /\ c <= L
  BY <1>6, <1>8
<1>11. PICK b \in Nat : /\ b = IF src_is_rev[t] THEN lo[t] ELSE cutoff[t]
                       /\ CountDown(t, ZoneOf[route[t][b]])
                       /\ cutoff' = [cutoff EXCEPT ![t] = IF src_is_rev[t] THEN @ ELSE @ + 1]
                       /\ src_is_rev' = [src_is_rev EXCEPT ![t] = FALSE]
  <2>1. CASE src_is_rev[t]
    <3>1. /\ CountDown(t, ZoneOf[route[t][lo[t]]])
          /\ src_is_rev' = [src_is_rev EXCEPT ![t] = FALSE] /\ UNCHANGED cutoff
      BY <2>1 DEF Release
    <3> QED
      BY <1>1, <1>3, <2>1, <3>1 DEF Typed
  <2>2. CASE ~src_is_rev[t]
    <3>1. /\ CountDown(t, ZoneOf[route[t][cutoff[t]]])
          /\ cutoff' = [cutoff EXCEPT ![t] = @ + 1] /\ UNCHANGED src_is_rev
      BY <2>2 DEF Release
    <3> QED
      BY <1>1, <1>3, <2>2, <3>1 DEF Typed
  <2> QED
    BY <2>1, <2>2
<1>12. PICK z \in Zone : z = ZoneOf[route[t][b]]
  <2>1. b \in 1 .. Len(route[t])
    <3>1. b = lo[t] \/ b = cutoff[t]
      BY <1>11
    <3>2. p \in 1 .. L /\ c \in 1 .. L
      BY <1>6, <1>10
    <3> QED
      BY <1>5, <3>1, <3>2
  <2>2. route[t][b] \in Node
    BY <1>1, <2>1, WayZones DEF InOrder
  <2> QED
    BY <2>2, TrackAssumption
<1>13. CountDown(t, z)
  BY <1>11, <1>12
<1>14. /\ cutoff'[t] = (IF src_is_rev[t] THEN cutoff[t] ELSE cutoff[t] + 1) /\ src_is_rev'[t] = FALSE
      /\ cutoff' \in [Train -> Nat] /\ src_is_rev' \in [Train -> BOOLEAN]
      /\ \A u \in Train \ {t} : cutoff'[u] = cutoff[u] /\ src_is_rev'[u] = src_is_rev[u]
  BY <1>1, <1>11, SMTT(30) DEF Typed
<1>15. Typed'
  BY <1>1, <1>2, <1>13, <1>14, CountDownEffect DEF Typed
<1>16. Foreign(t)
  BY <1>1, <1>13, CountDownEffect
<1>17. \A u \in Train \ {t} : Same(u)
  BY <1>1, <1>2, <1>13, <1>14, CountDownEffect DEF Same
<1>18. InOrder(t)'
  <2>1. cutoff'[t] \in lo[t] + 1 .. target[t] + 1
    <3>1. c \in p + 1 .. k + 1 /\ c + 1 \in p + 1 .. k + 1
      BY <1>6, <1>10
    <3>2. cutoff'[t] = c \/ cutoff'[t] = c + 1
      BY <1>14, <1>5
    <3>3. p + 1 .. k + 1 = lo[t] + 1 .. target[t] + 1
      BY <1>5
    <3> QED
      BY <3>1, <3>2, <3>3
  <2> QED
    BY <1>1, <1>2, <2>1 DEF InOrder
<1>19. Phased(t)'
  <2>1. Stop(t)' = Stop(t)
    BY <1>2, SameStop
  <2> QED
    BY <1>1, <1>2, <2>1 DEF Phased
<1>20. Resting(t)'
  BY <1>2 DEF Resting
<1>21. ASSUME t \notin slipped' PROVE Kept(t)'
  <2>1. Kept(t)
    BY <1>1, <1>2, <1>21 DEF OfTrain
  <2>2. ~turned[t]
    <3>1. turned[t] => seen[t] <= lo[t]
      BY <2>1 DEF Kept
    <3>2. ~(s <= p)
      BY <1>6
    <3> QED
      BY <1>5, <3>1, <3>2
  <2>3. PICK l \in Nat : l = Low(t) /\ l >= 1 /\ l + 1 <= n /\ Low(t)' = l + 1 /\ l + 1 = b
    <3>1. CASE src_is_rev[t]
      <4>1. c = p + 1 /\ p >= 2
        BY <1>5, <2>1, <3>1 DEF Kept
      <4>2. Low(t) = p - 1 /\ Low(t)' = c - 1 /\ b = p
        BY <1>2, <1>11, <1>14, <1>5, <3>1 DEF Low
      <4>3. p - 1 \in Nat /\ p - 1 >= 1 /\ (p - 1) + 1 = p /\ c - 1 = p
        BY <4>1
      <4> QED
        BY <1>10, <4>2, <4>3
    <3>2. CASE ~src_is_rev[t]
      <4>1. Low(t) = c - 1 /\ Low(t)' = (c + 1) - 1 /\ b = c
        BY <1>11, <1>14, <1>5, <3>2 DEF Low
      <4>2. c - 1 \in Nat /\ c - 1 >= 1 /\ (c - 1) + 1 = c /\ (c + 1) - 1 = c
        BY <1>10
      <4> QED
        BY <1>10, <4>1, <4>2
    <3> QED
      BY <3>1, <3>2
  <2>4. Zoned(route[t], l) = z
    <3>1. b = l + 1 /\ l + 1 <= L /\ l >= 1
      BY <1>8, <2>3
    <3>2. b \in 2 .. Len(route[t]) /\ b - 1 = l
      BY <1>5, <3>1
    <3> QED
      BY <1>1, <1>12, <3>2, WayZones DEF InOrder
  <2>5. ASSUME NEW y \in Zone
        PROVE  /\ Cardinality(Places(route[t], y, l, n)) <= zone_sem[t][y]
               /\ Cardinality(Places(route[t], y, l, n)) = Cardinality(Places(route[t], y, l + 1, n))
                                                           + IF y = z THEN 1 ELSE 0
               /\ Cardinality(Places(route[t], y, l + 1, n)) \in Nat
               /\ Cardinality(Places(route[t], y, l + 1, n)) = 0 =>
                      \A i \in l + 1 .. n : Zoned(route[t], i) # y
               /\ zone_sem[t][y] \in Int
    <3>1. Cardinality(Places(route[t], y, l, n)) <= zone_sem[t][y]
      BY <1>2, <1>9, <2>1, <2>3 DEF Kept, CountedFor
    <3>2. zone_sem[t][y] \in Int
      BY <1>1 DEF Typed
    <3>3. l <= n /\ l + 1 \in Int /\ n \in Int
      BY <1>8, <2>3
    <3>4. Cardinality(Places(route[t], y, l, n)) = Cardinality(Places(route[t], y, l + 1, n))
                                                   + IF y = z THEN 1 ELSE 0
      BY <2>4, <3>3, PlacesFirst
    <3>5. /\ Cardinality(Places(route[t], y, l + 1, n)) \in Nat
          /\ Cardinality(Places(route[t], y, l + 1, n)) = 0 =>
                 \A i \in l + 1 .. n : Zoned(route[t], i) # y
      BY <3>3, PlacesFinite
    <3> QED
      BY <3>1, <3>2, <3>4, <3>5
  <2>6. ASSUME NEW i \in l + 1 .. n PROVE reservations'[Zoned(route[t], i)] = t
    <3>1. PICK y \in Zone : y = Zoned(route[t], i)
      <4>1. i \in 1 .. Len(route[t])
        BY <1>5, <1>8, <2>3
      <4> QED
        BY <1>1, <4>1, WayZones DEF InOrder
    <3>2. reservations[y] = t
      <4>1. i \in l .. n
        BY <2>3
      <4> QED
        BY <1>9, <2>1, <2>3, <3>1, <4>1 DEF Kept
    <3>3. y # z \/ zone_sem[t][z] # 1
      <4> SUFFICES ASSUME y = z, zone_sem[t][z] = 1 PROVE FALSE
        OBVIOUS
      <4>1. Cardinality(Places(route[t], z, l + 1, n)) = 0
        BY <2>5
      <4> QED
        BY <2>5, <3>1, <4>1
    <3> QED
      BY <1>1, <1>13, <3>1, <3>2, <3>3, CountDownEffect
  <2>7. ASSUME NEW y \in Zone PROVE Cardinality(CountedFor(t, y)') <= zone_sem'[t][y]
    <3>1. CountedFor(t, y)' = Places(route[t], y, l + 1, n)
      BY <1>2, <1>9, <2>3 DEF CountedFor
    <3>2. zone_sem'[t][y] = zone_sem[t][y] - IF y = z THEN 1 ELSE 0
      <4>1. zone_sem[t][y] \in Int
        BY <2>5
      <4> QED
        BY <1>1, <1>13, <4>1, CountDownEffect
    <3> QED
      BY <2>5, <3>1, <3>2
  <2>8. seen'[t] <= at'[t] /\ cutoff'[t] <= seen'[t] + 1
    <3>1. seen'[t] <= at'[t]
      BY <1>2, <2>1 DEF Kept
    <3>2. c <= s + 1 /\ c + 1 <= s + 1
      BY <1>6
    <3>3. (cutoff'[t] = c \/ cutoff'[t] = c + 1) /\ seen'[t] = s
      BY <1>2, <1>14, <1>5
    <3> QED
      BY <3>1, <3>2, <3>3
  <2>9. \A i \in Low(t)' .. next'[t] - 1 : reservations'[Zoned(route'[t], i)] = t
    BY <1>2, <1>9, <2>3, <2>6
  <2> QED
    BY <1>2, <1>14, <2>2, <2>7, <2>8, <2>9 DEF Kept
<1> QED
  BY <1>15, <1>16, <1>17, <1>18, <1>19, <1>20, <1>21, OwnStep DEF OfTrain

\* The places from a later one on are kept, and counted, when those from an earlier one are.
LEMMA KeptOn ==
    ASSUME NEW t \in Train, Kept(t), InOrder(t), NEW b \in Nat, Low(t) <= b
    PROVE  /\ \A i \in b .. next[t] - 1 : reservations[Zoned(route[t], i)] = t
           /\ pc[t] \notin {"idle", "plan"} =>
                \A z \in Zone : zone_sem[t][z] \in Int =>
                    Cardinality(Places(route[t], z, b, next[t] - 1)) <= zone_sem[t][z]
<1>1. PICK l \in Int, n \in Int : l = Low(t) /\ n = next[t] - 1
  <2>1. lo[t] \in Nat /\ cutoff[t] \in Nat /\ next[t] \in Nat
    BY Bounds
  <2>2. lo[t] - 1 \in Int /\ cutoff[t] - 1 \in Int /\ next[t] - 1 \in Int
    BY <2>1
  <2> QED
    BY <2>2 DEF Low
<1>2. ASSUME NEW i \in b .. next[t] - 1 PROVE reservations[Zoned(route[t], i)] = t
  <2>1. i \in l .. n
    BY <1>1
  <2> QED
    BY <1>1, <2>1 DEF Kept
<1>3. ASSUME pc[t] \notin {"idle", "plan"}, NEW z \in Zone, zone_sem[t][z] \in Int
      PROVE  Cardinality(Places(route[t], z, b, next[t] - 1)) <= zone_sem[t][z]
  <2>1. Cardinality(Places(route[t], z, l, n)) <= zone_sem[t][z]
    BY <1>1, <1>3 DEF Kept, CountedFor
  <2>2. Cardinality(Places(route[t], z, b, n)) <= Cardinality(Places(route[t], z, l, n))
    BY <1>1, PlacesNarrow
  <2>3. Cardinality(Places(route[t], z, l, n)) \in Nat /\ Cardinality(Places(route[t], z, b, n)) \in Nat
    BY PlacesFinite
  <2>4. Cardinality(Places(route[t], z, b, n)) <= zone_sem[t][z]
    BY <1>3, <2>1, <2>2, <2>3
  <2> QED
    BY <1>1, <2>4
<1> QED
  BY <1>2, <1>3

\* A train that has driven its leg stands at the last sensor of it.
LEMMA StoppedAtStop ==
    ASSUME NEW t \in Train, InOrder(t), Phased(t), Stopped(t), lo[t] < target[t]
    PROVE  at[t] = Stop(t)
<1>1. lo[t] \in Nat /\ at[t] \in Nat /\ seen[t] \in Nat /\ Stop(t) \in Nat /\ lo[t] <= at[t]
  BY Bounds, LegBounds
<1>2. at[t] <= Stop(t) /\ (lo[t] < Stop(t) /\ seen[t] >= Stop(t) => at[t] = Stop(t))
  BY DEF Phased, Stopped
<1>3. CASE lo[t] = Stop(t)
  BY <1>1, <1>2, <1>3
<1>4. CASE lo[t] # Stop(t)
  <2>1. seen[t] >= Stop(t)
    BY <1>4 DEF Stopped
  <2>2. lo[t] < Stop(t)
    BY <1>1, <1>2, <1>4
  <2> QED
    BY <1>2, <2>1, <2>2
<1> QED
  BY <1>3, <1>4

\* The train, which stands, is turned: it keeps the zone behind it until it is seen again.
LEMMA TurnStep ==
    ASSUME IInv, NEW t \in Train, Turn(t)
    PROVE  IInv'
<1>1. Typed /\ OfTrain(t) /\ InOrder(t) /\ Phased(t)
  BY DEF IInv, OfTrain
<1>2. /\ Stopped(t) /\ pc[t] = "drive" /\ Turns(route[t], Hi(t)) /\ lo[t] < Hi(t)
      /\ UNCHANGED <<reservations, zone_requests, wait_change, answer, pc, zone_sem>>
      /\ UNCHANGED <<route, next, target, deadlocks, slipped>>
  BY DEF Turn, Stopped, zones, plan
<1>3. lo[t] < target[t] /\ at[t] = Stop(t)
  BY <1>1, <1>2, LegBounds, StoppedAtStop
<1>4. PICK h \in Nat : h = Hi(t) /\ Stop(t) = h - 1 /\ route[t][h] \in Sensor
  <2>1. /\ Stop(t) = Hi(t) - 1 /\ route[t][Stop(t)] \in Sensor
        /\ route[t][Hi(t)] = Reverse[route[t][Stop(t)]] /\ Hi(t) \in Nat
    BY <1>1, <1>2, <1>3, StopProperties, LegBounds
  <2> QED
    BY <2>1, TrackAssumption
<1>5. PICK p \in Nat, c \in Nat, s \in Nat, k \in Nat :
          /\ p = lo[t] /\ c = cutoff[t] /\ s = seen[t] /\ k = target[t]
          /\ 1 <= p /\ p < h /\ h <= k
  <2>1. /\ lo[t] \in Nat /\ cutoff[t] \in Nat /\ seen[t] \in Nat /\ target[t] \in Nat
        /\ 1 <= lo[t] /\ lo[t] < Hi(t) /\ Hi(t) <= target[t]
    BY <1>1, <1>2, Bounds, LegBounds
  <2> QED
    BY <1>4, <2>1
<1>6. /\ lo' = [lo EXCEPT ![t] = h] /\ cutoff' = [cutoff EXCEPT ![t] = h + 1]
      /\ seen' = [seen EXCEPT ![t] = h] /\ src_is_rev' = [src_is_rev EXCEPT ![t] = TRUE]
      /\ at' = [at EXCEPT ![t] = h] /\ turned' = [turned EXCEPT ![t] = TRUE]
  BY <1>4 DEF Turn, Begin
<1>7. /\ lo'[t] = h /\ cutoff'[t] = h + 1 /\ seen'[t] = h /\ src_is_rev'[t] /\ at'[t] = h /\ turned'[t]
      /\ lo' \in [Train -> Nat] /\ cutoff' \in [Train -> Nat] /\ seen' \in [Train -> Nat]
      /\ at' \in [Train -> Nat]
      /\ src_is_rev' \in [Train -> BOOLEAN] /\ turned' \in [Train -> BOOLEAN]
  BY <1>1, <1>6 DEF Typed
<1>8. Typed'
  BY <1>1, <1>2, <1>7 DEF Typed
<1>9. Foreign(t)
  BY <1>2 DEF Foreign
<1>10. \A u \in Train \ {t} : Same(u)
  BY <1>1, <1>2, <1>6 DEF Typed, Same
<1>11. InOrder(t)'
  <2>1. h \in 1 .. k /\ h \in 1 .. h /\ h + 1 \in h + 1 .. k + 1 /\ h \in h .. k
    BY <1>5
  <2>2. /\ at'[t] \in 1 .. target'[t] /\ lo'[t] \in 1 .. at'[t]
        /\ cutoff'[t] \in lo'[t] + 1 .. target'[t] + 1 /\ seen'[t] \in lo'[t] .. target'[t]
    BY <1>2, <1>5, <1>7, <2>1
  <2> QED
    BY <1>1, <1>2, <1>4, <1>7, <2>2 DEF InOrder
<1>12. Phased(t)'
  <2>1. ASSUME h < k PROVE Stop(t)' \in Nat /\ h <= Stop(t)'
    <3> DEFINE S == {i \in h + 1 .. k : Turns(route[t], i)} \cup {k}
    <3>1. Hi(t)' = First(S)
      BY <1>2, <1>5, <1>7 DEF Hi
    <3>2. S \in SUBSET Nat /\ S # {}
      OBVIOUS
    <3>3. First(S) \in S
      <4> HIDE DEF S
      <4> QED
        BY <3>2, FirstProperties
    <3>4. First(S) \in h + 1 .. k
      BY <2>1, <3>3
    <3> HIDE DEF S
    <3>5. Stop(t)' = Hi(t)' \/ Stop(t)' = Hi(t)' - 1
      BY DEF Stop
    <3> QED
      BY <3>1, <3>4, <3>5
  <2>2. pc'[t] = "drive" /\ deadlocks'[t] <= MaxDeadlocks
    BY <1>1, <1>2 DEF Phased
  <2>3. lo'[t] < target'[t] => at'[t] <= Stop(t)'
                            /\ (lo'[t] < Stop(t)' /\ seen'[t] >= Stop(t)' => at'[t] = Stop(t)')
    BY <1>2, <1>5, <1>7, <2>1
  <2> QED
    BY <2>2, <2>3 DEF Phased
<1>13. Resting(t)'
  BY <1>2 DEF Resting
<1>14. ASSUME t \notin slipped' PROVE Kept(t)'
  <2>1. Kept(t)
    BY <1>1, <1>2, <1>14 DEF OfTrain
  <2>2. PICK b \in Nat : b = h - 1
    BY <1>5
  <2>3. Low(t) <= b
    <3>1. CASE src_is_rev[t]
      BY <1>5, <2>2, <3>1 DEF Low
    <3>2. CASE ~src_is_rev[t]
      <4>1. seen[t] <= at[t] /\ cutoff[t] <= seen[t] + 1
        BY <2>1 DEF Kept
      <4>2. s <= b /\ c <= s + 1
        BY <1>3, <1>4, <1>5, <2>2, <4>1
      <4>3. c - 1 <= b
        BY <4>2
      <4> QED
        BY <1>5, <3>2, <4>3 DEF Low
    <3> QED
      BY <3>1, <3>2
  <2>4. Low(t)' = b
    BY <1>7, <2>2 DEF Low
  <2>5. \A i \in Low(t)' .. next'[t] - 1 : reservations'[Zoned(route'[t], i)] = t
    BY <1>1, <1>2, <2>1, <2>3, <2>4, KeptOn
  <2>6. \A z \in Zone : Cardinality(CountedFor(t, z)') <= zone_sem'[t][z]
    <3> TAKE z \in Zone
    <3>1. zone_sem[t][z] \in Int
      BY <1>1 DEF Typed
    <3>2. Cardinality(Places(route[t], z, b, next[t] - 1)) <= zone_sem[t][z]
      BY <1>1, <1>2, <2>1, <2>3, <3>1, KeptOn
    <3> QED
      BY <1>2, <2>4, <3>2 DEF CountedFor
  <2>7. seen'[t] <= at'[t] /\ cutoff'[t] <= seen'[t] + 1 /\ cutoff'[t] = lo'[t] + 1 /\ lo'[t] >= 2
    BY <1>5, <1>7
  <2> QED
    BY <1>2, <1>7, <2>5, <2>6, <2>7 DEF Kept
<1> QED
  BY <1>8, <1>9, <1>10, <1>11, <1>12, <1>13, <1>14, OwnStep DEF OfTrain

\* The train has been driven as far as its zones go: it keeps the one it stands in.
LEMMA ArriveStep ==
    ASSUME IInv, NEW t \in Train, Arrive(t)
    PROVE  IInv'
<1>1. Typed /\ OfTrain(t) /\ InOrder(t) /\ Phased(t)
  BY DEF IInv, OfTrain
<1>2. /\ Stopped(t) /\ pc[t] = "drive"
      /\ lo[t] = target[t] \/ (Hi(t) = target[t] /\ ~Turns(route[t], target[t]))
      /\ Z!ZoneUnreserveAll(t, {Zoned(route[t], target[t])})
      /\ slipped' = (IF turned[t] THEN slipped \cup {t} ELSE slipped) /\ UNCHANGED turned
  BY DEF Arrive, Arrived, Stopped, Zoned
<1>3. PICK p \in Nat, c \in Nat, s \in Nat, k \in Nat, m \in Nat, L \in Nat :
          /\ p = lo[t] /\ c = cutoff[t] /\ s = seen[t] /\ k = target[t] /\ m = next[t]
          /\ L = Len(route[t]) /\ 1 <= p /\ p <= k /\ k <= m - 1 /\ s <= k
  <2>1. /\ lo[t] \in Nat /\ cutoff[t] \in Nat /\ seen[t] \in Nat /\ target[t] \in Nat /\ next[t] \in Nat
        /\ Len(route[t]) \in Nat
        /\ 1 <= lo[t] /\ lo[t] <= target[t] /\ target[t] <= next[t] - 1 /\ seen[t] <= target[t]
    BY <1>1, Bounds, StopProperties
  <2> QED
    BY <2>1
<1>4. at[t] = k
  <2>1. CASE lo[t] = target[t]
    <3>1. lo[t] <= at[t] /\ at[t] <= target[t] /\ at[t] \in Nat
      BY <1>1, Bounds
    <3> QED
      BY <1>3, <2>1, <3>1
  <2>2. CASE lo[t] # target[t]
    <3>1. Stop(t) = target[t] /\ lo[t] < target[t]
      BY <1>2, <1>3, <2>2 DEF Stop
    <3> QED
      BY <1>1, <1>2, <1>3, <3>1, StoppedAtStop
  <2> QED
    BY <2>1, <2>2
<1>5. /\ reservations' \in [Zone -> Train \cup {NoTrain}] /\ Foreign(t)
      /\ \A y \in Zone : reservations'[y] = t <=> (reservations[y] = t /\ y = Zoned(route[t], k))
      /\ answer' \in [Train -> Z!Answer] /\ wait_change' = {}
  <2>1. /\ reservations' \in [Zone -> Train \cup {NoTrain}] /\ Foreign(t)
        /\ \A y \in Zone : reservations'[y] = t <=>
                (reservations[y] = t /\ y \in {Zoned(route[t], target[t])})
        /\ answer' \in [Train -> Z!Answer] /\ wait_change' = {}
    BY <1>1, <1>2, UnreserveAllEffect
  <2> QED
    BY <1>3, <2>1
<1>6. k \in 1 .. Len(route[t]) /\ Zoned(route[t], k) \in Zone
  <2>1. target[t] <= Len(route[t])
    BY <1>1, StopProperties
  <2>2. k \in 1 .. L
    BY <1>3, <2>1
  <2> QED
    BY <1>1, <1>3, <2>2, WayZones DEF InOrder
<1>7. ASSUME t \notin slipped' PROVE ~turned[t] /\ t \notin slipped /\ Kept(t) /\ Low(t) <= k
  <2>1. ~turned[t] /\ t \notin slipped /\ Kept(t)
    BY <1>1, <1>2, <1>7 DEF OfTrain
  <2>2. CASE src_is_rev[t]
    BY <1>3, <2>1, <2>2 DEF Low
  <2>3. CASE ~src_is_rev[t]
    <3>1. cutoff[t] <= seen[t] + 1
      BY <2>1 DEF Kept
    <3>2. c <= s + 1 /\ s <= k
      BY <1>3, <3>1
    <3>3. c - 1 <= k
      BY <3>2
    <3> QED
      BY <1>3, <2>1, <2>3, <3>3 DEF Low
  <2> QED
    BY <2>2, <2>3
<1>8. ASSUME t \notin slipped' PROVE reservations'[Zoned(route[t], k)] = t
  <2>1. k \in k .. next[t] - 1
    BY <1>3
  <2>2. reservations[Zoned(route[t], k)] = t
    BY <1>1, <1>7, <1>8, <2>1, KeptOn
  <2> QED
    BY <1>5, <1>6, <2>2
<1>9. CASE next[t] > Len(route[t])
  <2>1. /\ pc' = [pc EXCEPT ![t] = "idle"] /\ deadlocks' = [deadlocks EXCEPT ![t] = 0] /\ Forget(t)
    BY <1>9 DEF Arrive, Goto
  <2>2. \A z \in Zone : reservations'[z] = t => z = Zoned(route[t], at[t])
    BY <1>4, <1>5
  <2>3. t \notin slipped' => ~turned[t] /\ reservations'[Zoned(route[t], at[t])] = t
    BY <1>4, <1>7, <1>8
  <2>4. "idle" \in {"idle", "plan"} /\ 0 \in Nat /\ 0 <= MaxDeadlocks + 1 /\ 0 <= MaxDeadlocks
    BY DEF MaxDeadlocks
  <2>5. turned' = turned /\ (slipped' = slipped \/ slipped' = slipped \cup {t})
    BY <1>2
  <2> QED
    BY <1>5, <2>1, <2>2, <2>3, <2>4, <2>5, ForgetStep
<1>10. CASE ~(next[t] > Len(route[t]))
  <2>1. /\ pc' = [pc EXCEPT ![t] = "wait"]
        /\ lo' = [lo EXCEPT ![t] = k] /\ cutoff' = [cutoff EXCEPT ![t] = k + 1]
        /\ seen' = [seen EXCEPT ![t] = k] /\ src_is_rev' = [src_is_rev EXCEPT ![t] = FALSE]
        /\ UNCHANGED <<route, next, target, deadlocks, zone_sem, at, turned>>
    BY <1>2, <1>3, <1>10 DEF Arrive, Begin, Goto, plan
  <2>2. /\ pc'[t] = "wait" /\ lo'[t] = k /\ cutoff'[t] = k + 1 /\ seen'[t] = k /\ ~src_is_rev'[t]
        /\ lo' \in [Train -> Nat] /\ cutoff' \in [Train -> Nat] /\ seen' \in [Train -> Nat]
        /\ src_is_rev' \in [Train -> BOOLEAN] /\ pc' \in [Train -> Doing]
    BY <1>1, <2>1 DEF Typed, Doing
  <2>3. Typed'
    <3>1. slipped' \subseteq Train
      BY <1>1, <1>2 DEF Typed
    <3> QED
      BY <1>1, <1>5, <2>1, <2>2, <3>1 DEF Typed, Doing
  <2>4. \A u \in Train \ {t} : Same(u)
    BY <1>1, <1>2, <2>1 DEF Typed, Same
  <2>5. InOrder(t)'
    <3>1. 1 <= k
      BY <1>3
    <3>2. k \in 1 .. k /\ k + 1 \in k + 1 .. k + 1 /\ k \in k .. k
      BY <3>1
    <3>3. /\ at'[t] \in 1 .. target'[t] /\ lo'[t] \in 1 .. at'[t]
          /\ cutoff'[t] \in lo'[t] + 1 .. target'[t] + 1 /\ seen'[t] \in lo'[t] .. target'[t]
      BY <1>3, <1>4, <2>1, <2>2, <3>2
    <3> QED
      BY <1>1, <2>1, <3>3 DEF InOrder
  <2>6. Phased(t)'
    <3>1. next[t] <= Len(route[t])
      BY <1>3, <1>10
    <3>2. deadlocks[t] <= MaxDeadlocks
      BY <1>1, <1>2 DEF Phased
    <3> QED
      BY <1>3, <1>4, <2>1, <2>2, <3>1, <3>2 DEF Phased
  <2>7. Resting(t)'
    <3>1. k \in k .. next[t] - 1
      BY <1>3
    <3> QED
      BY <1>5, <2>1, <2>2, <3>1 DEF Resting
  <2>8. ASSUME t \notin slipped' PROVE Kept(t)'
    <3>1. Low(t)' = k
      BY <1>3, <2>2 DEF Low
    <3>2. \A i \in k .. next[t] - 1 : reservations'[Zoned(route[t], i)] = t
      <4>1. \A i \in k .. next[t] - 1 : Zoned(route[t], i) = Zoned(route[t], k)
        BY <1>1, <1>3, OneZone
      <4> QED
        BY <1>8, <2>8, <4>1
    <3>3. \A z \in Zone : Cardinality(CountedFor(t, z)') <= zone_sem'[t][z]
      <4> TAKE z \in Zone
      <4>1. zone_sem[t][z] \in Int
        BY <1>1 DEF Typed
      <4>2. Cardinality(Places(route[t], z, k, next[t] - 1)) <= zone_sem[t][z]
        BY <1>1, <1>2, <1>7, <2>8, <4>1, KeptOn
      <4> QED
        BY <2>1, <3>1, <4>2 DEF CountedFor
    <3>4. seen'[t] <= at'[t] /\ cutoff'[t] <= seen'[t] + 1
      BY <1>3, <1>4, <2>1, <2>2
    <3> QED
      BY <1>7, <2>1, <2>2, <2>8, <3>1, <3>2, <3>3, <3>4 DEF Kept
  <2> QED
    BY <1>5, <2>3, <2>4, <2>5, <2>6, <2>7, <2>8, OwnStep DEF OfTrain
<1> QED
  BY <1>9, <1>10

-----------------------------------------------------------------------------
(* The theorems. *)

\* TrainSystemServer has reserved each train its zone, and no task has a route.
LEMMA Initially ==
    ASSUME Init
    PROVE  IInv
<1>1. \A t \in Train : Home[t] \in Sensor /\ Home[t] \in Node /\ Into(Home[t]) \in Zone
  BY PathAssumption, TrackAssumption DEF Into
<1>2. ASSUME NEW t \in Train, NEW z \in Zone PROVE reservations[z] = t <=> z = Into(Home[t])
  <2>1. CASE \E u \in Train : Into(Home[u]) = z
    <3>1. PICK u \in Train : Into(Home[u]) = z
      BY <2>1
    <3>2. reservations[z] = CHOOSE w \in Train : Into(Home[w]) = z
      BY <2>1 DEF Init
    <3>3. reservations[z] \in Train /\ Into(Home[reservations[z]]) = z
      BY <3>1, <3>2
    <3> QED
      BY <3>3, PathAssumption
  <2>2. CASE ~\E u \in Train : Into(Home[u]) = z
    BY <2>2, PathAssumption DEF Init
  <2> QED
    BY <2>1, <2>2
<1>3. Typed
  <2>1. reservations \in [Zone -> Train \cup {NoTrain}]
    <3>1. ASSUME NEW z \in Zone, \E u \in Train : Into(Home[u]) = z
          PROVE  (CHOOSE w \in Train : Into(Home[w]) = z) \in Train
      BY <3>1
    <3> QED
      BY <3>1 DEF Init
  <2>2. route \in [Train -> Seq(Node)]
    BY <1>1, PlaceIsWay DEF Init
  <2>3. /\ next \in [Train -> Nat] /\ target \in [Train -> Nat] /\ deadlocks \in [Train -> Nat]
        /\ lo \in [Train -> Nat] /\ cutoff \in [Train -> Nat] /\ seen \in [Train -> Nat]
        /\ at \in [Train -> Nat]
    BY DEF Init
  <2>4. /\ zone_sem \in [Train -> [Zone -> Int]]
        /\ src_is_rev \in [Train -> BOOLEAN] /\ turned \in [Train -> BOOLEAN]
    BY DEF Init
  <2>5. answer \in [Train -> Z!Answer] /\ wait_change = {} /\ slipped \subseteq Train
    BY DEF Init, Z!Answer
  <2>6. pc \in [Train -> Doing]
    BY DEF Init, Doing
  <2> QED
    BY <2>1, <2>2, <2>3, <2>4, <2>5, <2>6 DEF Typed, Doing
<1>4. ASSUME NEW t \in Train PROVE InOrder(t) /\ Phased(t) /\ Resting(t) /\ Kept(t)
  <2>1. /\ route[t] = <<Home[t]>> /\ pc[t] = "idle" /\ next[t] = 2 /\ target[t] = 1 /\ at[t] = 1
        /\ lo[t] = 1 /\ cutoff[t] = 2 /\ seen[t] = 1 /\ src_is_rev[t] = FALSE /\ turned[t] = FALSE
        /\ deadlocks[t] = 0
    BY DEF Init
  <2>2. Way(route[t]) /\ Len(route[t]) = 1 /\ route[t][1] = Home[t] /\ route[t][1] \in Sensor
    BY <1>1, <2>1, PlaceIsWay
  <2>3. InOrder(t)
    <3>1. 2 \in 2 .. 1 + 1 /\ 1 \in 1 .. 2 - 1 /\ 1 \in 1 .. 1 /\ 2 \in 1 + 1 .. 1 + 1
      OBVIOUS
    <3>2. \A i \in target[t] + 1 .. next[t] - 1 : FALSE
      BY <2>1
    <3> QED
      BY <2>1, <2>2, <3>1, <3>2 DEF InOrder
  <2>4. Phased(t)
    BY <2>1, <2>2 DEF Phased, MaxDeadlocks
  <2>5. Zoned(route[t], 1) = Into(Home[t])
    BY <2>2 DEF Zoned
  <2>6. Resting(t)
    <3>1. 1 \in lo[t] .. next[t] - 1
      BY <2>1
    <3> QED
      BY <1>2, <2>5, <3>1 DEF Resting
  <2>7. Kept(t)
    <3>1. Low(t) = 1
      BY <2>1 DEF Low
    <3>2. \A i \in Low(t) .. next[t] - 1 : i = 1
      BY <2>1, <3>1
    <3>3. reservations[Zoned(route[t], 1)] = t
      BY <1>1, <1>2, <2>5
    <3> QED
      BY <2>1, <3>2, <3>3 DEF Kept
  <2> QED
    BY <2>3, <2>4, <2>6, <2>7
<1> QED
  BY <1>3, <1>4 DEF IInv

\* A deadlock check of the zone server answers a task, and so leaves the trains alone.
LEMMA CheckStep ==
    ASSUME IInv, (\E n \in 0 .. Len(zone_requests) : DeadlockCheck(n)) \/ UNCHANGED vars
    PROVE  IInv'
<1>1. Typed /\ \A u \in Train : OfTrain(u)
  BY DEF IInv, OfTrain
<1>2. /\ UNCHANGED <<reservations, pc, route, next, target, deadlocks, lo, cutoff, seen, src_is_rev>>
      /\ UNCHANGED <<zone_sem, at, turned, slipped>>
      /\ answer' \in [Train -> Z!Answer] /\ wait_change' = {}
  <2>1. CASE UNCHANGED vars
    BY <1>1, <2>1 DEF vars, zones, plan, leg, trains, Typed
  <2>2. CASE \E n \in 0 .. Len(zone_requests) : DeadlockCheck(n)
    <3>1. PICK n \in 0 .. Len(zone_requests) : DeadlockCheck(n)
      BY <2>2
    <3>2. UNCHANGED <<pc, plan, leg, zone_sem, trains>> /\ Z!ZoneDeadlock(n)
      BY <3>1 DEF DeadlockCheck
    <3>3. UNCHANGED reservations /\ answer' \in [Train -> Z!Answer] /\ wait_change' = {}
      BY <1>1, <3>2 DEF Z!ZoneDeadlock, Z!AnswerTo, Z!Answer, Typed
    <3> QED
      BY <3>2, <3>3 DEF plan, leg, trains
  <2> QED
    BY <2>1, <2>2
<1>3. Typed'
  BY <1>1, <1>2 DEF Typed
<1>4. \A u \in Train : Same(u)
  BY <1>2 DEF Same
<1>5. \A u \in Train : OfTrain(u)'
  BY <1>1, <1>2, <1>4, SameKeeps
<1> QED
  BY <1>3, <1>5 DEF IInv, OfTrain

\* Every step keeps the invariant.
LEMMA Steps ==
    ASSUME IInv, [Next]_vars
    PROVE  IInv'
<1>1. ASSUME NEW t \in Train,
             \/ Start(t) \/ Abort(t) \/ Plan(t) \/ NoPlan(t) \/ Reserve(t) \/ Blocked(t) \/ Depart(t)
             \/ Wait(t) \/ TimedOut(t) \/ Freed(t) \/ Again(t)
             \/ Move(t) \/ SensedShort(t) \/ Sensed(t) \/ Release(t) \/ Turn(t) \/ Arrive(t)
      PROVE  IInv'
  BY <1>1, IdleSteps, PlanStep, TakeSteps, WaitSteps, TimedOutStep, MoveStep, SensedSteps,
     ReleaseStep, TurnStep, ArriveStep
<1> QED
  BY <1>1, CheckStep DEF Next

\* Where a train is and where it may go is its own.
LEMMA KeptInterlock ==
    ASSUME IInv
    PROVE  Interlock
<1> SUFFICES ASSUME NEW t \in Train \ slipped
             PROVE  /\ reservations[Pos(t)] = t
                    /\ \A i \in at[t] .. target[t] : reservations[Into(route[t][i])] = t
  BY DEF Interlock
<1>1. InOrder(t) /\ Kept(t)
  BY DEF IInv
<1>2. PICK p \in Nat, c \in Nat, s \in Nat, a \in Nat, k \in Nat, m \in Nat :
          /\ p = lo[t] /\ c = cutoff[t] /\ s = seen[t] /\ a = at[t] /\ k = target[t] /\ m = next[t]
          /\ 1 <= p /\ p <= a /\ a <= k /\ k <= m - 1
  <2>1. /\ lo[t] \in Nat /\ cutoff[t] \in Nat /\ seen[t] \in Nat /\ at[t] \in Nat
        /\ target[t] \in Nat /\ next[t] \in Nat
        /\ 1 <= lo[t] /\ lo[t] <= at[t] /\ at[t] <= target[t] /\ target[t] <= next[t] - 1
    BY <1>1, Bounds
  <2> QED
    BY <2>1
<1>3. Low(t) <= a
  <2>1. CASE src_is_rev[t]
    BY <1>2, <2>1 DEF Low
  <2>2. CASE ~src_is_rev[t]
    <3>1. c <= s + 1 /\ s <= a
      BY <1>1, <1>2 DEF Kept
    <3>2. c - 1 <= a
      BY <3>1
    <3> QED
      BY <1>2, <2>2, <3>2 DEF Low
  <2> QED
    BY <2>1, <2>2
<1>4. \A i \in a .. k : reservations[Zoned(route[t], i)] = t
  <2>1. \A i \in a .. m - 1 : reservations[Zoned(route[t], i)] = t
    BY <1>1, <1>2, <1>3, KeptOn
  <2> QED
    BY <1>2, <2>1
<1>5. reservations[Pos(t)] = t
  <2>1. CASE turned[t]
    <3>1. src_is_rev[t] /\ a = p /\ p >= 2
      BY <1>1, <1>2, <2>1 DEF Kept
    <3>2. PICK b \in Nat : b = p - 1 /\ b <= m - 1
      BY <1>2, <3>1
    <3>3. Low(t) = b
      BY <1>2, <3>1, <3>2 DEF Low
    <3>4. reservations[Zoned(route[t], b)] = t
      <4>1. b <= b /\ b \in b .. next[t] - 1
        BY <1>2, <3>2
      <4> QED
        BY <1>1, <3>3, <4>1, KeptOn
    <3>5. Pos(t) = ZoneOf[route[t][p]]
      BY <1>2, <2>1, <3>1 DEF Pos
    <3>6. ZoneOf[route[t][p]] = Zoned(route[t], b)
      <4>1. at[t] <= Len(route[t]) /\ Len(route[t]) \in Nat
        BY <1>1, LegBounds, Bounds
      <4>2. p \in 2 .. Len(route[t])
        BY <1>2, <3>1, <4>1
      <4> QED
        BY <1>1, <3>2, <4>2, WayZones DEF InOrder
    <3> QED
      BY <3>4, <3>5, <3>6
  <2>2. CASE ~turned[t]
    <3>1. Pos(t) = Zoned(route[t], a) /\ a \in a .. k
      BY <1>2, <2>2 DEF Pos, Zoned
    <3> QED
      BY <1>4, <3>1
  <2> QED
    BY <2>1, <2>2
<1> QED
  BY <1>2, <1>4, <1>5 DEF Zoned

\* A train whose task waits or is gone keeps no zone but its own.
LEMMA AtRest ==
    ASSUME IInv
    PROVE  OneZoneAtRest
<1> SUFFICES ASSUME NEW t \in Train, pc[t] \in {"idle", "plan", "wait", "waiting"},
                    NEW z \in Zone, reservations[z] = t
             PROVE  z = Zoned(route[t], at[t])
  BY DEF OneZoneAtRest, Held, Zoned
<1>1. InOrder(t) /\ Phased(t) /\ Resting(t)
  BY DEF IInv
<1>2. at[t] = lo[t]
  BY <1>1 DEF Phased
<1>3. lo[t] = target[t]
  <2>1. CASE pc[t] \in {"idle", "plan"}
    <3>1. Len(route[t]) = 1
      BY <1>1, <2>1 DEF Phased
    <3>2. /\ lo[t] \in Nat /\ target[t] \in Nat /\ 1 <= lo[t] /\ lo[t] <= target[t]
          /\ target[t] <= Len(route[t])
      BY <1>1, StopProperties
    <3> QED
      BY <3>1, <3>2
  <2>2. CASE pc[t] \in {"wait", "waiting"}
    BY <1>1, <2>2 DEF Phased
  <2> QED
    BY <2>1, <2>2
<1>4. PICK i \in lo[t] .. next[t] - 1 : z = Zoned(route[t], i)
  BY <1>1 DEF Resting
<1> QED
  BY <1>1, <1>2, <1>3, <1>4, OneZone

\* Every variable has its type.
LEMMA Types ==
    ASSUME IInv
    PROVE  TypeOK
<1>1. Typed /\ \A t \in Train : InOrder(t) /\ Phased(t)
  BY DEF IInv
<1>2. ASSUME NEW t \in Train PROVE deadlocks[t] \in 0 .. MaxDeadlocks + 1
  <2>1. deadlocks[t] \in Nat /\ deadlocks[t] <= MaxDeadlocks + 1
    BY <1>1 DEF Typed, Phased, MaxDeadlocks
  <2> QED
    BY <2>1 DEF MaxDeadlocks
<1>3. ASSUME NEW t \in Train
      PROVE  /\ next[t] \in 2 .. Len(route[t]) + 1
             /\ target[t] \in 1 .. next[t] - 1
             /\ at[t] \in 1 .. target[t]
             /\ lo[t] \in 1 .. at[t]
             /\ cutoff[t] \in lo[t] + 1 .. target[t] + 1
             /\ seen[t] \in lo[t] .. target[t]
  BY <1>1 DEF InOrder
<1> QED
  BY <1>1, <1>2, <1>3 DEF TypeOK, Typed

\* A train that has not slipped has reserved the zone it is in
\* and every zone up to the place it may drive to, however the tasks reserve, count down and
\* give back their zones meanwhile (PatherComplexPath, PatherSimplePath and PathFinderTask of
\* src/user/pathfinder-server/server.c).
THEOREM Interlocked == Spec => []Interlock
<1>1. Init => IInv
  BY Initially
<1>2. IInv /\ [Next]_vars => IInv'
  BY Steps
<1>3. IInv => Interlock
  BY KeptInterlock
<1> QED
  BY <1>1, <1>2, <1>3, PTL DEF Spec

\* Every variable has its type, the places of a route are in
\* order, a train that has stopped, at its destination or to wait, keeps no zone but the
\* one before it (zone_unreserve_all_except in src/user/pathfinder-server/server.c), and the
\* search finds the shortest ways.
THEOREM Orderly == Spec => []PathInv
<1>1. Init => IInv
  BY Initially
<1>2. IInv /\ [Next]_vars => IInv'
  BY Steps
<1>3. IInv => PathInv
  BY Types, AtRest, FindsShortestWays DEF PathInv
<1> QED
  BY <1>1, <1>2, <1>3, PTL DEF Spec
=============================================================================
