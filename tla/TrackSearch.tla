----------------------------- MODULE TrackSearch -----------------------------
(***************************************************************************)
(* The track and the search for a way on it: do_djikstra and do_edge_trace *)
(* of src/user/pathfinder-server/helpers.c.                                *)
(*                                                                         *)
(* A node is a place on the track and a direction.  Its zone lies behind   *)
(* it, and that of the node for the other direction, which a train enters  *)
(* there, before it; those of a switch are the same.                       *)
(***************************************************************************)
EXTENDS Integers, Sequences, FiniteSets

CONSTANTS
    Zone,
    Node,      \* natural numbers: the places of the nodes in the track array
    Sensor,    \* the nodes that are sensors; the others are switches and exits
    Num,       \* the number of a sensor or a switch
    Reverse,   \* the node for the other direction
    Leads,     \* the edges from a node, [to, dist]: two of a branch, none of an exit
    ZoneOf     \* the zone of a node

Into(n) == ZoneOf[Reverse[n]]

\* The edges the search may take: at a sensor a train may turn.
Edges(n) == Leads[n] \o IF n \in Sensor THEN <<[to |-> Reverse[n], dist |-> 0]>> ELSE <<>>

Ahead(n) == {Leads[n][i].to : i \in 1 .. Len(Leads[n])}

\* A track can be passed either way, and one zone ends where the next begins, but at the
\* ends of the track, which are in no zone.
ASSUME TrackAssumption ==
    /\ Node \subseteq Nat /\ IsFiniteSet(Node) /\ Sensor \subseteq Node
    /\ Num \in [Node -> Nat] /\ \A m, n \in Sensor : Num[m] = Num[n] => m = n
    /\ Reverse \in [Node -> Node] /\ \A n \in Node : Reverse[Reverse[n]] = n /\ Reverse[n] # n
    /\ \A n \in Sensor : Reverse[n] \in Sensor
    /\ Leads \in [Node -> Seq([to : Node, dist : Nat])]
    /\ \A n \in Node : \A m \in Ahead(n) : m # Reverse[n] /\ Reverse[n] \in Ahead(Reverse[m])
    /\ ZoneOf \in [Node -> Zone] /\ \A n \in Node \ Sensor : Into(n) = ZoneOf[n]
    /\ \A n \in Node : \A m \in Ahead(n) :
          Into(n) = ZoneOf[m] \/ Edges(m) = <<>> \/ Edges(Reverse[n]) = <<>>

Unseen == 2147483647    \* INF

\* No way, along as many edges as there are nodes, is as long as what stands for a node not seen.
ASSUME LengthAssumption ==
    \A n \in Node : \A i \in 1 .. Len(Leads[n]) : Leads[n][i].dist * Cardinality(Node) < Unseen

Unvisited(s) == {n \in Node : s.dist[n] # Unseen} \ s.visited

\* Mutant of Nearest: the first of the nodes.
NearestFirst(s) == CHOOSE n \in Unvisited(s) : \A m \in Unvisited(s) : n <= m

\* Among equally near nodes the last one is taken.
Nearest(s) ==
    CHOOSE n \in Unvisited(s) : \A m \in Unvisited(s) :
        s.dist[n] < s.dist[m] \/ (s.dist[n] = s.dist[m] /\ n >= m)

Relax(s, n, edge) ==
    IF s.dist[n] + edge.dist < s.dist[edge.to]
    THEN [s EXCEPT !.dist[edge.to] = s.dist[n] + edge.dist, !.prev[edge.to] = n]
    ELSE s

\* All edges from n, one after the other.
Relaxed(s, n) ==
    LET after[i \in 0 .. Len(Edges(n))] ==
            IF i = 0 THEN s ELSE Relax(after[i - 1], n, Edges(n)[i])
    IN  after[Len(Edges(n))]

\* One round: a destination, in either direction, ends the search; a node before a zone in
\* "avoid", where another train has been seen, leads nowhere.
Visit(s, dest, avoid) ==
    LET n == Nearest(s)
        visited == [s EXCEPT !.visited = @ \cup {n}]
    IN  IF n \in {dest, Reverse[dest]} THEN [visited EXCEPT !.found = {n}]
        ELSE IF Into(n) \in avoid THEN visited
        ELSE Relaxed(visited, n)

Unsearched(src) ==
    [dist |-> [n \in Node |-> IF n = src THEN 0 ELSE Unseen],
     prev |-> [n \in Node |-> src], visited |-> {}, found |-> {}]

Round(s, dest, avoid) ==
    IF s.found # {} \/ Unvisited(s) = {} THEN s ELSE Visit(s, dest, avoid)

\* As many rounds as there are nodes: each visits another one.
Searched(src, dest, avoid) ==
    LET after[i \in 0 .. Cardinality(Node)] ==
            IF i = 0 THEN Unsearched(src) ELSE Round(after[i - 1], dest, avoid)
    IN  after[Cardinality(Node)]

\* do_edge_trace: the nodes from the destination back to src, and then the other way round.
Traced(s, src) ==
    LET back[i \in 0 .. Cardinality(Node)] ==
            IF i = 0 THEN CHOOSE n \in s.found : TRUE ELSE s.prev[back[i - 1]]
        Begins(i) == back[i] = src
        edges == CHOOSE i \in 0 .. Cardinality(Node) :
                     Begins(i) /\ \A j \in 0 .. i - 1 : ~Begins(j)
    IN  [i \in 1 .. edges + 1 |-> back[edges + 1 - i]]

\* The way from src to dest, or <<>> when there is none.
do_djikstra(src, dest, avoid) ==
    LET s == Searched(src, dest, avoid)
    IN  IF s.found = {} THEN <<>> ELSE Traced(s, src)

-----------------------------------------------------------------------------
(* What a way is, and how long. *)

Step(n, m) ==
    LET dists == {Edges(n)[i].dist : i \in {j \in 1 .. Len(Edges(n)) : Edges(n)[j].to = m}}
    IN  CHOOSE d \in dists : \A e \in dists : d <= e

\* The distance between two places of a path.
Distance(path, i, j) ==
    LET upto[k \in 0 .. j - i] ==
            IF k = 0 THEN 0 ELSE upto[k - 1] + Step(path[i + k - 1], path[i + k])
    IN  upto[j - i]

Turns(path, i) == i > 1 /\ path[i] = Reverse[path[i - 1]]

Joined(n) == {Edges(n)[i].to : i \in 1 .. Len(Edges(n))}

\* Reference for the search: the nodes reached from src, each with its distance, at first
\* along no edge, then along one edge more, not going on from a node before a zone to avoid.
Further(reached, avoid) ==
    LET steps == {<<p[1], p[2], m>> : p \in {q \in reached : Into(q[1]) \notin avoid}, m \in Node}
        more  == reached \cup {<<s[3], s[2] + Step(s[1], s[3])>> :
                                   s \in {s \in steps : s[3] \in Joined(s[1])}}
    IN  {p \in more : \A q \in more : q[1] = p[1] => p[2] <= q[2]}

Least(src, avoid) ==
    LET reached[i \in 0 .. Cardinality(Node)] ==
            IF i = 0 THEN {<<src, 0>>} ELSE Further(reached[i - 1], avoid)
    IN  reached[Cardinality(Node)]

\* A way found is a way, passes no node twice and not the zones to avoid, and none is
\* shorter; none is found only when there is none.
WayFound(path, src, dest, avoid) ==
    LET ends == {p \in Least(src, avoid) : p[1] \in {dest, Reverse[dest]}}
    IN  IF path = <<>> THEN ends = {}
        ELSE /\ path \in Seq(Node) /\ \A i, j \in 1 .. Len(path) : path[i] = path[j] => i = j
             /\ path[1] = src /\ path[Len(path)] \in {dest, Reverse[dest]}
             /\ \A i \in 1 .. Len(path) - 1 : /\ path[i + 1] \in Joined(path[i])
                                              /\ Into(path[i]) \notin avoid
             /\ \A p \in ends : Distance(path, 1, Len(path)) <= p[2]
=============================================================================
