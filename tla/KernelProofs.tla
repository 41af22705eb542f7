---------------------------- MODULE KernelProofs ----------------------------
(***************************************************************************)
(* Theorems about Kernel, for every number of tasks, levels and events and *)
(* every choice of the programs' calls.                                    *)
(***************************************************************************)
EXTENDS Kernel, SequenceTheorems, TLAPS

-----------------------------------------------------------------------------
(* The scheduler's lists. *)

\* Moving k nodes to the tail of a list loses none and duplicates none.
LEMMA RotateProperties ==
    ASSUME NEW S, NEW q \in Seq(S), NEW k \in 1 .. Len(q)
    PROVE  /\ Rotate(q, k) \in Seq(S)
           /\ Len(Rotate(q, k)) = Len(q)
           /\ \A i \in 1 .. Len(q) :
                 Rotate(q, k)[i] = IF i <= Len(q) - k THEN q[i + k] ELSE q[i + k - Len(q)]
<1> DEFINE a == SubSeq(q, k + 1, Len(q))
           b == SubSeq(q, 1, k)
<1>1. Len(q) \in Nat /\ k \in 1 .. Len(q) /\ \A i \in 1 .. Len(q) : q[i] \in S
  BY LenProperties, ElementOfSeq
<1>2. /\ a \in Seq(S) /\ Len(a) = Len(q) - k
      /\ \A i \in 1 .. Len(q) - k : a[i] = q[i + k]
  <2>1. \A i \in k + 1 .. Len(q) : q[i] \in S
    BY <1>1
  <2>2. /\ a \in Seq(S)
        /\ Len(a) = IF k + 1 <= Len(q) THEN Len(q) - (k + 1) + 1 ELSE 0
        /\ \A i \in 1 .. Len(q) - (k + 1) + 1 : a[i] = q[(k + 1) + i - 1]
    BY <1>1, <2>1, SubSeqProperties
  <2> QED
    BY <1>1, <2>2
<1>3. b \in Seq(S) /\ Len(b) = k /\ \A i \in 1 .. k : b[i] = q[i]
  <2>1. \A i \in 1 .. k : q[i] \in S
    BY <1>1
  <2>2. /\ b \in Seq(S)
        /\ Len(b) = IF 1 <= k THEN k - 1 + 1 ELSE 0
        /\ \A i \in 1 .. k - 1 + 1 : b[i] = q[1 + i - 1]
    BY <1>1, <2>1, SubSeqProperties
  <2> QED
    BY <1>1, <2>2
<1>4. /\ a \o b \in Seq(S) /\ Len(a \o b) = Len(q)
      /\ \A i \in 1 .. Len(q) :
            (a \o b)[i] = IF i <= Len(a) THEN a[i] ELSE b[i - Len(a)]
  <2> HIDE DEF a, b
  <2>1. /\ a \o b \in Seq(S)
        /\ Len(a \o b) = Len(a) + Len(b)
        /\ \A i \in 1 .. Len(a) + Len(b) :
              (a \o b)[i] = IF i <= Len(a) THEN a[i] ELSE b[i - Len(a)]
    BY <1>2, <1>3, ConcatProperties
  <2> QED
    BY <1>1, <1>2, <1>3, <2>1
<1>5. Rotate(q, k) = a \o b
  BY DEF Rotate
<1> HIDE DEF a, b
<1> QED
  BY <1>1, <1>2, <1>3, <1>4, <1>5

\* Unlinking a node leaves the others, in their order.
LEMMA CutProperties ==
    ASSUME NEW S, NEW q \in Seq(S), NEW at \in 1 .. Len(q)
    PROVE  /\ CutAt(q, at) \in Seq(S)
           /\ Len(CutAt(q, at)) = Len(q) - 1
           /\ \A i \in 1 .. Len(q) - 1 :
                 CutAt(q, at)[i] = IF i < at THEN q[i] ELSE q[i + 1]
<1> DEFINE a == SubSeq(q, 1, at - 1)
           b == SubSeq(q, at + 1, Len(q))
<1>1. /\ a \in Seq(S) /\ Len(a) = at - 1 /\ \A i \in 1 .. at - 1 : a[i] = q[i]
      /\ b \in Seq(S) /\ Len(b) = Len(q) - at /\ \A i \in 1 .. Len(q) - at : b[i] = q[i + at]
  BY LenProperties, ElementOfSeq
<1>2. CutAt(q, at) = a \o b
  BY DEF CutAt
<1> HIDE DEF a, b
<1>3. Len(q) \in Nat /\ Len(a) + Len(b) = Len(q) - 1
  BY <1>1, LenProperties
<1>4. /\ a \o b \in Seq(S) /\ Len(a \o b) = Len(a) + Len(b)
      /\ \A i \in 1 .. Len(a) + Len(b) :
            (a \o b)[i] = IF i <= Len(a) THEN a[i] ELSE b[i - Len(a)]
  BY <1>1, ConcatProperties
<1>5. ASSUME NEW i \in 1 .. Len(q) - 1
      PROVE  (a \o b)[i] = IF i < at THEN q[i] ELSE q[i + 1]
  <2>1. (a \o b)[i] = IF i < at THEN a[i] ELSE b[i - (at - 1)]
    BY <1>1, <1>3, <1>4
  <2>2. i < at => i \in 1 .. at - 1 /\ a[i] = q[i]
    BY <1>1
  <2>3. ~(i < at) => i - (at - 1) \in 1 .. Len(q) - at /\ (i - (at - 1)) + at = i + 1
    BY <1>3
  <2> QED
    BY <1>1, <2>1, <2>2, <2>3
<1> QED
  BY <1>2, <1>3, <1>4, <1>5

\* RunQueues of statuses st, priorities pr and lists q.
Queued(st, pr, q) ==
    /\ \A l \in Levels : \A i \in 1 .. Len(q[l]) :
          /\ st[q[l][i]] # "NONE"
          /\ pr[q[l][i]] = l
          /\ \A j \in 1 .. Len(q[l]) : q[l][i] = q[l][j] => i = j
    /\ \A t \in Tid : st[t] # "NONE" =>
          \E i \in 1 .. Len(q[pr[t]]) : q[pr[t]][i] = t

\* Rotating the list of one level keeps every task queued once.
LEMMA RotateQueued ==
    ASSUME NEW st, NEW pr \in [Tid -> Levels], NEW q \in [Levels -> Seq(Tid)],
           NEW l \in Levels, NEW k \in 1 .. Len(q[l]), Queued(st, pr, q),
           NEW r, r = [q EXCEPT ![l] = Rotate(@, k)]
    PROVE  r \in [Levels -> Seq(Tid)] /\ Queued(st, pr, r)
<1> DEFINE n == Len(q[l])
           w == Rotate(q[l], k)
           from(i) == IF i <= n - k THEN i + k ELSE i + k - n
           to(i)   == IF i <= k THEN i + n - k ELSE i - k
<1>1. q[l] \in Seq(Tid) /\ n \in Nat /\ k \in 1 .. n
  BY LenProperties
<1>2. w \in Seq(Tid) /\ Len(w) = n /\ \A i \in 1 .. n : w[i] = q[l][from(i)]
  BY <1>1, RotateProperties
<1>3. /\ r \in [Levels -> Seq(Tid)]
      /\ r[l] = w
      /\ \A h \in Levels : h # l => r[h] = q[h]
  BY <1>2
<1>4. \A i \in 1 .. n : from(i) \in 1 .. n /\ to(i) \in 1 .. n /\ from(to(i)) = i
  BY <1>1
<1>5. \A i, j \in 1 .. n : from(i) = from(j) => i = j
  BY <1>1
<1> HIDE DEF w, n, from, to
<1>6. ASSUME NEW h \in Levels, NEW i \in 1 .. Len(r[h])
      PROVE  /\ st[r[h][i]] # "NONE"
             /\ pr[r[h][i]] = h
             /\ \A j \in 1 .. Len(r[h]) : r[h][i] = r[h][j] => i = j
  <2>1. CASE h # l
    BY <1>3, <1>6, <2>1 DEF Queued
  <2>2. CASE h = l
    <3>1. i \in 1 .. n /\ r[h][i] = q[l][from(i)] /\ from(i) \in 1 .. n
      BY <1>2, <1>3, <1>4, <1>6, <2>2
    <3>2. st[q[l][from(i)]] # "NONE" /\ pr[q[l][from(i)]] = l
      BY <3>1 DEF Queued, n
    <3>3. ASSUME NEW j \in 1 .. Len(r[h]), r[h][i] = r[h][j]
          PROVE  i = j
      <4>1. j \in 1 .. n /\ r[h][j] = q[l][from(j)] /\ from(j) \in 1 .. n
        BY <1>2, <1>3, <1>4, <2>2
      <4>2. \A x, y \in 1 .. n : q[l][x] = q[l][y] => x = y
        BY DEF Queued, n
      <4>3. q[l][from(i)] = q[l][from(j)]
        BY <3>1, <3>3, <4>1
      <4>4. from(i) = from(j)
        BY <3>1, <4>1, <4>2, <4>3
      <4> QED
        BY <1>5, <3>1, <4>1, <4>4
    <3> QED
      BY <2>2, <3>1, <3>2, <3>3
  <2> QED
    BY <2>1, <2>2
<1>7. ASSUME NEW t \in Tid, st[t] # "NONE"
      PROVE  \E i \in 1 .. Len(r[pr[t]]) : r[pr[t]][i] = t
  <2>1. PICK i \in 1 .. Len(q[pr[t]]) : q[pr[t]][i] = t
    BY <1>7 DEF Queued
  <2>2. CASE pr[t] # l
    BY <1>3, <2>1, <2>2
  <2>3. CASE pr[t] = l
    <3>1. i \in 1 .. n
      BY <2>1, <2>3 DEF n
    <3>2. to(i) \in 1 .. Len(r[pr[t]]) /\ r[pr[t]][to(i)] = q[l][from(to(i))]
      BY <1>2, <1>3, <1>4, <2>3, <3>1
    <3> QED
      BY <1>4, <2>1, <2>3, <3>1, <3>2
  <2> QED
    BY <2>2, <2>3
<1> QED
  BY <1>3, <1>6, <1>7 DEF Queued

\* A task's node is found in the lists, at the task's own level.
LEMMA FindNode ==
    ASSUME NEW st, NEW pr \in [Tid -> Levels], NEW q \in [Levels -> Seq(Tid)],
           NEW t \in Tid, st[t] # "NONE", Queued(st, pr, q)
    PROVE  /\ LevelOf(q, t) = pr[t]
           /\ LevelOf(q, t) \in Levels
           /\ PlaceOf(q, t) \in 1 .. Len(q[LevelOf(q, t)])
           /\ q[LevelOf(q, t)][PlaceOf(q, t)] = t
<1> DEFINE l == LevelOf(q, t)
<1>1. \E h \in Levels : \E i \in 1 .. Len(q[h]) : q[h][i] = t
  BY DEF Queued
<1>2. l \in Levels /\ \E i \in 1 .. Len(q[l]) : q[l][i] = t
  BY <1>1, Zenon DEF LevelOf
<1> HIDE DEF l
<1>3. PlaceOf(q, t) \in 1 .. Len(q[l]) /\ q[l][PlaceOf(q, t)] = t
  BY <1>2, Zenon DEF PlaceOf, l
<1>4. pr[q[l][PlaceOf(q, t)]] = l
  BY <1>2, <1>3 DEF Queued
<1> QED
  BY <1>2, <1>3, <1>4 DEF l

\* Unlinking a task that is deleted keeps every other task queued once.
LEMMA UnlinkQueued ==
    ASSUME NEW st, NEW pr \in [Tid -> Levels], NEW q \in [Levels -> Seq(Tid)],
           NEW t \in Tid, st[t] # "NONE", Queued(st, pr, q),
           NEW su, su[t] = "NONE",
           \A v \in Tid : v # t => (su[v] = "NONE" <=> st[v] = "NONE")
    PROVE  Unlink(q, t) \in [Levels -> Seq(Tid)] /\ Queued(su, pr, Unlink(q, t))
<1> DEFINE l  == LevelOf(q, t)
           at == PlaceOf(q, t)
           c  == CutAt(q[l], at)
           u  == Unlink(q, t)
           n  == Len(q[l])
<1>1. l = pr[t] /\ l \in Levels /\ at \in 1 .. n /\ q[l][at] = t
  BY FindNode
<1>2. u = [q EXCEPT ![l] = c]
  BY DEF Unlink
<1> HIDE DEF l, at, u
<1>3. q[l] \in Seq(Tid) /\ n \in Nat
  BY <1>1, LenProperties
<1>4. /\ c \in Seq(Tid) /\ Len(c) = n - 1
      /\ \A i \in 1 .. n - 1 : c[i] = IF i < at THEN q[l][i] ELSE q[l][i + 1]
  BY <1>1, <1>3, CutProperties
<1> HIDE DEF c
<1>5. u \in [Levels -> Seq(Tid)] /\ u[l] = c /\ \A h \in Levels : h # l => u[h] = q[h]
  BY <1>1, <1>2, <1>4
<1>6. \A x, y \in 1 .. n : q[l][x] = q[l][y] => x = y
  BY <1>1 DEF Queued
<1>7. \A h \in Levels : \A i \in 1 .. Len(q[h]) :
         /\ q[h][i] \in Tid /\ pr[q[h][i]] = h /\ st[q[h][i]] # "NONE"
  BY ElementOfSeq DEF Queued
<1>8. ASSUME NEW h \in Levels, NEW i \in 1 .. Len(u[h])
      PROVE  /\ su[u[h][i]] # "NONE"
             /\ pr[u[h][i]] = h
             /\ \A j \in 1 .. Len(u[h]) : u[h][i] = u[h][j] => i = j
  <2>1. CASE h # l
    <3>1. u[h] = q[h] /\ u[h][i] \in Tid /\ pr[u[h][i]] = h /\ st[u[h][i]] # "NONE"
      BY <1>5, <1>7, <2>1
    <3>2. u[h][i] # t
      BY <1>1, <2>1, <3>1
    <3>3. \A j \in 1 .. Len(u[h]) : u[h][i] = u[h][j] => i = j
      BY <3>1 DEF Queued
    <3> QED
      BY <3>1, <3>2, <3>3
  <2>2. CASE h = l
    <3> DEFINE at2(x) == IF x < at THEN x ELSE x + 1
    <3>1. \A x \in 1 .. n - 1 : at2(x) \in 1 .. n /\ at2(x) # at
      BY <1>1, <1>3
    <3>2. \A x, y \in 1 .. n - 1 : at2(x) = at2(y) => x = y
      BY <1>1, <1>3
    <3>3. Len(u[h]) = n - 1 /\ \A x \in 1 .. n - 1 : u[h][x] = q[l][at2(x)]
      BY <1>1, <1>3, <1>4, <1>5, <2>2
    <3> HIDE DEF at2
    <3>4. u[h][i] = q[l][at2(i)] /\ at2(i) \in 1 .. n /\ at2(i) # at
      BY <3>1, <3>3
    <3>5. u[h][i] \in Tid /\ pr[u[h][i]] = h /\ st[u[h][i]] # "NONE"
      BY <1>1, <1>7, <2>2, <3>4
    <3>6. u[h][i] # t
      BY <1>1, <1>6, <3>4
    <3>7. ASSUME NEW j \in 1 .. Len(u[h]), u[h][i] = u[h][j]
          PROVE  i = j
      <4>1. u[h][j] = q[l][at2(j)] /\ at2(j) \in 1 .. n /\ j \in 1 .. n - 1
        BY <3>1, <3>3
      <4>2. at2(i) = at2(j)
        BY <1>6, <3>4, <3>7, <4>1
      <4> QED
        BY <3>2, <3>3, <4>1, <4>2
    <3> QED
      BY <3>5, <3>6, <3>7
  <2> QED
    BY <2>1, <2>2
<1>9. ASSUME NEW v \in Tid, su[v] # "NONE"
      PROVE  \E i \in 1 .. Len(u[pr[v]]) : u[pr[v]][i] = v
  <2>1. v # t /\ st[v] # "NONE" /\ pr[v] \in Levels
    BY <1>9
  <2>2. PICK i \in 1 .. Len(q[pr[v]]) : q[pr[v]][i] = v
    BY <2>1 DEF Queued
  <2>3. CASE pr[v] # l
    BY <1>5, <2>1, <2>2, <2>3
  <2>4. CASE pr[v] = l
    <3>1. i \in 1 .. n /\ i # at
      BY <1>1, <2>1, <2>2, <2>4
    <3>2. CASE i < at
      <4>1. i \in 1 .. n - 1 /\ c[i] = v
        BY <1>1, <1>3, <1>4, <2>2, <2>4, <3>1, <3>2
      <4> QED
        BY <1>4, <1>5, <2>4, <4>1
    <3>3. CASE i > at
      <4>1. i - 1 \in 1 .. n - 1 /\ ~(i - 1 < at) /\ (i - 1) + 1 = i
        BY <1>1, <1>3, <3>1, <3>3
      <4>2. c[i - 1] = v
        BY <1>4, <2>2, <2>4, <4>1
      <4> QED
        BY <1>4, <1>5, <2>4, <4>1, <4>2
    <3> QED
      BY <1>1, <1>3, <3>1, <3>2, <3>3
  <2> QED
    BY <2>3, <2>4
<1> QED
  BY <1>5, <1>8, <1>9 DEF Queued, u

\* Appending a new task's node at its level.
LEMMA AppendQueued ==
    ASSUME NEW st \in [Tid -> Status], NEW pr \in [Tid -> Levels],
           NEW q \in [Levels -> Seq(Tid)],
           NEW t \in Tid, st[t] = "NONE", Queued(st, pr, q),
           NEW p \in Levels
    PROVE  /\ [q EXCEPT ![p] = Append(@, t)] \in [Levels -> Seq(Tid)]
           /\ Queued([st EXCEPT ![t] = "READY"], [pr EXCEPT ![t] = p],
                     [q EXCEPT ![p] = Append(@, t)])
<1> DEFINE n  == Len(q[p])
           su == [st EXCEPT ![t] = "READY"]
           pn == [pr EXCEPT ![t] = p]
           r  == [q EXCEPT ![p] = Append(@, t)]
<1>0. /\ su[t] # "NONE" /\ pn \in [Tid -> Levels] /\ pn[t] = p
      /\ \A v \in Tid : v # t => su[v] = st[v] /\ pn[v] = pr[v]
  OBVIOUS
<1>1. n \in Nat /\ q[p] \in Seq(Tid)
  BY LenProperties
<1>2. /\ Append(q[p], t) \in Seq(Tid) /\ Len(Append(q[p], t)) = n + 1
      /\ \A i \in 1 .. n : Append(q[p], t)[i] = q[p][i]
      /\ Append(q[p], t)[n + 1] = t
  BY <1>1, AppendProperties
<1>3. /\ r \in [Levels -> Seq(Tid)]
      /\ \A h \in Levels : h # p => r[h] = q[h]
      /\ Len(r[p]) = n + 1 /\ r[p][n + 1] = t
      /\ \A i \in 1 .. n : r[p][i] = q[p][i]
  BY <1>2
<1> HIDE DEF su, pn, r, n
<1>4. \A h \in Levels : \A i \in 1 .. Len(q[h]) :
         /\ q[h][i] \in Tid /\ q[h][i] # t /\ pr[q[h][i]] = h
         /\ st[q[h][i]] # "NONE"
         /\ \A j \in 1 .. Len(q[h]) : q[h][i] = q[h][j] => i = j
  BY ElementOfSeq DEF Queued
<1>a. \A j \in 1 .. n + 1 : j \in 1 .. n \/ j = n + 1
  BY <1>1
<1>5. ASSUME NEW h \in Levels, NEW i \in 1 .. Len(r[h])
      PROVE  /\ su[r[h][i]] # "NONE"
             /\ pn[r[h][i]] = h
             /\ \A j \in 1 .. Len(r[h]) : r[h][i] = r[h][j] => i = j
  <2>1. CASE h # p
    <3>1. r[h] = q[h]
      BY <1>3, <2>1
    <3>2. q[h][i] \in Tid /\ q[h][i] # t /\ pr[q[h][i]] = h /\ st[q[h][i]] # "NONE"
      BY <1>4, <1>5, <3>1
    <3>3. \A j \in 1 .. Len(q[h]) : q[h][i] = q[h][j] => i = j
      BY <1>4, <1>5, <3>1
    <3> QED
      BY <1>0, <3>1, <3>2, <3>3
  <2>2. CASE h = p
    <3>1. /\ i \in 1 .. n \/ i = n + 1
          /\ \A j \in 1 .. Len(r[h]) : j \in 1 .. n \/ j = n + 1
      BY <1>3, <1>5, <1>a, <2>2
    <3>2. CASE i = n + 1
      <4>1. \A j \in 1 .. n : r[h][j] # t
        <5>1. \A j \in 1 .. n : q[p][j] # t
          BY <1>4 DEF n
        <5> QED
          BY <1>3, <2>2, <5>1
      <4>2. r[h][i] = t
        BY <1>3, <2>2, <3>2
      <4> QED
        BY <1>0, <2>2, <3>1, <3>2, <4>1, <4>2
    <3>3. CASE i \in 1 .. n
      <4>1. r[h][i] = q[p][i] /\ q[p][i] # t /\ q[p][i] \in Tid
        BY <1>3, <1>4, <2>2, <3>3 DEF n
      <4>2. \A j \in 1 .. n : r[h][j] = q[p][j] /\ (q[p][i] = q[p][j] => i = j)
        BY <1>3, <1>4, <2>2, <3>3 DEF n
      <4>3. r[h][n + 1] = t
        BY <1>3, <2>2
      <4>4. \A j \in 1 .. Len(r[h]) : r[h][i] = r[h][j] => i = j
        BY <3>1, <4>1, <4>2, <4>3
      <4>5. pr[q[p][i]] = p /\ st[q[p][i]] # "NONE"
        BY <1>4, <3>3 DEF n
      <4> QED
        BY <1>0, <2>2, <4>1, <4>4, <4>5
    <3> QED
      BY <3>1, <3>2, <3>3
  <2> QED
    BY <2>1, <2>2
<1>6. ASSUME NEW v \in Tid, su[v] # "NONE"
      PROVE  \E i \in 1 .. Len(r[pn[v]]) : r[pn[v]][i] = v
  <2>1. CASE v = t
    <3>1. n + 1 \in 1 .. Len(r[pn[v]]) /\ r[pn[v]][n + 1] = v
      BY <1>0, <1>1, <1>3, <2>1
    <3> QED
      BY <3>1
  <2>2. CASE v # t
    <3>1. pn[v] = pr[v] /\ pr[v] \in Levels /\ st[v] # "NONE"
      BY <1>0, <1>6, <2>2
    <3>2. PICK i \in 1 .. Len(q[pr[v]]) : q[pr[v]][i] = v
      BY <3>1 DEF Queued
    <3>3. CASE pr[v] = p
      <4>1. i \in 1 .. n /\ i \in 1 .. Len(r[pn[v]])
        BY <1>1, <1>3, <3>1, <3>2, <3>3 DEF n
      <4> QED
        BY <1>3, <3>1, <3>2, <3>3, <4>1
    <3>4. CASE pr[v] # p
      BY <1>3, <3>1, <3>2, <3>4
    <3> QED
      BY <3>3, <3>4
  <2> QED
    BY <2>1, <2>2
<1> QED
  BY <1>3, <1>5, <1>6 DEF Queued, su, pn, r

-----------------------------------------------------------------------------
(* The dispatch. *)

\* HighestRuns of statuses st, priorities pr and running task c.
Highest(st, pr, c) ==
    /\ c # NoTask => /\ st[c] = "RUNNING"
                     /\ \A t \in Tid : st[t] \in Ready => pr[c] <= pr[t]
    /\ c = NoTask => \A t \in Tid : st[t] \notin Ready

\* Whatever a call has done to the statuses and the lists, the dispatch that
\* follows keeps every task queued, runs the right one, and changes no status but
\* that one's.
LEMMA DispatchLemma ==
    ASSUME NEW st \in [Tid -> Status], NEW pr \in [Tid -> Levels],
           NEW q \in [Levels -> Seq(Tid)], Queued(st, pr, q), Dispatch(st, q)
    PROVE  /\ status' \in [Tid -> Status]
           /\ mlfq' \in [Levels -> Seq(Tid)]
           /\ current' \in Tid \cup {NoTask}
           /\ Queued(status', pr, mlfq')
           /\ Highest(status', pr, current')
           /\ \A t \in Tid : \/ status'[t] = st[t]
                             \/ st[t] \in Ready /\ status'[t] = "RUNNING"
<1>1. CASE \E l \in Levels : \E k \in 1 .. Len(q[l]) :
             /\ FirstRunnable(st, q, l, k)
             /\ mlfq' = [q EXCEPT ![l] = Rotate(@, k)]
             /\ status' = [st EXCEPT ![q[l][k]] = "RUNNING"]
             /\ current' = q[l][k]
  <2>a. PICK l \in Levels : \E k \in 1 .. Len(q[l]) :
             /\ FirstRunnable(st, q, l, k)
             /\ mlfq' = [q EXCEPT ![l] = Rotate(@, k)]
             /\ status' = [st EXCEPT ![q[l][k]] = "RUNNING"]
             /\ current' = q[l][k]
    BY <1>1
  <2>1. PICK k \in 1 .. Len(q[l]) :
             /\ FirstRunnable(st, q, l, k)
             /\ mlfq' = [q EXCEPT ![l] = Rotate(@, k)]
             /\ status' = [st EXCEPT ![q[l][k]] = "RUNNING"]
             /\ current' = q[l][k]
    BY <2>a
  <2>2. mlfq' \in [Levels -> Seq(Tid)] /\ Queued(st, pr, mlfq')
    BY <2>1, RotateQueued
  <2>3. q[l][k] \in Tid /\ st[q[l][k]] \in Ready /\ pr[q[l][k]] = l
    BY <2>1, ElementOfSeq DEF FirstRunnable, Queued
  <2>4. /\ status' \in [Tid -> Status]
        /\ \A t \in Tid : status'[t] = IF t = q[l][k] THEN "RUNNING" ELSE st[t]
    BY <2>1, <2>3 DEF Status, Ready
  <2>5. \A t \in Tid : (status'[t] # "NONE") <=> (st[t] # "NONE")
    BY <2>3, <2>4 DEF Ready
  <2>6. Queued(status', pr, mlfq')
    <3>1. \A h \in Levels : \A i \in 1 .. Len(mlfq'[h]) : mlfq'[h][i] \in Tid
      BY <2>2, ElementOfSeq
    <3> QED
      BY <2>2, <2>5, <3>1 DEF Queued
  <2>7. \A t \in Tid : status'[t] \in Ready => pr[current'] <= pr[t]
    <3> SUFFICES ASSUME NEW t \in Tid, status'[t] \in Ready
                 PROVE  l <= pr[t]
      BY <2>1, <2>3
    <3>1. st[t] \in Ready /\ st[t] # "NONE"
      BY <2>3, <2>4 DEF Ready
    <3>2. PICK i \in 1 .. Len(q[pr[t]]) : q[pr[t]][i] = t
      BY <3>1 DEF Queued
    <3>3. pr[t] \notin 0 .. l - 1
      BY <2>1, <3>1, <3>2 DEF FirstRunnable
    <3> QED
      BY <3>3, KernelAssumption DEF Levels
  <2>8. current' \in Tid /\ current' # NoTask /\ status'[current'] = "RUNNING"
    BY <2>1, <2>3, <2>4, KernelAssumption DEF Tid, NoTask
  <2> QED
    BY <2>2, <2>3, <2>4, <2>6, <2>7, <2>8 DEF Highest
<1>2. CASE /\ \A l \in Levels : \A k \in 1 .. Len(q[l]) : st[q[l][k]] \notin Ready
           /\ mlfq' = q
           /\ status' = st
           /\ current' = NoTask
  <2>1. \A t \in Tid : st[t] \notin Ready
    <3> SUFFICES ASSUME NEW t \in Tid, st[t] \in Ready
                 PROVE  FALSE
      OBVIOUS
    <3>1. PICK i \in 1 .. Len(q[pr[t]]) : q[pr[t]][i] = t
      BY DEF Queued, Ready
    <3> QED
      BY <1>2, <3>1
  <2> QED
    BY <1>2, <2>1 DEF Highest
<1> QED
  BY <1>1, <1>2 DEF Dispatch

-----------------------------------------------------------------------------
(* The scheduling invariant. *)

\* The slots above next_tid have never been used.
Unborn == \A t \in Tid : t >= nextTid => status[t] = "NONE"

SchedInv == TypeOK /\ RunQueues /\ HighestRuns /\ Unborn

\* The part of SchedInv that the dispatch establishes.
Scheduled ==
    /\ status \in [Tid -> Status]
    /\ mlfq \in [Levels -> Seq(Tid)]
    /\ current \in Tid \cup {NoTask}
    /\ RunQueues
    /\ HighestRuns
    /\ Unborn

\* The dispatch of a call that neither creates nor deletes a task.
LEMMA DispatchSameTasks ==
    ASSUME SchedInv, NEW st \in [Tid -> Status],
           \A t \in Tid : (st[t] = "NONE") <=> (status[t] = "NONE"),
           Dispatch(st, mlfq), UNCHANGED tables
    PROVE  Scheduled'
<1>1. Queued(st, pri, mlfq)
  <2>1. \A l \in Levels : \A i \in 1 .. Len(mlfq[l]) : mlfq[l][i] \in Tid
    BY ElementOfSeq DEF SchedInv, TypeOK
  <2> QED
    BY <2>1 DEF SchedInv, TypeOK, RunQueues, Queued
<1>2. /\ status' \in [Tid -> Status]
      /\ mlfq' \in [Levels -> Seq(Tid)]
      /\ current' \in Tid \cup {NoTask}
      /\ Queued(status', pri, mlfq')
      /\ Highest(status', pri, current')
      /\ \A t \in Tid : status'[t] = st[t] \/ (st[t] \in Ready /\ status'[t] = "RUNNING")
  BY <1>1, DispatchLemma DEF SchedInv, TypeOK
<1>3. Unborn'
  BY <1>2 DEF SchedInv, Unborn, tables, Ready
<1> QED
  BY <1>2, <1>3 DEF Scheduled, RunQueues, Queued, HighestRuns, Highest, tables

LEMMA SchedInit == Init => SchedInv
<1> SUFFICES ASSUME Init PROVE SchedInv
  OBVIOUS
<1>1. /\ IdleTid \in Tid /\ InitTid \in Tid /\ IdleTid # InitTid
      /\ BootLevel \in Levels /\ NumLevels - 1 \in Levels /\ BootLevel # NumLevels - 1
      /\ 3 \in 3 .. MaxTid + 1
      /\ InitTid # NoTask
  BY KernelAssumption DEF Tid, Levels, IdleTid, InitTid, NoTask
<1>2. <<InitTid>> \in Seq(Tid) /\ <<IdleTid>> \in Seq(Tid) /\ <<>> \in Seq(Tid)
  BY <1>1
<1>3. /\ mlfq \in [Levels -> Seq(Tid)]
      /\ mlfq[BootLevel] = <<InitTid>> /\ mlfq[NumLevels - 1] = <<IdleTid>>
      /\ \A l \in Levels : l # BootLevel /\ l # NumLevels - 1 => mlfq[l] = <<>>
  BY <1>1, <1>2 DEF Init
<1>4. /\ status \in [Tid -> Status]
      /\ status[IdleTid] = "READY" /\ status[InitTid] = "RUNNING"
      /\ \A t \in Tid : t # IdleTid /\ t # InitTid => status[t] = "NONE"
  BY <1>1 DEF Init, Status, Ready, Waits
<1>5. /\ pri \in [Tid -> Levels]
      /\ pri[IdleTid] = NumLevels - 1 /\ pri[InitTid] = BootLevel
  BY <1>1 DEF Init
<1>6. TypeOK
  <2>1. listeners \in [Tid -> Seq(Tid)]
    BY <1>2 DEF Init
  <2>2. /\ eventWait \in [Tid -> Event \cup {"NONE"}]
        /\ sendState \in [Tid -> BOOLEAN] /\ receiveState \in [Tid -> BOOLEAN]
        /\ sender \in [Tid -> Tid \cup {NoTask}]
        /\ wild \in BOOLEAN
    BY DEF Init
  <2>3. nextTid \in 3 .. MaxTid + 1 /\ current \in Tid \cup {NoTask}
    BY <1>1 DEF Init, InitTid
  <2> QED
    BY <1>3, <1>4, <1>5, <2>1, <2>2, <2>3 DEF TypeOK
<1>7. RunQueues
  <2>1. ASSUME NEW l \in Levels, NEW i \in 1 .. Len(mlfq[l])
        PROVE  /\ status[mlfq[l][i]] # "NONE"
               /\ pri[mlfq[l][i]] = l
               /\ \A j \in 1 .. Len(mlfq[l]) : mlfq[l][i] = mlfq[l][j] => i = j
    <3>1. CASE l = BootLevel
      BY <1>1, <1>3, <1>4, <1>5, <2>1, <3>1
    <3>2. CASE l = NumLevels - 1
      BY <1>1, <1>3, <1>4, <1>5, <2>1, <3>2
    <3>3. CASE l # BootLevel /\ l # NumLevels - 1
      <4>1. Len(mlfq[l]) = 0
        BY <1>3, <3>3
      <4> QED
        BY <2>1, <4>1
    <3> QED
      BY <3>1, <3>2, <3>3
  <2>2. ASSUME NEW t \in Tid, status[t] # "NONE"
        PROVE  \E i \in 1 .. Len(mlfq[pri[t]]) : mlfq[pri[t]][i] = t
    <3>1. t = IdleTid \/ t = InitTid
      BY <1>4, <2>2
    <3>2. 1 \in 1 .. Len(mlfq[pri[t]]) /\ mlfq[pri[t]][1] = t
      BY <1>3, <1>5, <3>1
    <3> QED
      BY <3>2
  <2> QED
    BY <2>1, <2>2 DEF RunQueues
<1>8. HighestRuns
  <2>1. current = InitTid
    BY DEF Init
  <2>2. ASSUME NEW t \in Tid, status[t] \in Ready
        PROVE  pri[InitTid] <= pri[t]
    BY <1>4, <1>5, <2>2, KernelAssumption DEF Ready
  <2> QED
    BY <1>1, <1>4, <2>1, <2>2 DEF HighestRuns
<1>9. Unborn
  BY <1>4 DEF Init, Unborn, IdleTid, InitTid, Tid
<1> QED
  BY <1>6, <1>7, <1>8, <1>9 DEF SchedInv

\* The variables the dispatch leaves alone keep their types.
RestOK ==
    /\ nextTid \in 3 .. MaxTid + 1
    /\ pri \in [Tid -> Levels]
    /\ eventWait \in [Tid -> Event \cup {"NONE"}]
    /\ listeners \in [Tid -> Seq(Tid)]
    /\ sendState \in [Tid -> BOOLEAN]
    /\ receiveState \in [Tid -> BOOLEAN]
    /\ sender \in [Tid -> Tid \cup {NoTask}]
    /\ wild \in BOOLEAN

LEMMA SchedParts == SchedInv <=> Scheduled /\ RestOK
BY DEF SchedInv, TypeOK, Scheduled, RestOK

LEMMA RunningTask ==
    ASSUME SchedInv, NEW c, Invokes(c)
    PROVE  current \in Tid /\ status[current] = "RUNNING"
BY DEF SchedInv, TypeOK, HighestRuns, Invokes

LEMMA CreateStep ==
    ASSUME SchedInv, NEW p \in Levels, Create(p)
    PROVE  SchedInv'
<1> DEFINE st == [status EXCEPT ![nextTid] = "READY"]
           q  == [mlfq EXCEPT ![p] = Append(@, nextTid)]
<1>1. /\ nextTid \in Tid /\ nextTid' = nextTid + 1 /\ status[nextTid] = "NONE"
      /\ pri' = [pri EXCEPT ![nextTid] = p]
      /\ Dispatch(st, q)
  BY KernelAssumption DEF Create, CanCreate, SchedInv, TypeOK, Unborn, Tid
<1>2. /\ pri' \in [Tid -> Levels] /\ pri'[nextTid] = p
      /\ st \in [Tid -> Status] /\ st[nextTid] = "READY"
      /\ \A v \in Tid : v # nextTid => st[v] = status[v] /\ pri'[v] = pri[v]
  BY <1>1 DEF SchedInv, TypeOK, Status, Ready
<1>3. Queued(status, pri, mlfq)
  BY DEF SchedInv, RunQueues, Queued
<1>4. q \in [Levels -> Seq(Tid)] /\ Queued(st, pri', q)
  <2>1. /\ status \in [Tid -> Status] /\ pri \in [Tid -> Levels]
        /\ mlfq \in [Levels -> Seq(Tid)]
    BY DEF SchedInv, TypeOK
  <2> QED
    BY <1>1, <1>3, <2>1, AppendQueued
<1> HIDE DEF st, q
<1>5. /\ status' \in [Tid -> Status]
      /\ mlfq' \in [Levels -> Seq(Tid)]
      /\ current' \in Tid \cup {NoTask}
      /\ Queued(status', pri', mlfq')
      /\ Highest(status', pri', current')
      /\ \A t \in Tid : status'[t] = st[t] \/ (st[t] \in Ready /\ status'[t] = "RUNNING")
  BY <1>1, <1>2, <1>4, DispatchLemma
<1>6. Unborn'
  <2> SUFFICES ASSUME NEW t \in Tid, t >= nextTid + 1
               PROVE  status'[t] = "NONE"
    BY <1>1 DEF Unborn
  <2>1. t # nextTid /\ t >= nextTid
    BY <1>1 DEF Tid
  <2>2. st[t] = "NONE"
    BY <1>2, <2>1 DEF SchedInv, Unborn
  <2> QED
    BY <1>5, <2>2 DEF Ready
<1>7. RunQueues' /\ HighestRuns'
  BY <1>5 DEF RunQueues, Queued, HighestRuns, Highest
<1>8. RestOK'
  <2>1. nextTid' \in 3 .. MaxTid + 1
    BY <1>1, KernelAssumption DEF SchedInv, TypeOK, Tid
  <2> QED
    BY <1>2, <2>1 DEF Create, ipc, SchedInv, TypeOK, RestOK
<1>9. Scheduled'
  BY <1>5, <1>6, <1>7 DEF Scheduled
<1> QED
  BY <1>8, <1>9, SchedParts, PTL

LEMMA YieldStep ==
    ASSUME SchedInv, Yield
    PROVE  SchedInv'
<1>1. Scheduled'
  <2>1. status \in [Tid -> Status] /\ Dispatch(status, mlfq) /\ UNCHANGED tables
    BY DEF Yield, SchedInv, TypeOK
  <2> QED
    BY <2>1, DispatchSameTasks
<1>2. RestOK'
  BY DEF Yield, tables, ipc, SchedInv, TypeOK, RestOK
<1> QED
  BY <1>1, <1>2, SchedParts, PTL

\* An event turns waiting tasks into ready ones.
LEMMA UnblockProperties ==
    ASSUME SchedInv, NEW E \in SUBSET Event
    PROVE  /\ Unblock(E) \in [Tid -> Status]
           /\ ClearWait(E) \in [Tid -> Event \cup {"NONE"}]
           /\ \A t \in Tid : \/ Unblock(E)[t] = status[t]
                             \/ Unblock(E)[t] = "READY" /\ status[t] = "EVENT_WAIT"
BY DEF SchedInv, TypeOK, Unblock, ClearWait, Waiting, Status, Ready

LEMMA IrqStep ==
    ASSUME SchedInv, NEW E \in Interrupts, Irq(E)
    PROVE  SchedInv'
<1>1. E \in SUBSET Event
  BY KernelAssumption DEF Interrupts, UartEvent
<1>2. Scheduled'
  <2>1. \A t \in Tid : (Unblock(E)[t] = "NONE") <=> (status[t] = "NONE")
    BY <1>1, UnblockProperties
  <2>2. Unblock(E) \in [Tid -> Status] /\ Dispatch(Unblock(E), mlfq) /\ UNCHANGED tables
    BY <1>1, UnblockProperties DEF Irq
  <2> QED
    BY <2>1, <2>2, DispatchSameTasks
<1>3. RestOK'
  BY <1>1, UnblockProperties DEF Irq, tables, ipc, SchedInv, TypeOK, RestOK
<1> QED
  BY <1>2, <1>3, SchedParts, PTL

LEMMA GoWildStep ==
    ASSUME SchedInv, GoWild
    PROVE  SchedInv'
BY DEF GoWild, tables, ipc, SchedInv, TypeOK, RunQueues, HighestRuns, Unborn

LEMMA DeleteStep ==
    ASSUME SchedInv, NEW t \in Tid, status[t] # "NONE", Delete(t)
    PROVE  SchedInv'
<1> DEFINE un == Unblock({"TASK_FINISHED"})
           st == [u \in Tid |-> IF u = t THEN "NONE" ELSE un[u]]
<1>1. {"TASK_FINISHED"} \in SUBSET Event
  BY KernelAssumption
<1>2. /\ un \in [Tid -> Status]
      /\ ClearWait({"TASK_FINISHED"}) \in [Tid -> Event \cup {"NONE"}]
      /\ \A u \in Tid : un[u] = status[u] \/ (un[u] = "READY" /\ status[u] = "EVENT_WAIT")
  BY <1>1, UnblockProperties
<1> HIDE DEF un
<1>3. /\ st \in [Tid -> Status] /\ st[t] = "NONE"
      /\ \A u \in Tid : u # t => ((st[u] = "NONE") <=> (status[u] = "NONE"))
  BY <1>2 DEF Status
<1>4. Dispatch(st, Unlink(mlfq, t)) /\ UNCHANGED tables
  BY DEF Delete, un
<1> HIDE DEF st
<1>5. Queued(status, pri, mlfq)
  BY DEF SchedInv, RunQueues, Queued
<1>6. Unlink(mlfq, t) \in [Levels -> Seq(Tid)] /\ Queued(st, pri, Unlink(mlfq, t))
  <2>1. pri \in [Tid -> Levels] /\ mlfq \in [Levels -> Seq(Tid)]
    BY DEF SchedInv, TypeOK
  <2> QED
    BY <1>3, <1>5, <2>1, UnlinkQueued
<1>7. pri \in [Tid -> Levels]
  BY DEF SchedInv, TypeOK
<1>8. /\ status' \in [Tid -> Status]
      /\ mlfq' \in [Levels -> Seq(Tid)]
      /\ current' \in Tid \cup {NoTask}
      /\ Queued(status', pri, mlfq')
      /\ Highest(status', pri, current')
      /\ \A u \in Tid : status'[u] = st[u] \/ (st[u] \in Ready /\ status'[u] = "RUNNING")
  BY <1>3, <1>4, <1>6, <1>7, DispatchLemma
<1>9. Unborn'
  <2> SUFFICES ASSUME NEW u \in Tid, u >= nextTid
               PROVE  status'[u] = "NONE"
    BY <1>4 DEF Unborn, tables
  <2>1. st[u] = "NONE"
    BY <1>3 DEF SchedInv, Unborn
  <2> QED
    BY <1>8, <2>1 DEF Ready
<1>10. Scheduled'
  BY <1>4, <1>8, <1>9 DEF Scheduled, RunQueues, Queued, HighestRuns, Highest, tables
<1>11. RestOK'
  <2>1. eventWait' \in [Tid -> Event \cup {"NONE"}]
    BY <1>2 DEF Delete
  <2> QED
    BY <2>1 DEF Delete, tables, ipc, SchedInv, TypeOK, RestOK
<1> QED
  BY <1>10, <1>11, SchedParts, PTL

LEMMA ExitStep ==
    ASSUME SchedInv, Exit
    PROVE  SchedInv'
<1>1. current \in Tid /\ status[current] # "NONE"
  BY RunningTask DEF Exit
<1> QED
  BY <1>1, DeleteStep DEF Exit

LEMMA KillStep ==
    ASSUME SchedInv, NEW t \in Tid, Kill(t)
    PROVE  SchedInv'
<1>1. CASE status[t] # "NONE" /\ Delete(t)
  BY <1>1, DeleteStep
<1>2. CASE GoWild
  BY <1>2, GoWildStep
<1> QED
  BY <1>1, <1>2 DEF Kill

LEMMA SendStep ==
    ASSUME SchedInv, NEW r \in Tid, Send(r)
    PROVE  SchedInv'
<1>1. current \in Tid /\ status[current] = "RUNNING"
  BY RunningTask DEF Send
<1>2. status \in [Tid -> Status] /\ UNCHANGED tables
  BY DEF SchedInv, TypeOK, Send
<1>3. CASE SendRefused(r) /\ Dispatch(status, mlfq) /\ UNCHANGED ipc
  <2>1. Scheduled'
    BY <1>2, <1>3, DispatchSameTasks
  <2>2. RestOK'
    BY <1>3 DEF Send, tables, ipc, SchedInv, TypeOK, RestOK
  <2> QED
    BY <2>1, <2>2, SchedParts, PTL
<1>4. CASE sendState' = [sendState EXCEPT ![current] = TRUE] /\ SendFirst(r)
  <2> DEFINE st == [status EXCEPT ![current] = "SEND_WAIT"]
  <2>1. st \in [Tid -> Status] /\ \A t \in Tid : (st[t] = "NONE") <=> (status[t] = "NONE")
    BY <1>1, <1>2 DEF Status, Waits
  <2>2. Dispatch(st, mlfq)
    BY <1>4 DEF SendFirst
  <2> HIDE DEF st
  <2>3. Scheduled'
    BY <1>2, <2>1, <2>2, DispatchSameTasks
  <2>4. listeners' \in [Tid -> Seq(Tid)]
    <3>1. Append(listeners[r], current) \in Seq(Tid)
      BY <1>1, AppendProperties DEF SchedInv, TypeOK
    <3> QED
      BY <1>4, <3>1 DEF SendFirst, SchedInv, TypeOK
  <2>5. RestOK'
    BY <1>4, <2>4 DEF Send, SendFirst, tables, SchedInv, TypeOK, RestOK
  <2> QED
    BY <2>3, <2>5, SchedParts, PTL
<1>5. CASE sendState' = [sendState EXCEPT ![current] = TRUE] /\ ReceiveFirst(r)
  <2> DEFINE st == [status EXCEPT ![r] = "READY", ![current] = "REPLY_WAIT"]
  <2>1. st \in [Tid -> Status] /\ \A t \in Tid : (st[t] = "NONE") <=> (status[t] = "NONE")
    BY <1>1, <1>2, <1>5 DEF Status, Waits, Ready, ReceiveFirst
  <2>2. Dispatch(st, mlfq)
    BY <1>5 DEF ReceiveFirst
  <2> HIDE DEF st
  <2>3. Scheduled'
    BY <1>2, <2>1, <2>2, DispatchSameTasks
  <2>4. RestOK'
    BY <1>1, <1>5 DEF Send, ReceiveFirst, tables, SchedInv, TypeOK, RestOK
  <2> QED
    BY <2>3, <2>4, SchedParts, PTL
<1> QED
  BY <1>3, <1>4, <1>5 DEF Send

LEMMA ReceiveStep ==
    ASSUME SchedInv, Receive
    PROVE  SchedInv'
<1>1. current \in Tid /\ status[current] = "RUNNING" /\ status \in [Tid -> Status]
  BY RunningTask DEF Receive, SchedInv, TypeOK
<1>2. CASE /\ listeners[current] # <<>>
           /\ status[Head(listeners[current])] # "NONE"
           /\ ReceiveQueued(Head(listeners[current]))
  <2> DEFINE s  == Head(listeners[current])
             st == [status EXCEPT ![s] = "REPLY_WAIT"]
  <2>1. s \in Tid /\ Tail(listeners[current]) \in Seq(Tid)
    BY <1>1, <1>2, HeadTailProperties DEF SchedInv, TypeOK
  <2>2. /\ st \in [Tid -> Status]
        /\ \A t \in Tid : (st[t] = "NONE") <=> (status[t] = "NONE")
    BY <1>1, <1>2, <2>1 DEF Status, Waits
  <2>3. Dispatch(st, mlfq) /\ UNCHANGED tables
    BY <1>2 DEF ReceiveQueued
  <2> HIDE DEF st
  <2>4. Scheduled'
    BY <2>2, <2>3, DispatchSameTasks
  <2>5. RestOK'
    BY <1>1, <1>2, <2>1 DEF ReceiveQueued, tables, SchedInv, TypeOK, RestOK
  <2> QED
    BY <2>4, <2>5, SchedParts, PTL
<1>3. CASE ReceiveEmpty
  <2> DEFINE st == [status EXCEPT ![current] = "RECEIVE_WAIT"]
  <2>1. /\ st \in [Tid -> Status]
        /\ \A t \in Tid : (st[t] = "NONE") <=> (status[t] = "NONE")
    BY <1>1 DEF Status, Waits
  <2>2. Dispatch(st, mlfq) /\ UNCHANGED tables
    BY <1>3 DEF ReceiveEmpty
  <2> HIDE DEF st
  <2>3. Scheduled'
    BY <2>1, <2>2, DispatchSameTasks
  <2>4. RestOK'
    BY <1>1, <1>3 DEF ReceiveEmpty, tables, SchedInv, TypeOK, RestOK
  <2> QED
    BY <2>3, <2>4, SchedParts, PTL
<1>4. CASE GoWild
  BY <1>4, GoWildStep
<1> QED
  BY <1>2, <1>3, <1>4 DEF Receive

LEMMA ReplyStep ==
    ASSUME SchedInv, NEW s \in Tid, Reply(s)
    PROVE  SchedInv'
<1>1. status \in [Tid -> Status] /\ UNCHANGED tables
  BY DEF SchedInv, TypeOK, Reply
<1>2. Scheduled'
  <2>1. CASE status[s] = "REPLY_WAIT" /\ Dispatch([status EXCEPT ![s] = "READY"], mlfq)
    <3> DEFINE st == [status EXCEPT ![s] = "READY"]
    <3>1. st \in [Tid -> Status] /\ \A t \in Tid : (st[t] = "NONE") <=> (status[t] = "NONE")
      BY <1>1, <2>1 DEF Status, Ready
    <3>2. Dispatch(st, mlfq)
      BY <2>1
    <3> HIDE DEF st
    <3> QED
      BY <1>1, <3>1, <3>2, DispatchSameTasks
  <2>2. CASE Dispatch(status, mlfq)
    BY <1>1, <2>2, DispatchSameTasks
  <2> QED
    BY <2>1, <2>2 DEF Reply
<1>3. RestOK'
  BY DEF Reply, tables, SchedInv, TypeOK, RestOK
<1> QED
  BY <1>2, <1>3, SchedParts, PTL

LEMMA AwaitEventStep ==
    ASSUME SchedInv, NEW e \in Event, AwaitEvent(e)
    PROVE  SchedInv'
<1> DEFINE st == [status EXCEPT ![current] = "EVENT_WAIT"]
<1>1. current \in Tid /\ status[current] = "RUNNING" /\ status \in [Tid -> Status]
  BY RunningTask DEF AwaitEvent, SchedInv, TypeOK
<1>2. st \in [Tid -> Status] /\ \A t \in Tid : (st[t] = "NONE") <=> (status[t] = "NONE")
  BY <1>1 DEF Status, Waits
<1>3. Dispatch(st, mlfq) /\ UNCHANGED tables
  BY DEF AwaitEvent
<1> HIDE DEF st
<1>4. Scheduled'
  BY <1>2, <1>3, DispatchSameTasks
<1>5. RestOK'
  BY <1>1 DEF AwaitEvent, tables, ipc, SchedInv, TypeOK, RestOK
<1> QED
  BY <1>4, <1>5, SchedParts, PTL

LEMMA SchedStep == SchedInv /\ [Next]_vars => SchedInv'
<1> SUFFICES ASSUME SchedInv, [Next]_vars
             PROVE  SchedInv'
  OBVIOUS
<1>1. CASE UNCHANGED vars
  BY <1>1 DEF vars, SchedInv, TypeOK, RunQueues, HighestRuns, Unborn
<1>2. CASE Next
  BY <1>2, CreateStep, YieldStep, ExitStep, ReceiveStep, KillStep, SendStep, ReplyStep,
     AwaitEventStep, IrqStep DEF Next
<1> QED
  BY <1>1, <1>2

\* Type correctness; every live task stays in the run queues, once and at its own
\* level; the running task is one of the highest-priority runnable ones: whatever
\* the programs call and whenever the interrupts come, Kill included.
THEOREM Scheduling == Spec => [](TypeOK /\ RunQueues /\ HighestRuns)
<1>1. SchedInv => TypeOK /\ RunQueues /\ HighestRuns
  BY DEF SchedInv
<1> QED
  BY <1>1, SchedInit, SchedStep, PTL DEF Spec

-----------------------------------------------------------------------------
(* The message-passing invariant. *)

\* A task in a send queue has been created, and one not yet created holds no block.
QueuedBorn ==
    \A r \in Tid : \A i \in 1 .. Len(listeners[r]) : listeners[r][i] < nextTid

UnbornHoldNothing ==
    \A t \in Tid : t >= nextTid => ~sendState[t] /\ ~receiveState[t]

MsgInv ==
    SendersQueued /\ NoLostMessage /\ BlocksHeld /\ QueuedBorn /\ UnbornHoldNothing

Busy == Ready \cup {"EVENT_WAIT"}

\* The dispatch changes no status but that of a task that could already run.
LEMMA DispatchStatus ==
    ASSUME NEW st \in [Tid -> Status], NEW q, Dispatch(st, q)
    PROVE  \A t \in Tid : \/ status'[t] = st[t]
                          \/ st[t] \in Ready /\ status'[t] \in Ready
<1>1. CASE \E l \in Levels : \E k \in 1 .. Len(q[l]) :
             /\ FirstRunnable(st, q, l, k)
             /\ mlfq' = [q EXCEPT ![l] = Rotate(@, k)]
             /\ status' = [st EXCEPT ![q[l][k]] = "RUNNING"]
             /\ current' = q[l][k]
  <2>1. PICK l \in Levels : \E k \in 1 .. Len(q[l]) :
             st[q[l][k]] \in Ready /\ status' = [st EXCEPT ![q[l][k]] = "RUNNING"]
    BY <1>1 DEF FirstRunnable
  <2> QED
    BY <2>1 DEF Ready
<1>2. CASE status' = st
  BY <1>2
<1> QED
  BY <1>1, <1>2 DEF Dispatch

\* A step that leaves the queues and blocks alone, starts no wait for a message and
\* ends none but by a task's end, keeps the invariant.
LEMMA QuietStep ==
    ASSUME SchedInv, MsgInv, UNCHANGED <<listeners, sendState, receiveState>>,
           nextTid' \in {nextTid, nextTid + 1},
           \A t \in Tid :
              \/ status'[t] = status[t]
              \/ status'[t] = "NONE"
              \/ status[t] \in Busy /\ status'[t] \in Busy
              \/ t = nextTid /\ nextTid' = nextTid + 1 /\ status'[t] \in Busy
    PROVE  MsgInv'
<1> DEFINE In(r, i) == i \in 1 .. Len(listeners[r])
<1>0. nextTid \in Nat /\ listeners \in [Tid -> Seq(Tid)]
  BY KernelAssumption DEF SchedInv, TypeOK
<1>1. ASSUME NEW r \in Tid, NEW i \in 1 .. Len(listeners[r])
      PROVE  /\ listeners[r][i] \in Tid
             /\ listeners[r][i] < nextTid
             /\ status'[listeners[r][i]] \in {"SEND_WAIT", "NONE"}
             /\ \A q \in Tid : \A j \in 1 .. Len(listeners[q]) :
                   listeners[q][j] = listeners[r][i] => q = r /\ j = i
  <2>1. listeners[r][i] \in Tid
    BY <1>0, ElementOfSeq
  <2>2. /\ listeners[r][i] < nextTid
        /\ status[listeners[r][i]] \in {"SEND_WAIT", "NONE"}
        /\ \A q \in Tid : \A j \in 1 .. Len(listeners[q]) :
              listeners[q][j] = listeners[r][i] => q = r /\ j = i
    BY DEF MsgInv, SendersQueued, QueuedBorn
  <2>3. listeners[r][i] # nextTid
    BY <1>0, <2>1, <2>2 DEF Tid
  <2>4. status[listeners[r][i]] \notin Busy
    BY <2>2 DEF Busy, Ready
  <2> QED
    BY <2>1, <2>2, <2>3, <2>4
<1>2. ASSUME NEW s \in Tid, status'[s] = "SEND_WAIT"
      PROVE  \E r \in Tid : \E i \in 1 .. Len(listeners[r]) : listeners[r][i] = s
  BY <1>2 DEF MsgInv, SendersQueued, Busy, Ready
<1>3. SendersQueued'
  BY <1>1, <1>2 DEF SendersQueued
<1>4. NoLostMessage'
  BY DEF MsgInv, NoLostMessage, Busy, Ready
<1>5. BlocksHeld'
  <2> SUFFICES ASSUME NEW t \in Tid, status'[t] # "NONE"
               PROVE  /\ sendState[t] <=> status'[t] \in {"SEND_WAIT", "REPLY_WAIT"}
                      /\ receiveState[t] <=> status'[t] = "RECEIVE_WAIT"
    BY DEF BlocksHeld
  <2>1. CASE status'[t] = status[t]
    BY <2>1 DEF MsgInv, BlocksHeld
  <2>2. CASE status[t] \in Busy /\ status'[t] \in Busy
    BY <2>2 DEF MsgInv, BlocksHeld, Busy, Ready
  <2>3. CASE t = nextTid /\ status'[t] \in Busy
    BY <1>0, <2>3 DEF MsgInv, UnbornHoldNothing, Busy, Ready
  <2> QED
    BY <2>1, <2>2, <2>3
<1>6. QueuedBorn' /\ UnbornHoldNothing'
  <2>1. QueuedBorn'
    BY <1>0, <1>1 DEF QueuedBorn, Tid
  <2>2. UnbornHoldNothing'
    BY <1>0 DEF MsgInv, UnbornHoldNothing, Tid
  <2> QED
    BY <2>1, <2>2
<1> QED
  BY <1>3, <1>4, <1>5, <1>6 DEF MsgInv

LEMMA MsgQuietActions ==
    ASSUME SchedInv, MsgInv,
           \/ \E p \in Levels : Create(p)
           \/ Yield \/ Exit
           \/ \E t \in Tid : Kill(t)
           \/ \E e \in Event : AwaitEvent(e)
           \/ \E E \in Interrupts : Irq(E)
    PROVE  MsgInv'
<1>0. /\ status \in [Tid -> Status] /\ mlfq \in [Levels -> Seq(Tid)]
      /\ pri \in [Tid -> Levels]
      /\ nextTid \in Nat
  BY KernelAssumption DEF SchedInv, TypeOK
<1>1. ASSUME NEW p \in Levels, Create(p) PROVE MsgInv'
  <2> DEFINE st == [status EXCEPT ![nextTid] = "READY"]
             q  == [mlfq EXCEPT ![p] = Append(@, nextTid)]
  <2>1. nextTid \in Tid /\ st \in [Tid -> Status]
    BY <1>0, <1>1, KernelAssumption DEF Create, CanCreate, SchedInv, TypeOK, Status, Ready, Tid
  <2>2. q \in [Levels -> Seq(Tid)] /\ Dispatch(st, q)
    BY <1>0, <1>1, <2>1, AppendProperties DEF Create
  <2>3. \A t \in Tid : t # nextTid => st[t] = status[t]
    BY <1>0
  <2>4. st[nextTid] = "READY"
    BY <1>0, <2>1
  <2> HIDE DEF st, q
  <2>5. \A t \in Tid : status'[t] = st[t] \/ (st[t] \in Ready /\ status'[t] \in Ready)
    BY <2>1, <2>2, DispatchStatus
  <2> QED
    BY <1>1, <2>3, <2>4, <2>5, QuietStep DEF Create, ipc, Busy, Ready
<1>2. ASSUME Yield PROVE MsgInv'
  <2>1. \A t \in Tid : status'[t] = status[t] \/ (status[t] \in Ready /\ status'[t] \in Ready)
    BY <1>0, <1>2, DispatchStatus DEF Yield
  <2> QED
    BY <1>2, <2>1, QuietStep DEF Yield, ipc, tables, Busy
<1>3. ASSUME NEW t \in Tid, Delete(t) PROVE MsgInv'
  <2> DEFINE un == Unblock({"TASK_FINISHED"})
             st == [u \in Tid |-> IF u = t THEN "NONE" ELSE un[u]]
  <2>1. /\ un \in [Tid -> Status]
        /\ \A u \in Tid : un[u] = status[u] \/ (un[u] = "READY" /\ status[u] = "EVENT_WAIT")
    BY KernelAssumption, UnblockProperties
  <2>2. Dispatch(st, Unlink(mlfq, t)) /\ UNCHANGED <<tables, ipc>>
    BY <1>3 DEF Delete
  <2> HIDE DEF un
  <2>3. /\ st \in [Tid -> Status]
        /\ \A u \in Tid : \/ st[u] = status[u] \/ st[u] = "NONE"
                          \/ st[u] = "READY" /\ status[u] = "EVENT_WAIT"
    BY <2>1 DEF Status
  <2> HIDE DEF st
  <2>4. \A u \in Tid : status'[u] = st[u] \/ (st[u] \in Ready /\ status'[u] \in Ready)
    BY <2>2, <2>3, DispatchStatus
  <2>5. \A u \in Tid : \/ status'[u] = status[u]
                       \/ status'[u] = "NONE"
                       \/ status[u] \in Busy /\ status'[u] \in Busy
    <3> TAKE u \in Tid
    <3>1. CASE st[u] = status[u]
      BY <2>4, <3>1 DEF Busy
    <3>2. CASE st[u] = "NONE"
      BY <2>4, <3>2 DEF Ready
    <3>3. CASE st[u] = "READY" /\ status[u] = "EVENT_WAIT"
      BY <2>4, <3>3 DEF Busy, Ready
    <3> QED
      BY <2>3, <3>1, <3>2, <3>3
  <2> QED
    BY <2>2, <2>5, QuietStep DEF tables, ipc
<1>4. ASSUME GoWild PROVE MsgInv'
  BY <1>4, QuietStep DEF GoWild, tables, ipc
<1>5. ASSUME NEW e \in Event, AwaitEvent(e) PROVE MsgInv'
  <2> DEFINE st == [status EXCEPT ![current] = "EVENT_WAIT"]
  <2>1. current \in Tid /\ status[current] = "RUNNING"
    BY <1>5, RunningTask DEF AwaitEvent
  <2>2. st \in [Tid -> Status] /\ Dispatch(st, mlfq)
    BY <1>0, <1>5 DEF AwaitEvent, Status, Waits
  <2>3. st[current] = "EVENT_WAIT" /\ \A u \in Tid : u # current => st[u] = status[u]
    BY <1>0, <2>1
  <2> HIDE DEF st
  <2>4. \A u \in Tid : status'[u] = st[u] \/ (st[u] \in Ready /\ status'[u] \in Ready)
    BY <2>2, DispatchStatus
  <2>5. \A u \in Tid : status'[u] = status[u] \/ (status[u] \in Busy /\ status'[u] \in Busy)
    BY <2>1, <2>3, <2>4 DEF Busy, Ready
  <2> QED
    BY <1>5, <2>5, QuietStep DEF AwaitEvent, tables, ipc
<1>6. ASSUME NEW E \in Interrupts, Irq(E) PROVE MsgInv'
  <2> DEFINE un == Unblock(E)
  <2>1. /\ un \in [Tid -> Status]
        /\ \A u \in Tid : un[u] = status[u] \/ (un[u] = "READY" /\ status[u] = "EVENT_WAIT")
    BY KernelAssumption, UnblockProperties DEF Interrupts, UartEvent
  <2>2. Dispatch(un, mlfq)
    BY <1>6 DEF Irq
  <2> HIDE DEF un
  <2>3. \A u \in Tid : status'[u] = un[u] \/ (un[u] \in Ready /\ status'[u] \in Ready)
    BY <2>1, <2>2, DispatchStatus
  <2>4. \A u \in Tid : status'[u] = status[u] \/ (status[u] \in Busy /\ status'[u] \in Busy)
    BY <2>1, <2>3 DEF Busy, Ready
  <2> QED
    BY <1>6, <2>4, QuietStep DEF Irq, tables, ipc
<1>7. current \in Tid \/ ~Exit
  BY RunningTask DEF Exit
<1> QED
  BY <1>1, <1>2, <1>3, <1>4, <1>5, <1>6, <1>7 DEF Exit, Kill

\* The dispatch ends no wait and starts none.
LEMMA DispatchWaits ==
    ASSUME NEW st \in [Tid -> Status], NEW q, Dispatch(st, q)
    PROVE  \A t \in Tid : \A w \in {"NONE"} \cup Waits : (status'[t] = w) <=> (st[t] = w)
<1>1. \A t \in Tid : status'[t] = st[t] \/ (st[t] \in Ready /\ status'[t] \in Ready)
  BY DispatchStatus
<1> QED
  BY <1>1 DEF Ready, Waits

\* The running task is in no send queue.
LEMMA RunnerNotQueued ==
    ASSUME SchedInv, MsgInv, current \in Tid, status[current] = "RUNNING"
    PROVE  \A r \in Tid : \A i \in 1 .. Len(listeners[r]) : listeners[r][i] # current
BY DEF MsgInv, SendersQueued

\* A sender that finds its receiver busy joins the end of its queue.
LEMMA MsgSendFirst ==
    ASSUME SchedInv, MsgInv, NEW r \in Tid, status[r] # "NONE",
           current \in Tid, status[current] = "RUNNING",
           sendState' = [sendState EXCEPT ![current] = TRUE],
           UNCHANGED nextTid, SendFirst(r)
    PROVE  MsgInv'
<1> DEFINE n  == Len(listeners[r])
           st == [status EXCEPT ![current] = "SEND_WAIT"]
<1>1. /\ listeners \in [Tid -> Seq(Tid)] /\ status \in [Tid -> Status]
      /\ sendState \in [Tid -> BOOLEAN] /\ receiveState \in [Tid -> BOOLEAN]
      /\ nextTid \in Nat /\ n \in Nat
  <2>1. listeners \in [Tid -> Seq(Tid)] /\ nextTid \in Nat
    BY KernelAssumption DEF SchedInv, TypeOK
  <2> QED
    BY <2>1, LenProperties DEF SchedInv, TypeOK
<1>2. /\ \A w \in {"NONE"} \cup Waits : (status'[current] = w) <=> (w = "SEND_WAIT")
      /\ \A t \in Tid : t # current =>
            \A w \in {"NONE"} \cup Waits : (status'[t] = w) <=> (status[t] = w)
  <2>1. st \in [Tid -> Status] /\ Dispatch(st, mlfq)
    BY <1>1 DEF SendFirst, Status, Waits
  <2>2. st[current] = "SEND_WAIT" /\ \A t \in Tid : t # current => st[t] = status[t]
    BY <1>1
  <2> HIDE DEF st
  <2>3. \A t \in Tid : \A w \in {"NONE"} \cup Waits : (status'[t] = w) <=> (st[t] = w)
    BY <2>1, DispatchWaits
  <2>4. \A w \in {"NONE"} \cup Waits : (status'[current] = w) <=> (w = "SEND_WAIT")
    BY <2>2, <2>3
  <2>5. \A t \in Tid : t # current =>
           \A w \in {"NONE"} \cup Waits : (status'[t] = w) <=> (status[t] = w)
    BY <2>2, <2>3
  <2> QED
    BY <2>4, <2>5
<1>3. /\ listeners'[r] = Append(listeners[r], current)
      /\ \A q \in Tid : q # r => listeners'[q] = listeners[q]
  BY <1>1 DEF SendFirst
<1>4. /\ Len(listeners'[r]) = n + 1 /\ listeners'[r][n + 1] = current
      /\ \A i \in 1 .. n : listeners'[r][i] = listeners[r][i]
  BY <1>1, <1>3, AppendProperties
<1> HIDE DEF n
<1> DEFINE Old(q, i) == i \in 1 .. Len(listeners[q]) /\ listeners'[q][i] = listeners[q][i]
           New(q, i) == q = r /\ i = n + 1 /\ listeners'[q][i] = current
<1>5. \A q \in Tid : \A i \in 1 .. Len(listeners'[q]) : Old(q, i) \/ New(q, i)
  <2> TAKE q \in Tid
  <2> TAKE i \in 1 .. Len(listeners'[q])
  <2>1. CASE q # r
    BY <1>3, <2>1
  <2>2. CASE q = r
    <3>1. i \in 1 .. n \/ i = n + 1
      BY <1>1, <1>4, <2>2
    <3> QED
      BY <1>4, <2>2, <3>1 DEF n
  <2> QED
    BY <2>1, <2>2
<1>6. \A q \in Tid : \A i \in 1 .. Len(listeners[q]) :
         i \in 1 .. Len(listeners'[q]) /\ listeners'[q][i] = listeners[q][i]
  <2> TAKE q \in Tid
  <2>1. CASE q # r
    BY <1>3, <2>1
  <2>2. CASE q = r
    BY <1>1, <1>4, <2>2 DEF n
  <2> QED
    BY <2>1, <2>2
<1>7. /\ \A q \in Tid : \A i \in 1 .. Len(listeners[q]) :
            /\ listeners[q][i] \in Tid /\ listeners[q][i] # current
            /\ listeners[q][i] < nextTid
            /\ status[listeners[q][i]] \in {"SEND_WAIT", "NONE"}
      /\ \A p, q \in Tid : \A i \in 1 .. Len(listeners[p]) : \A j \in 1 .. Len(listeners[q]) :
            listeners[q][j] = listeners[p][i] => q = p /\ j = i
  BY <1>1, RunnerNotQueued, ElementOfSeq DEF MsgInv, SendersQueued, QueuedBorn
<1>8. current < nextTid /\ r < nextTid
  BY <1>1 DEF SchedInv, Unborn, Tid
<1>9. SendersQueued'
  <2>1. ASSUME NEW p \in Tid, NEW i \in 1 .. Len(listeners'[p])
        PROVE  status'[listeners'[p][i]] \in {"SEND_WAIT", "NONE"}
    <3>1. CASE Old(p, i)
      BY <1>2, <1>7, <3>1 DEF Waits
    <3>2. CASE New(p, i)
      BY <1>2, <3>2 DEF Waits
    <3> QED
      BY <1>5, <3>1, <3>2
  <2>2. ASSUME NEW p \in Tid, NEW i \in 1 .. Len(listeners'[p]),
               NEW q \in Tid, NEW j \in 1 .. Len(listeners'[q]),
               listeners'[q][j] = listeners'[p][i]
        PROVE  q = p /\ j = i
    <3>1. CASE Old(p, i) /\ Old(q, j)
      BY <1>7, <2>2, <3>1
    <3>2. CASE New(p, i) /\ New(q, j)
      BY <3>2
    <3>3. CASE Old(p, i) /\ New(q, j)
      BY <1>7, <2>2, <3>3
    <3>4. CASE New(p, i) /\ Old(q, j)
      BY <1>7, <2>2, <3>4
    <3> QED
      BY <1>5, <3>1, <3>2, <3>3, <3>4
  <2>3. ASSUME NEW s \in Tid, status'[s] = "SEND_WAIT"
        PROVE  \E q \in Tid : \E i \in 1 .. Len(listeners'[q]) : listeners'[q][i] = s
    <3>1. CASE s = current
      <4>1. n + 1 \in 1 .. Len(listeners'[r])
        BY <1>1, <1>4
      <4> QED
        BY <1>4, <3>1, <4>1
    <3>2. CASE s # current
      <4>1. status[s] = "SEND_WAIT"
        BY <1>2, <2>3, <3>2 DEF Waits
      <4>2. PICK q \in Tid : \E i \in 1 .. Len(listeners[q]) : listeners[q][i] = s
        BY <4>1 DEF MsgInv, SendersQueued
      <4> QED
        BY <1>6, <4>2
    <3> QED
      BY <3>1, <3>2
  <2> QED
    BY <2>1, <2>2, <2>3 DEF SendersQueued
<1>10. NoLostMessage'
  <2> SUFFICES ASSUME NEW q \in Tid, status'[q] = "RECEIVE_WAIT"
               PROVE  listeners'[q] = <<>>
    BY DEF NoLostMessage
  <2>1. q # current /\ status[q] = "RECEIVE_WAIT"
    BY <1>2 DEF Waits
  <2>2. q # r
    BY <2>1 DEF SendFirst
  <2> QED
    BY <1>3, <2>1, <2>2 DEF MsgInv, NoLostMessage
<1>11. BlocksHeld'
  <2> SUFFICES ASSUME NEW t \in Tid, status'[t] # "NONE"
               PROVE  /\ sendState'[t] <=> status'[t] \in {"SEND_WAIT", "REPLY_WAIT"}
                      /\ receiveState'[t] <=> status'[t] = "RECEIVE_WAIT"
    BY DEF BlocksHeld
  <2>1. receiveState' = receiveState /\ sendState'[current] = TRUE
    BY <1>1 DEF SendFirst
  <2>2. ~receiveState[current]
    BY DEF MsgInv, BlocksHeld
  <2>3. CASE t = current
    BY <1>2, <2>1, <2>2, <2>3 DEF Waits
  <2>4. CASE t # current
    <3>1. sendState'[t] = sendState[t]
      BY <1>1, <2>4
    <3>2. \A w \in {"NONE"} \cup Waits : (status'[t] = w) <=> (status[t] = w)
      BY <1>2, <2>4
    <3>3. /\ sendState[t] <=> status[t] \in {"SEND_WAIT", "REPLY_WAIT"}
          /\ receiveState[t] <=> status[t] = "RECEIVE_WAIT"
      BY <3>2 DEF MsgInv, BlocksHeld
    <3> QED
      BY <2>1, <3>1, <3>2, <3>3 DEF Waits
  <2> QED
    BY <2>3, <2>4
<1>12. QueuedBorn'
  BY <1>5, <1>7, <1>8 DEF QueuedBorn
<1>13. UnbornHoldNothing'
  BY <1>1, <1>8 DEF MsgInv, UnbornHoldNothing, SendFirst, Tid
<1> QED
  BY <1>9, <1>10, <1>11, <1>12, <1>13 DEF MsgInv

\* A step that leaves the queues alone and neither starts nor ends a task's life or
\* its wait for a receiver.
LEMMA SameQueues ==
    ASSUME SchedInv, MsgInv, UNCHANGED <<listeners, nextTid>>,
           \A t \in Tid : \A w \in {"NONE", "SEND_WAIT"} : (status'[t] = w) <=> (status[t] = w)
    PROVE  SendersQueued' /\ QueuedBorn'
<1>1. listeners \in [Tid -> Seq(Tid)]
  BY DEF SchedInv, TypeOK
<1>2. \A r \in Tid : \A i \in 1 .. Len(listeners[r]) :
         /\ listeners[r][i] \in Tid
         /\ status[listeners[r][i]] \in {"SEND_WAIT", "NONE"}
  BY <1>1, ElementOfSeq DEF MsgInv, SendersQueued
<1>3. \A r \in Tid : \A i \in 1 .. Len(listeners[r]) :
         status'[listeners[r][i]] \in {"SEND_WAIT", "NONE"}
  BY <1>2
<1>4. \A s \in Tid : status'[s] = "SEND_WAIT" =>
         \E r \in Tid : \E i \in 1 .. Len(listeners[r]) : listeners[r][i] = s
  BY DEF MsgInv, SendersQueued
<1>5. SendersQueued'
  BY <1>3, <1>4 DEF MsgInv, SendersQueued
<1> QED
  BY <1>5 DEF MsgInv, QueuedBorn

\* A sender that finds its receiver waiting hands its message over.
LEMMA MsgReceiveFirst ==
    ASSUME SchedInv, MsgInv, NEW r \in Tid,
           current \in Tid, status[current] = "RUNNING",
           sendState' = [sendState EXCEPT ![current] = TRUE],
           UNCHANGED nextTid, ReceiveFirst(r)
    PROVE  MsgInv'
<1> DEFINE st == [status EXCEPT ![r] = "READY", ![current] = "REPLY_WAIT"]
<1>1. /\ status \in [Tid -> Status] /\ sendState \in [Tid -> BOOLEAN]
      /\ receiveState \in [Tid -> BOOLEAN] /\ nextTid \in Nat
  BY KernelAssumption DEF SchedInv, TypeOK
<1>2. status[r] = "RECEIVE_WAIT" /\ r # current
  BY DEF ReceiveFirst
<1>3. /\ \A w \in {"NONE"} \cup Waits :
            /\ (status'[current] = w) <=> (w = "REPLY_WAIT")
            /\ status'[r] # w
      /\ \A t \in Tid : t \notin {r, current} =>
            \A w \in {"NONE"} \cup Waits : (status'[t] = w) <=> (status[t] = w)
  <2>1. st \in [Tid -> Status] /\ Dispatch(st, mlfq)
    BY <1>1 DEF ReceiveFirst, Status, Waits, Ready
  <2>2. /\ st[current] = "REPLY_WAIT" /\ st[r] = "READY"
        /\ \A t \in Tid : t \notin {r, current} => st[t] = status[t]
    BY <1>1, <1>2
  <2> HIDE DEF st
  <2>3. \A w \in {"NONE"} \cup Waits : "READY" # w
    BY DEF Waits
  <2>4. \A t \in Tid : \A w \in {"NONE"} \cup Waits : (status'[t] = w) <=> (st[t] = w)
    BY <2>1, DispatchWaits
  <2>5. \A w \in {"NONE"} \cup Waits : (status'[current] = w) <=> (w = "REPLY_WAIT")
    BY <2>2, <2>4
  <2>6. \A w \in {"NONE"} \cup Waits : status'[r] # w
    BY <2>2, <2>3, <2>4
  <2>7. \A t \in Tid : t \notin {r, current} =>
           \A w \in {"NONE"} \cup Waits : (status'[t] = w) <=> (status[t] = w)
    <3> TAKE t \in Tid
    <3> HAVE t \notin {r, current}
    <3>1. st[t] = status[t]
      BY <2>2
    <3> QED
      BY <2>4, <3>1
  <2> QED
    BY <2>5, <2>6, <2>7
<1>4. SendersQueued' /\ QueuedBorn'
  BY <1>2, <1>3, SameQueues DEF ReceiveFirst, Waits
<1>5. NoLostMessage'
  BY <1>2, <1>3 DEF MsgInv, NoLostMessage, ReceiveFirst, Waits
<1>6. /\ sendState'[current] /\ \A t \in Tid : t # current => sendState'[t] = sendState[t]
      /\ ~receiveState'[r] /\ \A t \in Tid : t # r => receiveState'[t] = receiveState[t]
  BY <1>1 DEF ReceiveFirst
<1>7. BlocksHeld'
  <2> SUFFICES ASSUME NEW t \in Tid, status'[t] # "NONE"
               PROVE  /\ sendState'[t] <=> status'[t] \in {"SEND_WAIT", "REPLY_WAIT"}
                      /\ receiveState'[t] <=> status'[t] = "RECEIVE_WAIT"
    BY DEF BlocksHeld
  <2>1. CASE t = current
    <3>1. ~receiveState[t]
      BY <2>1 DEF MsgInv, BlocksHeld
    <3> QED
      BY <1>2, <1>3, <1>6, <2>1, <3>1 DEF Waits
  <2>2. CASE t = r
    <3>1. ~sendState[t]
      BY <1>2, <2>2 DEF MsgInv, BlocksHeld
    <3> QED
      BY <1>2, <1>3, <1>6, <2>2, <3>1 DEF Waits
  <2>3. CASE t \notin {r, current}
    <3>1. \A w \in {"NONE"} \cup Waits : (status'[t] = w) <=> (status[t] = w)
      BY <1>3, <2>3
    <3>2. /\ sendState[t] <=> status[t] \in {"SEND_WAIT", "REPLY_WAIT"}
          /\ receiveState[t] <=> status[t] = "RECEIVE_WAIT"
      BY <3>1 DEF MsgInv, BlocksHeld
    <3> QED
      BY <1>6, <2>3, <3>1, <3>2 DEF Waits
  <2> QED
    BY <2>1, <2>2, <2>3
<1>8. UnbornHoldNothing'
  <2>1. current < nextTid /\ r < nextTid
    BY <1>1, <1>2 DEF SchedInv, Unborn, Tid
  <2>2. \A t \in Tid : t >= nextTid => t \notin {r, current}
    BY <1>1, <2>1 DEF Tid
  <2> QED
    BY <1>6, <2>2 DEF MsgInv, UnbornHoldNothing
<1> QED
  BY <1>4, <1>5, <1>7, <1>8 DEF MsgInv

LEMMA MsgSend ==
    ASSUME SchedInv, MsgInv, NEW r \in Tid, Send(r)
    PROVE  MsgInv'
<1>1. current \in Tid /\ status[current] = "RUNNING" /\ status \in [Tid -> Status]
  BY RunningTask DEF Send, SchedInv, TypeOK
<1>2. CASE SendRefused(r) /\ Dispatch(status, mlfq) /\ UNCHANGED ipc
  <2>1. \A t \in Tid : status'[t] = status[t] \/ (status[t] \in Ready /\ status'[t] \in Ready)
    BY <1>1, <1>2, DispatchStatus
  <2> QED
    BY <1>2, <2>1, QuietStep DEF Send, ipc, tables, Busy
<1>3. CASE ~SendRefused(r) /\ sendState' = [sendState EXCEPT ![current] = TRUE] /\ SendFirst(r)
  BY <1>1, <1>3, MsgSendFirst DEF Send, tables, SendRefused
<1>4. CASE ~SendRefused(r) /\ sendState' = [sendState EXCEPT ![current] = TRUE] /\ ReceiveFirst(r)
  BY <1>1, <1>4, MsgReceiveFirst DEF Send, tables
<1> QED
  BY <1>2, <1>3, <1>4 DEF Send

LEMMA MsgReply ==
    ASSUME SchedInv, MsgInv, NEW s \in Tid, Reply(s)
    PROVE  MsgInv'
<1> DEFINE st == [status EXCEPT ![s] = "READY"]
<1>1. /\ status \in [Tid -> Status] /\ sendState \in [Tid -> BOOLEAN] /\ nextTid \in Nat
  BY KernelAssumption DEF SchedInv, TypeOK
<1>2. CASE /\ status[s] = "REPLY_WAIT" /\ sendState' = [sendState EXCEPT ![s] = FALSE]
           /\ Dispatch(st, mlfq)
  <2>1. /\ \A w \in {"NONE"} \cup Waits : status'[s] # w
        /\ \A t \in Tid : t # s =>
              \A w \in {"NONE"} \cup Waits : (status'[t] = w) <=> (status[t] = w)
    <3>1. st \in [Tid -> Status] /\ Dispatch(st, mlfq)
      BY <1>1, <1>2 DEF Status, Ready
    <3>2. st[s] = "READY" /\ \A t \in Tid : t # s => st[t] = status[t]
      BY <1>1
    <3> HIDE DEF st
    <3>3. \A w \in {"NONE"} \cup Waits : "READY" # w
      BY DEF Waits
    <3>4. \A t \in Tid : \A w \in {"NONE"} \cup Waits : (status'[t] = w) <=> (st[t] = w)
      BY <3>1, DispatchWaits
    <3> QED
      BY <3>2, <3>3, <3>4
  <2>2. UNCHANGED <<listeners, receiveState, nextTid>>
    BY DEF Reply, tables
  <2>3. SendersQueued' /\ QueuedBorn'
    BY <1>2, <2>1, <2>2, SameQueues DEF Waits
  <2>4. NoLostMessage'
    BY <2>1, <2>2 DEF MsgInv, NoLostMessage, Waits
  <2>5. ~sendState'[s] /\ \A t \in Tid : t # s => sendState'[t] = sendState[t]
    BY <1>1, <1>2
  <2>6. BlocksHeld'
    <3> SUFFICES ASSUME NEW t \in Tid, status'[t] # "NONE"
                 PROVE  /\ sendState'[t] <=> status'[t] \in {"SEND_WAIT", "REPLY_WAIT"}
                        /\ receiveState'[t] <=> status'[t] = "RECEIVE_WAIT"
      BY DEF BlocksHeld
    <3>1. CASE t = s
      BY <1>2, <2>1, <2>2, <2>5, <3>1 DEF MsgInv, BlocksHeld, Waits
    <3>2. CASE t # s
      <4>1. \A w \in {"NONE"} \cup Waits : (status'[t] = w) <=> (status[t] = w)
        BY <2>1, <3>2
      <4>2. /\ sendState[t] <=> status[t] \in {"SEND_WAIT", "REPLY_WAIT"}
            /\ receiveState[t] <=> status[t] = "RECEIVE_WAIT"
        BY <4>1 DEF MsgInv, BlocksHeld
      <4> QED
        BY <2>2, <2>5, <3>2, <4>1, <4>2 DEF Waits
    <3> QED
      BY <3>1, <3>2
  <2>7. UnbornHoldNothing'
    BY <2>2, <2>5 DEF MsgInv, UnbornHoldNothing
  <2> QED
    BY <2>3, <2>4, <2>6, <2>7 DEF MsgInv
<1>3. CASE Dispatch(status, mlfq) /\ UNCHANGED sendState
  <2>1. \A t \in Tid : status'[t] = status[t] \/ (status[t] \in Ready /\ status'[t] \in Ready)
    BY <1>1, <1>3, DispatchStatus
  <2> QED
    BY <1>3, <2>1, QuietStep DEF Reply, tables, Busy
<1> QED
  BY <1>2, <1>3 DEF Reply

\* A Receive that finds a sender queued takes the first one.
LEMMA MsgReceiveQueued ==
    ASSUME SchedInv, MsgInv, current \in Tid, status[current] = "RUNNING",
           listeners[current] # <<>>,
           status[Head(listeners[current])] # "NONE",
           ReceiveQueued(Head(listeners[current]))
    PROVE  MsgInv'
<1> DEFINE s  == Head(listeners[current])
           n  == Len(listeners[current])
           st == [status EXCEPT ![s] = "REPLY_WAIT"]
<1>1. /\ listeners \in [Tid -> Seq(Tid)] /\ status \in [Tid -> Status]
      /\ nextTid \in Nat
  BY KernelAssumption DEF SchedInv, TypeOK
<1>2. /\ n \in Nat /\ 1 \in 1 .. n /\ s = listeners[current][1] /\ s \in Tid
      /\ Len(Tail(listeners[current])) = n - 1
      /\ \A i \in 1 .. n - 1 : Tail(listeners[current])[i] = listeners[current][i + 1]
  BY <1>1, HeadTailProperties, EmptySeq
<1>3. /\ listeners'[current] = Tail(listeners[current])
      /\ \A q \in Tid : q # current => listeners'[q] = listeners[q]
  BY <1>1 DEF ReceiveQueued
<1>4. UNCHANGED <<sendState, receiveState, nextTid>> /\ Dispatch(st, mlfq)
  BY DEF ReceiveQueued, tables
<1>5. status[s] = "SEND_WAIT" /\ s # current
  BY <1>2 DEF MsgInv, SendersQueued
<1>6. /\ \A w \in {"NONE"} \cup Waits : (status'[s] = w) <=> (w = "REPLY_WAIT")
      /\ \A t \in Tid : t # s =>
            \A w \in {"NONE"} \cup Waits : (status'[t] = w) <=> (status[t] = w)
  <2>1. st \in [Tid -> Status]
    BY <1>1 DEF Status, Waits
  <2>2. st[s] = "REPLY_WAIT" /\ \A t \in Tid : t # s => st[t] = status[t]
    BY <1>1, <1>2
  <2> HIDE DEF st, s
  <2>3. \A t \in Tid : \A w \in {"NONE"} \cup Waits : (status'[t] = w) <=> (st[t] = w)
    BY <1>4, <2>1, DispatchWaits
  <2>4. \A w \in {"NONE"} \cup Waits : (status'[s] = w) <=> (w = "REPLY_WAIT")
    BY <1>2, <2>2, <2>3
  <2>5. \A t \in Tid : t # s =>
           \A w \in {"NONE"} \cup Waits : (status'[t] = w) <=> (status[t] = w)
    BY <2>2, <2>3
  <2> QED
    BY <2>4, <2>5
<1> HIDE DEF s, n, st
<1> DEFINE at(q, i) == IF q = current THEN i + 1 ELSE i
<1>7. \A q \in Tid : \A i \in 1 .. Len(listeners'[q]) :
         /\ at(q, i) \in 1 .. Len(listeners[q])
         /\ listeners'[q][i] = listeners[q][at(q, i)]
         /\ q = current => at(q, i) # 1
  <2> TAKE q \in Tid
  <2> TAKE i \in 1 .. Len(listeners'[q])
  <2>1. CASE q = current
    <3>1. i \in 1 .. n - 1
      BY <1>2, <1>3, <2>1
    <3>2. i + 1 \in 1 .. n /\ i + 1 # 1
      BY <1>2, <3>1
    <3>3. listeners'[q][i] = listeners[current][i + 1]
      BY <1>2, <1>3, <2>1, <3>1
    <3> QED
      BY <2>1, <3>2, <3>3 DEF n
  <2>2. CASE q # current
    BY <1>3, <2>2
  <2> QED
    BY <2>1, <2>2
<1>8. \A q \in Tid : \A i, j \in 1 .. Len(listeners'[q]) : at(q, i) = at(q, j) => i = j
  <2>1. \A q \in Tid : Len(listeners'[q]) \in Nat
    BY <1>1, <1>2, <1>3, LenProperties
  <2> QED
    BY <2>1
<1>9. /\ \A q \in Tid : \A i \in 1 .. Len(listeners[q]) :
            /\ listeners[q][i] \in Tid
            /\ listeners[q][i] < nextTid
            /\ status[listeners[q][i]] \in {"SEND_WAIT", "NONE"}
      /\ \A p, q \in Tid : \A i \in 1 .. Len(listeners[p]) : \A j \in 1 .. Len(listeners[q]) :
            listeners[q][j] = listeners[p][i] => q = p /\ j = i
  BY <1>1, ElementOfSeq DEF MsgInv, SendersQueued, QueuedBorn
<1>10. \A q \in Tid : \A i \in 1 .. Len(listeners'[q]) : listeners'[q][i] # s
  <2> SUFFICES ASSUME NEW q \in Tid, NEW i \in 1 .. Len(listeners'[q]), listeners'[q][i] = s
               PROVE  FALSE
    OBVIOUS
  <2>1. at(q, i) \in 1 .. Len(listeners[q]) /\ listeners[q][at(q, i)] = listeners[current][1]
    BY <1>2, <1>7
  <2>2. q = current /\ at(q, i) = 1
    <3>1. 1 \in 1 .. Len(listeners[current])
      BY <1>2 DEF n
    <3> HIDE DEF at
    <3> QED
      BY <1>9, <2>1, <3>1
  <2> QED
    BY <1>7, <2>2
<1> HIDE DEF at
<1>11. SendersQueued'
  <2>1. ASSUME NEW p \in Tid, NEW i \in 1 .. Len(listeners'[p])
        PROVE  status'[listeners'[p][i]] \in {"SEND_WAIT", "NONE"}
    <3>1. /\ listeners'[p][i] \in Tid /\ listeners'[p][i] # s
          /\ status[listeners'[p][i]] \in {"SEND_WAIT", "NONE"}
      BY <1>7, <1>9, <1>10
    <3> QED
      BY <1>6, <3>1 DEF Waits
  <2>2. ASSUME NEW p \in Tid, NEW i \in 1 .. Len(listeners'[p]),
               NEW q \in Tid, NEW j \in 1 .. Len(listeners'[q]),
               listeners'[q][j] = listeners'[p][i]
        PROVE  q = p /\ j = i
    <3>1. /\ at(p, i) \in 1 .. Len(listeners[p]) /\ at(q, j) \in 1 .. Len(listeners[q])
          /\ listeners[q][at(q, j)] = listeners[p][at(p, i)]
      BY <1>7, <2>2
    <3>2. q = p /\ at(q, j) = at(p, i)
      BY <1>9, <3>1
    <3> QED
      BY <1>8, <3>2
  <2>3. ASSUME NEW t \in Tid, status'[t] = "SEND_WAIT"
        PROVE  \E q \in Tid : \E i \in 1 .. Len(listeners'[q]) : listeners'[q][i] = t
    <3>1. t # s /\ status[t] = "SEND_WAIT"
      BY <1>6, <2>3 DEF Waits
    <3>2. PICK q \in Tid : \E i \in 1 .. Len(listeners[q]) : listeners[q][i] = t
      BY <3>1 DEF MsgInv, SendersQueued
    <3>3. PICK i \in 1 .. Len(listeners[q]) : listeners[q][i] = t
      BY <3>2
    <3>4. CASE q = current
      <4>1. i \in 1 .. n /\ i # 1
        BY <1>2, <3>1, <3>3, <3>4 DEF n
      <4>2. i - 1 \in 1 .. n - 1 /\ (i - 1) + 1 = i
        BY <1>2, <4>1
      <4>3. i - 1 \in 1 .. Len(listeners'[q]) /\ listeners'[q][i - 1] = t
        BY <1>2, <1>3, <3>3, <3>4, <4>2
      <4> QED
        BY <4>3
    <3>5. CASE q # current
      BY <1>3, <3>3, <3>5
    <3> QED
      BY <3>4, <3>5
  <2> QED
    BY <2>1, <2>2, <2>3 DEF SendersQueued
<1>12. NoLostMessage'
  <2> SUFFICES ASSUME NEW q \in Tid, status'[q] = "RECEIVE_WAIT"
               PROVE  listeners'[q] = <<>>
    BY DEF NoLostMessage
  <2>1. q # s /\ status[q] = "RECEIVE_WAIT" /\ q # current
    BY <1>6 DEF Waits
  <2> QED
    BY <1>3, <2>1 DEF MsgInv, NoLostMessage
<1>13. BlocksHeld'
  <2> SUFFICES ASSUME NEW t \in Tid, status'[t] # "NONE"
               PROVE  /\ sendState[t] <=> status'[t] \in {"SEND_WAIT", "REPLY_WAIT"}
                      /\ receiveState[t] <=> status'[t] = "RECEIVE_WAIT"
    BY <1>4 DEF BlocksHeld
  <2>1. CASE t = s
    <3>1. sendState[t] /\ ~receiveState[t]
      BY <1>5, <2>1 DEF MsgInv, BlocksHeld
    <3> QED
      BY <1>6, <2>1, <3>1 DEF Waits
  <2>2. CASE t # s
    <3>1. \A w \in {"NONE"} \cup Waits : (status'[t] = w) <=> (status[t] = w)
      BY <1>6, <2>2
    <3>2. /\ sendState[t] <=> status[t] \in {"SEND_WAIT", "REPLY_WAIT"}
          /\ receiveState[t] <=> status[t] = "RECEIVE_WAIT"
      BY <3>1 DEF MsgInv, BlocksHeld
    <3> QED
      BY <3>1, <3>2 DEF Waits
  <2> QED
    BY <2>1, <2>2
<1>14. QueuedBorn'
  BY <1>4, <1>7, <1>9 DEF QueuedBorn
<1>15. UnbornHoldNothing'
  BY <1>4 DEF MsgInv, UnbornHoldNothing
<1> QED
  BY <1>11, <1>12, <1>13, <1>14, <1>15 DEF MsgInv

LEMMA MsgReceive ==
    ASSUME SchedInv, MsgInv, Receive
    PROVE  MsgInv'
<1>1. /\ current \in Tid /\ status[current] = "RUNNING" /\ status \in [Tid -> Status]
      /\ receiveState \in [Tid -> BOOLEAN] /\ nextTid \in Nat
  BY RunningTask, KernelAssumption DEF Receive, SchedInv, TypeOK
<1>2. CASE /\ listeners[current] # <<>>
           /\ status[Head(listeners[current])] # "NONE"
           /\ ReceiveQueued(Head(listeners[current]))
  BY <1>1, <1>2, MsgReceiveQueued
<1>3. CASE listeners[current] = <<>> /\ ReceiveEmpty
  <2> DEFINE st == [status EXCEPT ![current] = "RECEIVE_WAIT"]
  <2>1. /\ \A w \in {"NONE"} \cup Waits : (status'[current] = w) <=> (w = "RECEIVE_WAIT")
        /\ \A t \in Tid : t # current =>
              \A w \in {"NONE"} \cup Waits : (status'[t] = w) <=> (status[t] = w)
    <3>1. st \in [Tid -> Status] /\ Dispatch(st, mlfq)
      BY <1>1, <1>3 DEF ReceiveEmpty, Status, Waits
    <3>2. st[current] = "RECEIVE_WAIT" /\ \A t \in Tid : t # current => st[t] = status[t]
      BY <1>1
    <3> HIDE DEF st
    <3>3. \A t \in Tid : \A w \in {"NONE"} \cup Waits : (status'[t] = w) <=> (st[t] = w)
      BY <3>1, DispatchWaits
    <3>4. \A w \in {"NONE"} \cup Waits : (status'[current] = w) <=> (w = "RECEIVE_WAIT")
      BY <1>1, <3>2, <3>3
    <3>5. \A t \in Tid : t # current =>
             \A w \in {"NONE"} \cup Waits : (status'[t] = w) <=> (status[t] = w)
      BY <3>2, <3>3
    <3> QED
      BY <3>4, <3>5
  <2>2. /\ UNCHANGED <<listeners, sendState, nextTid>>
        /\ receiveState'[current]
        /\ \A t \in Tid : t # current => receiveState'[t] = receiveState[t]
    BY <1>1, <1>3 DEF ReceiveEmpty, tables
  <2>3. SendersQueued' /\ QueuedBorn'
    BY <1>1, <2>1, <2>2, SameQueues DEF Waits
  <2>4. NoLostMessage'
    BY <1>3, <2>1, <2>2 DEF MsgInv, NoLostMessage, Waits
  <2>5. BlocksHeld'
    <3> SUFFICES ASSUME NEW t \in Tid, status'[t] # "NONE"
                 PROVE  /\ sendState[t] <=> status'[t] \in {"SEND_WAIT", "REPLY_WAIT"}
                        /\ receiveState'[t] <=> status'[t] = "RECEIVE_WAIT"
      BY <2>2 DEF BlocksHeld
    <3>1. CASE t = current
      <4>1. ~sendState[t]
        BY <1>1, <3>1 DEF MsgInv, BlocksHeld
      <4> QED
        BY <2>1, <2>2, <3>1, <4>1 DEF Waits
    <3>2. CASE t # current
      <4>1. \A w \in {"NONE"} \cup Waits : (status'[t] = w) <=> (status[t] = w)
        BY <2>1, <3>2
      <4>2. /\ sendState[t] <=> status[t] \in {"SEND_WAIT", "REPLY_WAIT"}
            /\ receiveState[t] <=> status[t] = "RECEIVE_WAIT"
        BY <4>1 DEF MsgInv, BlocksHeld
      <4> QED
        BY <2>2, <3>2, <4>1, <4>2 DEF Waits
    <3> QED
      BY <3>1, <3>2
  <2>6. UnbornHoldNothing'
    <3>1. current < nextTid
      BY <1>1 DEF SchedInv, Unborn, Tid
    <3>2. \A t \in Tid : t >= nextTid => t # current
      BY <1>1, <3>1 DEF Tid
    <3> QED
      BY <2>2, <3>2 DEF MsgInv, UnbornHoldNothing
  <2> QED
    BY <2>3, <2>4, <2>5, <2>6 DEF MsgInv
<1>4. CASE GoWild
  BY <1>4, MsgQuietActions, QuietStep DEF GoWild, tables, ipc
<1> QED
  BY <1>2, <1>3, <1>4 DEF Receive

LEMMA MsgInit == Init => MsgInv
<1> SUFFICES ASSUME Init PROVE MsgInv
  OBVIOUS
<1>1. \A t \in Tid : /\ listeners[t] = <<>> /\ Len(listeners[t]) = 0
                     /\ ~sendState[t] /\ ~receiveState[t]
                     /\ status[t] \in {"NONE", "READY", "RUNNING"}
  BY DEF Init
<1> QED
  BY <1>1 DEF MsgInv, SendersQueued, NoLostMessage, BlocksHeld, QueuedBorn, UnbornHoldNothing

LEMMA MsgStep ==
    ASSUME SchedInv, MsgInv, [Next]_vars
    PROVE  MsgInv'
<1>1. CASE UNCHANGED vars
  BY <1>1, QuietStep DEF vars
<1>2. CASE Next
  BY <1>2, MsgQuietActions, MsgReceive, MsgSend, MsgReply DEF Next
<1> QED
  BY <1>1, <1>2

\* Whatever the programs call, Kill included: a live task is in a send queue, once,
\* exactly while it waits to be received; no task waits in Receive over a queued
\* message; a live task holds its state blocks exactly while it needs them.
THEOREM Messaging == Spec => [](SendersQueued /\ NoLostMessage /\ BlocksHeld)
<1>1. MsgInv => SendersQueued /\ NoLostMessage /\ BlocksHeld
  BY DEF MsgInv
<1> QED
  BY <1>1, SchedInit, SchedStep, MsgInit, MsgStep, PTL DEF Spec

-----------------------------------------------------------------------------
(* A task that exits. *)

\* Send, Receive and Reply do not end the task that calls them.
LEMMA CallerStays ==
    ASSUME SchedInv, \/ Receive
                     \/ \E t \in Tid : Send(t) \/ Reply(t)
    PROVE  status'[current] # "NONE"
<1>1. status \in [Tid -> Status]
  BY DEF SchedInv, TypeOK
<1>2. current \in Tid /\ status[current] = "RUNNING"
  BY RunningTask DEF Receive, Send, Reply
<1>3. ASSUME NEW st \in [Tid -> Status], NEW q, st[current] # "NONE", Dispatch(st, q)
      PROVE  status'[current] # "NONE"
  BY <1>2, <1>3, DispatchWaits
<1>4. CASE Receive
  <2>1. CASE GoWild
    BY <1>2, <2>1 DEF GoWild
  <2>2. ASSUME NEW s \in Tid, ReceiveQueued(s) PROVE status'[current] # "NONE"
    <3>1. /\ [status EXCEPT ![s] = "REPLY_WAIT"] \in [Tid -> Status]
          /\ [status EXCEPT ![s] = "REPLY_WAIT"][current] # "NONE"
      BY <1>1, <1>2 DEF Status, Waits
    <3> QED
      BY <2>2, <3>1, <1>3 DEF ReceiveQueued
  <2>3. CASE ReceiveEmpty
    <3>1. /\ [status EXCEPT ![current] = "RECEIVE_WAIT"] \in [Tid -> Status]
          /\ [status EXCEPT ![current] = "RECEIVE_WAIT"][current] # "NONE"
      BY <1>1, <1>2 DEF Status, Waits
    <3> QED
      BY <2>3, <3>1, <1>3 DEF ReceiveEmpty
  <2>4. listeners[current] # <<>> => Head(listeners[current]) \in Tid
    BY <1>2 DEF SchedInv, TypeOK
  <2> QED
    BY <1>4, <2>1, <2>2, <2>3, <2>4 DEF Receive
<1>5. ASSUME NEW r \in Tid, Send(r) PROVE status'[current] # "NONE"
  <2>1. CASE Dispatch(status, mlfq)
    BY <1>1, <1>2, <1>3, <2>1
  <2>2. CASE SendFirst(r)
    <3>1. /\ [status EXCEPT ![current] = "SEND_WAIT"] \in [Tid -> Status]
          /\ [status EXCEPT ![current] = "SEND_WAIT"][current] # "NONE"
      BY <1>1, <1>2 DEF Status, Waits
    <3> QED
      BY <2>2, <3>1, <1>3 DEF SendFirst
  <2>3. CASE ReceiveFirst(r)
    <3>1. /\ [status EXCEPT ![r] = "READY", ![current] = "REPLY_WAIT"] \in [Tid -> Status]
          /\ [status EXCEPT ![r] = "READY", ![current] = "REPLY_WAIT"][current] # "NONE"
      BY <1>1, <1>2 DEF Status, Waits, Ready
    <3> QED
      BY <2>3, <3>1, <1>3 DEF ReceiveFirst
  <2> QED
    BY <1>5, <2>1, <2>2, <2>3 DEF Send
<1>6. ASSUME NEW s \in Tid, Reply(s) PROVE status'[current] # "NONE"
  <2>1. CASE Dispatch(status, mlfq)
    BY <1>1, <1>2, <1>3, <2>1
  <2>2. CASE Dispatch([status EXCEPT ![s] = "READY"], mlfq)
    <3>1. /\ [status EXCEPT ![s] = "READY"] \in [Tid -> Status]
          /\ [status EXCEPT ![s] = "READY"][current] # "NONE"
      BY <1>1, <1>2 DEF Status, Ready
    <3> QED
      BY <2>2, <3>1, <1>3
  <2> QED
    BY <1>6, <2>1, <2>2 DEF Reply
<1> QED
  BY <1>4, <1>5, <1>6

\* The other steps change no queue and no block.
LEMMA ExitStepClean ==
    ASSUME SchedInv, MsgInv, [Next]_vars,
           NEW t \in Tid, t = current, status'[t] = "NONE"
    PROVE  /\ ~sendState'[t] /\ ~receiveState'[t]
           /\ \A r \in Tid : \A i \in 1 .. Len(listeners'[r]) : listeners'[r][i] # t
<1>1. current \in Tid /\ status[current] = "RUNNING"
  BY DEF SchedInv, HighestRuns, NoTask, Tid
<1>2. UNCHANGED <<listeners, sendState, receiveState>>
  <2>1. CASE UNCHANGED vars
    BY <2>1 DEF vars
  <2>2. CASE Next
    <3>1. ~ (Receive \/ \E u \in Tid : Send(u) \/ Reply(u))
      BY CallerStays
    <3>2. ASSUME NEW p \in Levels, Create(p)
          PROVE  UNCHANGED <<listeners, sendState, receiveState>>
      BY <3>2 DEF Create, ipc
    <3>3. CASE Yield
      BY <3>3 DEF Yield, ipc
    <3>4. CASE Exit
      BY <3>4 DEF Exit, Delete, ipc
    <3>5. ASSUME NEW u \in Tid, Kill(u)
          PROVE  UNCHANGED <<listeners, sendState, receiveState>>
      BY <3>5 DEF Kill, Delete, GoWild, ipc
    <3>6. ASSUME NEW e \in Event, AwaitEvent(e)
          PROVE  UNCHANGED <<listeners, sendState, receiveState>>
      BY <3>6 DEF AwaitEvent, ipc
    <3>7. ASSUME NEW E \in Interrupts, Irq(E)
          PROVE  UNCHANGED <<listeners, sendState, receiveState>>
      BY <3>7 DEF Irq, ipc
    <3> QED
      BY <2>2, <3>1, <3>2, <3>3, <3>4, <3>5, <3>6, <3>7 DEF Next
  <2> QED
    BY <2>1, <2>2
<1>3. ~sendState[current] /\ ~receiveState[current]
  BY <1>1 DEF MsgInv, BlocksHeld
<1>4. \A r \in Tid : \A i \in 1 .. Len(listeners[r]) : listeners[r][i] # current
  BY <1>1, RunnerNotQueued
<1> QED
  BY <1>2, <1>3, <1>4

\* Whatever the programs call: a task that exits holds no block and is in no queue, so
\* that only Kill can leak kernel memory or leave the tid of a dead task behind.
THEOREM CleanExit == Spec => ExitLeavesNothing
<1>1. SchedInv /\ MsgInv /\ [Next]_vars =>
        \A t \in Tid : t = current /\ status'[t] = "NONE" =>
            /\ ~sendState'[t] /\ ~receiveState'[t]
            /\ \A r \in Tid : \A i \in 1 .. Len(listeners'[r]) : listeners'[r][i] # t
  BY ExitStepClean
<1>2. SchedInv /\ MsgInv /\ [Next]_vars =>
        [\A t \in Tid : t = current /\ status'[t] = "NONE" =>
            /\ ~sendState'[t] /\ ~receiveState'[t]
            /\ \A r \in Tid : \A i \in 1 .. Len(listeners'[r]) : listeners'[r][i] # t]_vars
  BY <1>1
<1> QED
  BY <1>2, SchedInit, SchedStep, MsgInit, MsgStep, PTL DEF Spec, ExitLeavesNothing

-----------------------------------------------------------------------------
(* The contract of message passing. *)

\* What Phase makes of status w of a task that has, or has not, been created.
PhaseOf(w, born) ==
    CASE w = "NONE" -> IF born THEN "gone" ELSE "unborn"
      [] w = "SEND_WAIT" -> "sending"
      [] w = "REPLY_WAIT" -> "served"
      [] w = "RECEIVE_WAIT" -> "receiving"
      [] OTHER -> "active"

\* The dispatch moves no task from one phase to another.
LEMMA DispatchPhase ==
    ASSUME NEW st \in [Tid -> Status], NEW q, Dispatch(st, q)
    PROVE  \A t \in Tid : Phase(t)' = PhaseOf(st[t], t < nextTid')
<1>1. \A t \in Tid : status'[t] = st[t] \/ (st[t] \in Ready /\ status'[t] \in Ready)
  BY DispatchStatus
<1>2. SUFFICES ASSUME NEW t \in Tid
               PROVE  PhaseOf(status'[t], t < nextTid') = PhaseOf(st[t], t < nextTid')
  BY DEF Phase, PhaseOf
<1>3. CASE status'[t] = st[t]
  BY <1>3
<1>4. CASE st[t] \in Ready /\ status'[t] \in Ready
  BY <1>4 DEF PhaseOf, Ready
<1> QED
  BY <1>1, <1>3, <1>4

\* A step that leaves every task's phase, queue and last sender alone is a stutter.
LEMMA QuietPhases ==
    ASSUME UNCHANGED <<listeners, sender>>, \A t \in Tid : Phase(t)' = Phase(t)
    PROVE  UNCHANGED Srr!rvars
BY DEF Srr!rvars

\* Create starts a task.
LEMMA CreateContract ==
    ASSUME SchedInv, NEW p \in Levels, Create(p)
    PROVE  Srr!Next
<1> DEFINE st == [status EXCEPT ![nextTid] = "READY"]
<1>1. /\ nextTid \in Tid /\ nextTid' = nextTid + 1 /\ status[nextTid] = "NONE"
      /\ status \in [Tid -> Status] /\ UNCHANGED <<listeners, sender>>
  BY KernelAssumption DEF SchedInv, TypeOK, Unborn, Create, CanCreate, Tid, ipc
<1>2. st \in [Tid -> Status] /\ Dispatch(st, [mlfq EXCEPT ![p] = Append(@, nextTid)])
  BY <1>1 DEF Create, Status, Ready
<1>3. \A t \in Tid : Phase(t)' = PhaseOf(st[t], t < nextTid')
  <2> HIDE DEF st
  <2> QED
    BY <1>2, DispatchPhase
<1>4. Phase(nextTid) = "unborn" /\ PhaseOf(st[nextTid], nextTid < nextTid') = "active"
  BY <1>1 DEF Phase, PhaseOf, Tid
<1>5. \A t \in Tid : t # nextTid => Phase(t)' = Phase(t)
  <2>1. ASSUME NEW t \in Tid, t # nextTid
        PROVE  st[t] = status[t] /\ ((t < nextTid') <=> (t < nextTid))
    BY <1>1, <2>1 DEF Tid
  <2>2. ASSUME NEW t \in Tid, t # nextTid
        PROVE  PhaseOf(st[t], t < nextTid') = Phase(t)
    BY <2>1, <2>2 DEF Phase, PhaseOf
  <2> QED
    BY <1>3, <2>2
<1>6. PICK n \in Tid : n = nextTid
  BY <1>1
<1>7. Phase(n)' = "active"
  BY <1>3, <1>4, <1>6
<1>8. Srr!Start(n)
  BY <1>1, <1>4, <1>5, <1>6, <1>7 DEF Srr!Start
<1> QED
  BY <1>8 DEF Srr!Next

\* A task that exits or is killed leaves; those that waited for it were active.
LEMMA DeleteContract ==
    ASSUME SchedInv, NEW d \in Tid, status[d] # "NONE", Delete(d)
    PROVE  Srr!Next
<1> DEFINE st == [u \in Tid |-> IF u = d THEN "NONE" ELSE Unblock({"TASK_FINISHED"})[u]]
<1>1. /\ status \in [Tid -> Status] /\ nextTid \in Nat /\ d < nextTid
      /\ UNCHANGED <<nextTid, listeners, sender>>
  BY DEF SchedInv, TypeOK, Unborn, Delete, Tid, ipc, tables
<1>2. st \in [Tid -> Status] /\ Dispatch(st, Unlink(mlfq, d))
  BY <1>1 DEF Delete, Status, Ready, Unblock
<1>3. \A t \in Tid : Phase(t)' = PhaseOf(st[t], t < nextTid)
  <2> HIDE DEF st
  <2> QED
    BY <1>1, <1>2, DispatchPhase
<1>4. Phase(d) \notin {"unborn", "gone"} /\ PhaseOf(st[d], d < nextTid) = "gone"
  BY <1>1 DEF Phase, PhaseOf
<1>5. \A t \in Tid : t # d => Phase(t)' = Phase(t)
  <2>1. ASSUME NEW t \in Tid, t # d
        PROVE  \/ st[t] = status[t]
               \/ st[t] = "READY" /\ status[t] = "EVENT_WAIT"
    BY <2>1 DEF Unblock, Waiting
  <2>2. ASSUME NEW t \in Tid, t # d
        PROVE  PhaseOf(st[t], t < nextTid) = Phase(t)
    <3>1. CASE st[t] = status[t]
      BY <3>1 DEF Phase, PhaseOf
    <3>2. CASE st[t] = "READY" /\ status[t] = "EVENT_WAIT"
      BY <3>2 DEF Phase, PhaseOf
    <3> QED
      BY <2>1, <2>2, <3>1, <3>2
  <2> QED
    BY <1>3, <2>2
<1>6. Srr!Leave(d)
  BY <1>1, <1>3, <1>4, <1>5 DEF Srr!Leave
<1> QED
  BY <1>6 DEF Srr!Next

\* Calls that only reschedule, waits for an event and interrupts move no phase.
LEMMA QuietContract ==
    ASSUME SchedInv, \/ Yield
                     \/ \E e \in Event : AwaitEvent(e)
                     \/ \E E \in Interrupts : Irq(E)
                     \/ GoWild
    PROVE  UNCHANGED Srr!rvars
<1>1. status \in [Tid -> Status] /\ nextTid \in Nat
  BY DEF SchedInv, TypeOK
<1>2. CASE Yield
  <2>1. /\ Dispatch(status, mlfq) /\ UNCHANGED <<nextTid, listeners, sender>>
    BY <1>2 DEF Yield, tables, ipc
  <2>2. \A t \in Tid : Phase(t)' = PhaseOf(status[t], t < nextTid)
    BY <1>1, <2>1, DispatchPhase
  <2> QED
    BY <2>1, <2>2, QuietPhases DEF Phase, PhaseOf
<1>3. ASSUME NEW e \in Event, AwaitEvent(e) PROVE UNCHANGED Srr!rvars
  <2> DEFINE st == [status EXCEPT ![current] = "EVENT_WAIT"]
  <2>1. /\ Dispatch(st, mlfq) /\ UNCHANGED <<nextTid, listeners, sender>>
        /\ st \in [Tid -> Status] /\ current \in Tid /\ status[current] = "RUNNING"
    BY <1>1, <1>3, RunningTask DEF AwaitEvent, tables, ipc, Status, Waits
  <2>2. \A t \in Tid : Phase(t)' = PhaseOf(st[t], t < nextTid)
    <3> HIDE DEF st
    <3> QED
      BY <2>1, DispatchPhase
  <2>3. ASSUME NEW t \in Tid PROVE PhaseOf(st[t], t < nextTid) = Phase(t)
    <3>1. CASE t = current
      BY <1>1, <2>1, <3>1 DEF Phase, PhaseOf
    <3>2. CASE t # current
      BY <1>1, <3>2 DEF Phase, PhaseOf
    <3> QED
      BY <3>1, <3>2
  <2> QED
    BY <2>1, <2>2, <2>3, QuietPhases
<1>4. ASSUME NEW E \in Interrupts, Irq(E) PROVE UNCHANGED Srr!rvars
  <2>1. /\ Dispatch(Unblock(E), mlfq) /\ UNCHANGED <<nextTid, listeners, sender>>
        /\ Unblock(E) \in [Tid -> Status]
    BY <1>1, <1>4 DEF Irq, tables, ipc, Unblock, Status, Ready
  <2>2. \A t \in Tid : Phase(t)' = PhaseOf(Unblock(E)[t], t < nextTid)
    BY <2>1, DispatchPhase
  <2>3. ASSUME NEW t \in Tid PROVE PhaseOf(Unblock(E)[t], t < nextTid) = Phase(t)
    BY <1>1 DEF Phase, PhaseOf, Unblock, Waiting
  <2> QED
    BY <2>1, <2>2, <2>3, QuietPhases
<1>5. CASE GoWild
  <2>1. UNCHANGED <<nextTid, status, listeners, sender>>
    BY <1>5 DEF GoWild, tables, ipc
  <2>2. \A t \in Tid : Phase(t)' = Phase(t)
    BY <2>1 DEF Phase
  <2> QED
    BY <2>1, <2>2, QuietPhases
<1> QED
  BY <1>2, <1>3, <1>4, <1>5

\* A sender queues up on a busy receiver, or its message is delivered at once.
LEMMA SendContract ==
    ASSUME SchedInv, MsgInv, NEW r \in Tid, Send(r)
    PROVE  [Srr!Next]_(Srr!rvars)
<1>1. /\ status \in [Tid -> Status] /\ nextTid \in Nat
      /\ current \in Tid /\ status[current] = "RUNNING"
      /\ UNCHANGED nextTid
  BY RunningTask DEF SchedInv, TypeOK, Send, tables
<1>2. Phase(current) = "active"
  BY <1>1 DEF Phase
<1>3. CASE Dispatch(status, mlfq) /\ UNCHANGED ipc
  <2>1. \A t \in Tid : Phase(t)' = PhaseOf(status[t], t < nextTid)
    BY <1>1, <1>3, DispatchPhase
  <2> QED
    BY <1>3, <2>1, QuietPhases DEF Phase, PhaseOf, ipc
<1>4. CASE ~SendRefused(r) /\ SendFirst(r)
  <2> DEFINE st == [status EXCEPT ![current] = "SEND_WAIT"]
  <2>1. st \in [Tid -> Status] /\ Dispatch(st, mlfq)
    BY <1>1, <1>4 DEF SendFirst, Status, Waits
  <2>2. \A t \in Tid : Phase(t)' = PhaseOf(st[t], t < nextTid)
    <3> HIDE DEF st
    <3> QED
      BY <1>1, <2>1, DispatchPhase
  <2>3. Phase(r) \notin {"unborn", "gone", "receiving"}
    BY <1>4 DEF SendFirst, SendRefused, Phase
  <2>4. PhaseOf(st[current], current < nextTid) = "sending"
    BY <1>1 DEF PhaseOf
  <2>5. \A t \in Tid : t # current => PhaseOf(st[t], t < nextTid) = Phase(t)
    BY <1>1 DEF Phase, PhaseOf
  <2>6. /\ listeners' = [listeners EXCEPT ![r] = Append(@, current)]
        /\ sender' = sender
    BY <1>4 DEF SendFirst
  <2> HIDE DEF st
  <2>7. Srr!Queue(current, r)
    BY <1>1, <1>2, <2>2, <2>3, <2>4, <2>5, <2>6 DEF Srr!Queue
  <2> QED
    BY <1>1, <2>7 DEF Srr!Next
<1>5. CASE ~SendRefused(r) /\ ReceiveFirst(r)
  <2> DEFINE st == [status EXCEPT ![r] = "READY", ![current] = "REPLY_WAIT"]
  <2>1. st \in [Tid -> Status] /\ Dispatch(st, mlfq) /\ r # current
    BY <1>1, <1>5 DEF ReceiveFirst, Status, Waits, Ready
  <2>2. \A t \in Tid : Phase(t)' = PhaseOf(st[t], t < nextTid)
    <3> HIDE DEF st
    <3> QED
      BY <1>1, <2>1, DispatchPhase
  <2>3. Phase(r) = "receiving"
    BY <1>5 DEF ReceiveFirst, Phase
  <2>4. /\ PhaseOf(st[current], current < nextTid) = "served"
        /\ PhaseOf(st[r], r < nextTid) = "active"
    BY <1>1, <2>1 DEF PhaseOf
  <2>5. \A t \in Tid : t \notin {current, r} => PhaseOf(st[t], t < nextTid) = Phase(t)
    BY <1>1 DEF Phase, PhaseOf
  <2>6. sender' = [sender EXCEPT ![r] = current] /\ listeners' = listeners
    BY <1>5 DEF ReceiveFirst
  <2> HIDE DEF st
  <2>7. Srr!Deliver(current, r)
    BY <1>1, <1>2, <2>1, <2>2, <2>3, <2>4, <2>5, <2>6 DEF Srr!Deliver
  <2> QED
    BY <1>1, <2>7 DEF Srr!Next
<1> QED
  BY <1>3, <1>4, <1>5 DEF Send

\* The first sender in the queue is served, or the receiver waits for one.
LEMMA ReceiveContract ==
    ASSUME SchedInv, MsgInv, Receive
    PROVE  [Srr!Next]_(Srr!rvars)
<1>1. /\ status \in [Tid -> Status] /\ nextTid \in Nat
      /\ listeners \in [Tid -> Seq(Tid)]
      /\ current \in Tid /\ status[current] = "RUNNING"
  BY RunningTask DEF SchedInv, TypeOK, Receive
<1>2. Phase(current) = "active"
  BY <1>1 DEF Phase
<1>3. CASE GoWild
  BY <1>3, QuietContract
<1>4. CASE /\ listeners[current] # <<>>
           /\ status[Head(listeners[current])] # "NONE"
           /\ ReceiveQueued(Head(listeners[current]))
  <2>1. PICK s \in Tid : s = Head(listeners[current])
    BY <1>1, <1>4
  <2> DEFINE st == [status EXCEPT ![s] = "REPLY_WAIT"]
  <2>2. /\ st \in [Tid -> Status] /\ Dispatch(st, mlfq)
        /\ listeners' = [listeners EXCEPT ![current] = Tail(@)]
        /\ sender' = [sender EXCEPT ![current] = s]
        /\ nextTid' = nextTid
    BY <1>1, <1>4, <2>1 DEF ReceiveQueued, Status, Waits, tables
  <2>3. \A t \in Tid : Phase(t)' = PhaseOf(st[t], t < nextTid)
    <3> HIDE DEF st
    <3> QED
      BY <1>1, <2>2, DispatchPhase
  <2>4. Phase(s) = "sending"
    <3>1. listeners[current] \in Seq(Tid) /\ listeners[current] # <<>>
      BY <1>1, <1>4
    <3>2. 1 \in 1 .. Len(listeners[current]) /\ listeners[current][1] = s
      BY <2>1, <3>1, EmptySeq, LenProperties
    <3>3. status[s] \in {"SEND_WAIT", "NONE"}
      BY <1>1, <3>2 DEF MsgInv, SendersQueued
    <3> QED
      BY <1>4, <2>1, <3>3 DEF Phase
  <2>5. PhaseOf(st[s], s < nextTid) = "served"
    BY <1>1 DEF PhaseOf
  <2>6. \A t \in Tid : t # s => PhaseOf(st[t], t < nextTid) = Phase(t)
    BY <1>1 DEF Phase, PhaseOf
  <2> HIDE DEF st
  <2>7. Srr!Take(current)
    BY <1>1, <1>2, <1>4, <2>1, <2>2, <2>3, <2>4, <2>5, <2>6 DEF Srr!Take
  <2> QED
    BY <1>1, <2>7 DEF Srr!Next
<1>5. CASE listeners[current] = <<>> /\ ReceiveEmpty
  <2> DEFINE st == [status EXCEPT ![current] = "RECEIVE_WAIT"]
  <2>1. /\ st \in [Tid -> Status] /\ Dispatch(st, mlfq)
        /\ sender' = [sender EXCEPT ![current] = NoTask]
        /\ UNCHANGED <<nextTid, listeners>>
    BY <1>1, <1>5 DEF ReceiveEmpty, Status, Waits, tables
  <2>2. \A t \in Tid : Phase(t)' = PhaseOf(st[t], t < nextTid)
    <3> HIDE DEF st
    <3> QED
      BY <1>1, <2>1, DispatchPhase
  <2>3. PhaseOf(st[current], current < nextTid) = "receiving"
    BY <1>1 DEF PhaseOf
  <2>4. \A t \in Tid : t # current => PhaseOf(st[t], t < nextTid) = Phase(t)
    BY <1>1 DEF Phase, PhaseOf
  <2> HIDE DEF st
  <2>5. Srr!Await(current)
    BY <1>1, <1>2, <1>5, <2>1, <2>2, <2>3, <2>4 DEF Srr!Await
  <2> QED
    BY <1>1, <2>5 DEF Srr!Next
<1> QED
  BY <1>3, <1>4, <1>5 DEF Receive

\* Reply answers a served sender, and does nothing to any other task.
LEMMA ReplyContract ==
    ASSUME SchedInv, NEW s \in Tid, Reply(s)
    PROVE  [Srr!Next]_(Srr!rvars)
<1>1. /\ status \in [Tid -> Status] /\ nextTid \in Nat
      /\ UNCHANGED <<nextTid, listeners, sender>>
  BY DEF SchedInv, TypeOK, Reply, tables
<1>2. CASE status[s] = "REPLY_WAIT" /\ Dispatch([status EXCEPT ![s] = "READY"], mlfq)
  <2> DEFINE st == [status EXCEPT ![s] = "READY"]
  <2>1. st \in [Tid -> Status] /\ Dispatch(st, mlfq)
    BY <1>1, <1>2 DEF Status, Ready
  <2>2. \A t \in Tid : Phase(t)' = PhaseOf(st[t], t < nextTid)
    <3> HIDE DEF st
    <3> QED
      BY <1>1, <2>1, DispatchPhase
  <2>3. Phase(s) = "served" /\ PhaseOf(st[s], s < nextTid) = "active"
    BY <1>1, <1>2 DEF Phase, PhaseOf
  <2>4. \A t \in Tid : t # s => PhaseOf(st[t], t < nextTid) = Phase(t)
    BY <1>1 DEF Phase, PhaseOf
  <2> HIDE DEF st
  <2>5. Srr!Answer(s)
    BY <1>1, <2>2, <2>3, <2>4 DEF Srr!Answer
  <2> QED
    BY <2>5 DEF Srr!Next
<1>3. CASE Dispatch(status, mlfq)
  <2>1. \A t \in Tid : Phase(t)' = PhaseOf(status[t], t < nextTid)
    BY <1>1, <1>3, DispatchPhase
  <2> QED
    BY <1>1, <2>1, QuietPhases DEF Phase, PhaseOf
<1> QED
  BY <1>2, <1>3 DEF Reply

LEMMA ContractInit == Init => Srr!Init
<1> SUFFICES ASSUME Init PROVE Srr!Init
  OBVIOUS
<1>1. \A t \in Tid : Phase(t) \in {"unborn", "active"}
  <2> TAKE t \in Tid
  <2>1. CASE t \in {IdleTid, InitTid}
    BY <2>1 DEF Init, Phase, IdleTid, InitTid
  <2>2. CASE t \notin {IdleTid, InitTid}
    BY <2>2 DEF Init, Phase, IdleTid, InitTid, Tid
  <2> QED
    BY <2>1, <2>2
<1>2. listeners = [t \in Tid |-> <<>>] /\ sender = [t \in Tid |-> NoTask]
  BY DEF Init
<1> QED
  BY <1>1, <1>2 DEF Srr!Init

LEMMA ContractStep ==
    ASSUME SchedInv, MsgInv, [Next]_vars
    PROVE  [Srr!Next]_(Srr!rvars)
<1>1. CASE UNCHANGED vars
  <2>1. UNCHANGED <<nextTid, status, listeners, sender>>
    BY <1>1 DEF vars
  <2>2. \A t \in Tid : Phase(t)' = Phase(t)
    BY <2>1 DEF Phase
  <2> QED
    BY <2>1, <2>2, QuietPhases
<1>2. CASE Next
  <2>1. CASE Exit
    <3>1. current \in Tid /\ status[current] = "RUNNING"
      BY <2>1, RunningTask DEF Exit
    <3> QED
      BY <2>1, <3>1, DeleteContract DEF Exit
  <2>2. ASSUME NEW t \in Tid, Kill(t) PROVE [Srr!Next]_(Srr!rvars)
    BY <2>2, DeleteContract, QuietContract DEF Kill
  <2> QED
    BY <1>2, <2>1, <2>2, CreateContract, QuietContract, SendContract,
       ReceiveContract, ReplyContract DEF Next
<1> QED
  BY <1>1, <1>2

\* The kernel implements Rendezvous, whatever the programs call: with all its
\* scheduling, interrupts and bookkeeping, a message is delivered once, in the order
\* of the sends, its sender goes on only after a Reply that follows the delivery, and
\* no task waits in Receive while it has a message.
THEOREM Contract == Spec => SrrContract
<1> QED
  BY SchedInit, SchedStep, MsgInit, MsgStep, ContractInit, ContractStep, PTL
  DEF Spec, SrrContract, Srr!Spec

=============================================================================
