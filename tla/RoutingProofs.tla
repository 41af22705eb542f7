--------------------------- MODULE RoutingProofs ---------------------------
(***************************************************************************)
(* The properties of Routing for every number of trains and of helpers,    *)
(* every list of food and every score at which a ghost joins.              *)
(***************************************************************************)
EXTENDS Routing, FiniteSetTheorems, SequenceTheorems, TLAPS
-----------------------------------------------------------------------------
(* The inductive invariant. *)

Entry(h) == \E i \in Slot : helper_tids[i] = h /\ route_trains[i] = train[h]

\* Who the server knows, besides what RoutingInv says of it: an index has a helper of its
\* own, and the trains are known as long as there is one at work or to be created.
Owned ==
    /\ \A h \in Helper : ~Gone(h) => Entry(h)
    /\ \A i \in Slot : helper_tids[i] # None =>
           /\ at[helper_tids[i]] # "unborn"
           /\ ~Gone(helper_tids[i]) \/ ending = helper_tids[i]
    /\ \A i, j \in Slot : helper_tids[i] # None /\ helper_tids[i] = helper_tids[j] => i = j
    /\ ~pacman => route_trains = Route
    /\ route_trains = Route \/ (todo = <<>> /\ \A h \in Helper : Gone(h))

\* What the request that is handled still asks for: helpers for indices that have none, and
\* at last a destination or the end for the one that has reported.
Asked ==
    /\ todo # <<>> => ending = None
    /\ \A k \in 1 .. Len(todo) : todo[k].type = "SPAWN" =>
           ~exiting /\ helper_tids[todo[k].index] = None
    /\ \A k \in 1 .. Len(todo) : todo[k].type # "SPAWN" =>
           /\ k = Len(todo) /\ helper_tids[todo[k].index] # None
           /\ at[helper_tids[todo[k].index]] = "receives"
           /\ (todo[k].type = "END" => exiting)
    /\ \A j, k \in 1 .. Len(todo) : todo[j].index = todo[k].index => j = k

\* The end of a helper, and the server in AwaitTid for it.
Endings ==
    /\ await[Server] = "no" <=> ending = None
    /\ ending # None =>
           /\ exiting /\ todo = <<>> /\ at[ending] \in {"exits", "gone"}
           /\ \E i \in Slot : helper_tids[i] = ending
    /\ await[Server] = "over" => at[ending] = "gone"
    /\ \A h \in Helper : at[h] = "exits" => ending = h

\* A helper in AwaitTid, and the path it waits for.
Paths ==
    /\ \A h \in Helper : await[h] = "no" <=> at[h] # "waits"
    /\ \A h \in Helper : await[h] = "over" => path[h] # "runs"
    /\ \A h \in Helper : ~Gone(h) /\ path[h] = "runs" => at[h] = "waits"
    /\ \A h \in Helper : at[h] = "unborn" => path[h] = "none"

\* Who is in Send to the server: a helper has reported, or was killed there.
Queued == \A k \in 1 .. Len(senders) : senders[k] \in Helper => at[senders[k]] \in {"sends", "gone"}

\* The food is counted, or no game has begun.
Food == pacman => \/ eaten + Cardinality(food_sensors) = FOOD_COUNT
                  \/ /\ food_sensors = {} /\ eaten = 0 /\ todo = <<>>
                     /\ \A h \in Helper : at[h] = "unborn"

IInv == TypeOK /\ Owned /\ Asked /\ Endings /\ Paths /\ Queued /\ Food
-----------------------------------------------------------------------------
(* Lemmas. *)

ToDo   == [index : Slot, type : {"SPAWN", "NEW", "END"}]
Caller == Helper \cup {PathOf(h) : h \in Helper} \cup {Prompt, Asker}

\* No number stands for two tasks.
LEMMA Numbers ==
    /\ None \notin Helper /\ Server \notin Helper /\ Prompt \notin Helper
    /\ Asker \notin Helper /\ 0 \in Slot /\ Server # None
    /\ \A g, h \in Helper : PathOf(g) # h
BY ErrandsAssumption DEF None, Helper, Server, Prompt, Asker, PathOf, Slot

\* A sequence without its first element.
LEMMA TailOf ==
    ASSUME NEW T, NEW s \in Seq(T), s # <<>>
    PROVE  /\ Head(s) = s[1] /\ Head(s) \in T /\ Tail(s) \in Seq(T) /\ 1 \in 1 .. Len(s)
           /\ Len(s) \in Nat /\ Len(Tail(s)) = Len(s) - 1
           /\ \A k \in 1 .. Len(Tail(s)) : Tail(s)[k] = s[k + 1] /\ k + 1 \in 1 .. Len(s)
<1>1. Len(s) \in Nat /\ Len(s) # 0
  BY EmptySeq, LenProperties
<1>2. Head(s) = s[1] /\ Tail(s) \in Seq(T) /\ Len(Tail(s)) = Len(s) - 1
      /\ \A k \in 1 .. Len(Tail(s)) : Tail(s)[k] = s[k + 1]
  BY <1>1, HeadTailProperties
<1>3. Head(s) \in T
  BY <1>1, <1>2, ElementOfSeq
<1> QED
  BY <1>1, <1>2, <1>3

\* No task waits twice, and the one that is served no more.
LEMMA LeavesQueue ==
    ASSUME NEW T, NEW s \in Seq(T), s # <<>>, IsInjective(s)
    PROVE  /\ IsInjective(Tail(s))
           /\ \A k \in 1 .. Len(Tail(s)) : Tail(s)[k] # Head(s)
<1>1. /\ Head(s) = s[1] /\ Tail(s) \in Seq(T) /\ 1 \in 1 .. Len(s) /\ Len(s) \in Nat
      /\ Len(Tail(s)) = Len(s) - 1
      /\ \A k \in 1 .. Len(Tail(s)) : Tail(s)[k] = s[k + 1] /\ k + 1 \in 1 .. Len(s)
  BY TailOf
<1>2. DOMAIN s = 1 .. Len(s) /\ DOMAIN Tail(s) = 1 .. Len(Tail(s))
  BY <1>1, LenProperties
<1>3. \A j, k \in 1 .. Len(s) : s[j] = s[k] => j = k
  BY <1>2 DEF IsInjective
<1>4. \A j, k \in 1 .. Len(Tail(s)) : Tail(s)[j] = Tail(s)[k] => j = k
  <2> SUFFICES ASSUME NEW j \in 1 .. Len(Tail(s)), NEW k \in 1 .. Len(Tail(s)),
                      Tail(s)[j] = Tail(s)[k]
               PROVE  j = k
    OBVIOUS
  <2>1. s[j + 1] = s[k + 1] /\ j + 1 \in 1 .. Len(s) /\ k + 1 \in 1 .. Len(s)
    BY <1>1
  <2>2. j + 1 = k + 1
    BY <1>3, <2>1
  <2> QED
    BY <2>2
<1>5. \A k \in 1 .. Len(Tail(s)) : Tail(s)[k] # Head(s)
  <2> SUFFICES ASSUME NEW k \in 1 .. Len(Tail(s)), s[k + 1] = s[1]
               PROVE  FALSE
    BY <1>1
  <2>1. k + 1 = 1
    BY <1>1, <1>3
  <2> QED
    BY <2>1
<1> QED
  BY <1>2, <1>4, <1>5 DEF IsInjective

LEMMA JoinsQueue ==
    ASSUME NEW T, NEW s \in Seq(T), IsInjective(s), NEW x \in T,
           ~ \E k \in 1 .. Len(s) : s[k] = x
    PROVE  /\ Append(s, x) \in Seq(T) /\ IsInjective(Append(s, x))
           /\ \A k \in 1 .. Len(Append(s, x)) :
                 Append(s, x)[k] = x \/ (k \in 1 .. Len(s) /\ Append(s, x)[k] = s[k])
<1>0. Len(s) \in Nat
  BY LenProperties
<1>1. /\ Append(s, x) \in Seq(T) /\ Len(s) \in Nat /\ Len(Append(s, x)) = Len(s) + 1
      /\ \A k \in 1 .. Len(s) : Append(s, x)[k] = s[k]
      /\ Append(s, x)[Len(s) + 1] = x
  BY <1>0, AppendProperties, Zenon
<1>2. DOMAIN s = 1 .. Len(s) /\ DOMAIN Append(s, x) = 1 .. Len(s) + 1
  BY <1>1, LenProperties
<1>3. \A k \in 1 .. Len(s) + 1 : k = Len(s) + 1 \/ k \in 1 .. Len(s)
  BY <1>1
<1>4. \A j, k \in 1 .. Len(s) : s[j] = s[k] => j = k
  BY <1>2 DEF IsInjective
<1>5. \A j, k \in 1 .. Len(s) + 1 : Append(s, x)[j] = Append(s, x)[k] => j = k
  BY <1>1, <1>3, <1>4
<1>6. IsInjective(Append(s, x))
  BY <1>2, <1>5 DEF IsInjective
<1>7. \A k \in 1 .. Len(s) + 1 :
         Append(s, x)[k] = x \/ (k \in 1 .. Len(s) /\ Append(s, x)[k] = s[k])
  BY <1>1, <1>3
<1> QED
  BY <1>1, <1>6, <1>7

-----------------------------------------------------------------------------
(* AwaitTid. *)

\* AwaitTid's own steps change nothing else.
LEMMA AwaitStep ==
    ASSUME IInv, NEW w \in {Server} \cup Helper, AwaitLooks(w) \/ AwaitsEvent(w),
           UNCHANGED <<pacVars, pacman>>
    PROVE  IInv'
<1> DEFINE same == <<helper_tids, route_trains, exiting, todo, ending, at, train, path,
                     senders, lost>>
<1>1. UNCHANGED same /\ UNCHANGED <<food_sensors, eaten, score, predictor, pacman>>
  BY DEF AwaitLooks, AwaitsEvent, pacVars
<1>2. PICK a \in {"found", "blocked", "over"} :
         /\ await' = [await EXCEPT ![w] = a] /\ await[w] # "no"
         /\ a = "over" => Ended(w)
  BY DEF AwaitLooks, AwaitsEvent
<1> HIDE DEF same
<1>3. TypeOK'
  <2>1. await' \in [{Server} \cup Helper -> {"no", "looks", "found", "blocked", "over"}]
    BY <1>2 DEF IInv, TypeOK
  <2> QED
    BY <1>1, <2>1 DEF IInv, TypeOK, same
<1>4. Owned' /\ Asked' /\ Queued' /\ Food'
  BY <1>1 DEF IInv, Owned, Asked, Queued, Food, Gone, Entry, same
<1>5. Endings'
  <2>1. (await'[Server] = "no" <=> await[Server] = "no")
        /\ (await'[Server] = "over" => await[Server] = "over" \/ (w = Server /\ Ended(Server)))
    BY <1>2 DEF IInv, TypeOK
  <2> QED
    BY <1>1, <2>1 DEF IInv, Endings, Ended, same
<1>6. Paths'
  <2>1. \A h \in Helper : /\ await'[h] = "no" <=> await[h] = "no"
                          /\ await'[h] = "over" => await[h] = "over" \/ (h = w /\ Ended(w))
    BY <1>2 DEF IInv, TypeOK
  <2> QED
    BY <1>1, <2>1, Numbers DEF IInv, Paths, Gone, Ended, same
<1> QED
  BY <1>3, <1>4, <1>5, <1>6 DEF IInv

\* The end of a task leaves everyone where he stands, but in AwaitTid.
LEMMA WakesProperties ==
    ASSUME IInv, NEW S, Wakes(S)
    PROVE  /\ await' \in [{Server} \cup Helper -> {"no", "looks", "found", "blocked", "over"}]
           /\ \A w \in {Server} \cup Helper :
                 /\ await'[w] = "no" <=> await[w] = "no"
                 /\ await'[w] = "over" => await[w] = "over" \/ w \in S
BY DEF IInv, TypeOK, Wakes

LEMMA PathEnding ==
    ASSUME IInv, NEW h \in Helper, PathEnds(h), UNCHANGED <<pacVars, pacman>>
    PROVE  IInv'
<1>1. UNCHANGED <<helper_tids, route_trains, exiting, todo, ending, at, train, senders, lost,
                  food_sensors, eaten, score, predictor, pacman>>
  BY DEF PathEnds, pacVars
<1>2. path[h] = "runs" /\ path' = [path EXCEPT ![h] = "ended"]
  BY DEF PathEnds
<1>3. /\ await' \in [{Server} \cup Helper -> {"no", "looks", "found", "blocked", "over"}]
      /\ \A w \in {Server} \cup Helper :
            /\ await'[w] = "no" <=> await[w] = "no"
            /\ await'[w] = "over" => await[w] = "over" \/ w = h
  BY WakesProperties DEF PathEnds
<1>4. TypeOK'
  BY <1>1, <1>2, <1>3 DEF IInv, TypeOK
<1>5. Owned' /\ Asked' /\ Queued' /\ Food'
  BY <1>1 DEF IInv, Owned, Asked, Queued, Food, Gone, Entry
<1>6. Endings'
  BY <1>1, <1>3, Numbers DEF IInv, Endings
<1>7. Paths'
  <2>1. \A g \in Helper : path'[g] = IF g = h THEN "ended" ELSE path[g]
    BY <1>2 DEF IInv, TypeOK
  <2> QED
    BY <1>1, <1>2, <1>3, <2>1 DEF IInv, Paths, Gone
<1> QED
  BY <1>4, <1>5, <1>6, <1>7 DEF IInv

LEMMA OtherTaskEnding ==
    ASSUME IInv, OtherTaskEnds, UNCHANGED <<pacVars, pacman>>
    PROVE  IInv'
<1>1. UNCHANGED <<helper_tids, route_trains, exiting, todo, ending, at, train, path, senders,
                  lost, food_sensors, eaten, score, predictor, pacman>>
  BY DEF OtherTaskEnds, pacVars
<1>2. /\ await' \in [{Server} \cup Helper -> {"no", "looks", "found", "blocked", "over"}]
      /\ \A w \in {Server} \cup Helper :
            /\ await'[w] = "no" <=> await[w] = "no"
            /\ await'[w] = "over" => await[w] = "over"
  BY WakesProperties DEF OtherTaskEnds
<1>3. TypeOK'
  BY <1>1, <1>2 DEF IInv, TypeOK
<1>4. Owned' /\ Asked' /\ Queued' /\ Food'
  BY <1>1 DEF IInv, Owned, Asked, Queued, Food, Gone, Entry
<1>5. Endings' /\ Paths'
  BY <1>1, <1>2 DEF IInv, Endings, Paths, Gone
<1> QED
  BY <1>3, <1>4, <1>5 DEF IInv

-----------------------------------------------------------------------------
(* The helper. *)

LEMMA HelperPlanning ==
    ASSUME IInv, NEW h \in Helper, HelperPlans(h), UNCHANGED <<pacVars, pacman>>
    PROVE  IInv'
<1>1. UNCHANGED <<helper_tids, route_trains, exiting, todo, ending, train, senders, lost,
                  food_sensors, eaten, score, predictor, pacman>>
  BY DEF HelperPlans, pacVars
<1>2. /\ at[h] = "plans" /\ at' = [at EXCEPT ![h] = "waits"]
      /\ path' = [path EXCEPT ![h] = "runs"] /\ await' = [await EXCEPT ![h] = "looks"]
  BY DEF HelperPlans
<1>3. \A g \in Helper : /\ at'[g] = IF g = h THEN "waits" ELSE at[g]
                        /\ path'[g] = IF g = h THEN "runs" ELSE path[g]
                        /\ await'[g] = IF g = h THEN "looks" ELSE await[g]
  BY <1>2 DEF IInv, TypeOK
<1>4. await'[Server] = await[Server]
  BY <1>2, Numbers DEF IInv, TypeOK
<1>5. TypeOK'
  BY <1>1, <1>2 DEF IInv, TypeOK
<1>6. \A g \in Helper : Gone(g)' <=> Gone(g)
  BY <1>2, <1>3 DEF Gone
<1>7. Owned'
  BY <1>1, <1>2, <1>3, <1>6 DEF IInv, TypeOK, Owned, Entry
<1>8. Asked'
  BY <1>1, <1>2, <1>3 DEF IInv, TypeOK, Asked
<1>9. Endings'
  BY <1>1, <1>2, <1>3, <1>4 DEF IInv, TypeOK, Endings
<1>10. Paths'
  BY <1>1, <1>2, <1>3 DEF IInv, Paths, Gone
<1>11. Queued'
  BY <1>1, <1>2, <1>3 DEF IInv, Queued
<1>12. Food'
  BY <1>1, <1>2, <1>3 DEF IInv, Food
<1> QED
  BY <1>5, <1>7, <1>8, <1>9, <1>10, <1>11, <1>12 DEF IInv

\* A task of its own takes no place in the queue twice.
LEMMA SendsProperties ==
    ASSUME IInv, NEW task \in Caller, ~Waits(task), senders' = Append(senders, task)
    PROVE  /\ senders' \in Seq(Caller) /\ IsInjective(senders')
           /\ \A k \in 1 .. Len(senders') :
                 senders'[k] = task \/ (k \in 1 .. Len(senders) /\ senders'[k] = senders[k])
<1>1. senders \in Seq(Caller) /\ IsInjective(senders)
  BY DEF IInv, TypeOK, Caller
<1>2. ~ \E k \in 1 .. Len(senders) : senders[k] = task
  BY DEF Waits
<1> QED
  BY <1>1, <1>2, JoinsQueue

LEMMA HelperSending ==
    ASSUME IInv, NEW h \in Helper, HelperSends(h), UNCHANGED <<pacVars, pacman>>
    PROVE  IInv'
<1>1. UNCHANGED <<helper_tids, route_trains, exiting, todo, ending, train, path, lost,
                  food_sensors, eaten, score, predictor, pacman>>
  BY DEF HelperSends, pacVars
<1>2. /\ at[h] = "waits" /\ at' = [at EXCEPT ![h] = "sends"]
      /\ await[h] = "over" /\ await' = [await EXCEPT ![h] = "no"]
      /\ senders' = Append(senders, h)
  BY DEF HelperSends
<1>3. \A g \in Helper : /\ at'[g] = IF g = h THEN "sends" ELSE at[g]
                        /\ await'[g] = IF g = h THEN "no" ELSE await[g]
  BY <1>2 DEF IInv, TypeOK
<1>4. await'[Server] = await[Server]
  BY <1>2, Numbers DEF IInv, TypeOK
<1>5. ~Waits(h)
  BY <1>2 DEF IInv, Queued, Waits
<1>6. /\ senders' \in Seq(Caller) /\ IsInjective(senders')
      /\ \A k \in 1 .. Len(senders') :
            senders'[k] = h \/ (k \in 1 .. Len(senders) /\ senders'[k] = senders[k])
  BY <1>2, <1>5, SendsProperties DEF Caller
<1>7. TypeOK'
  <2>1. /\ at' \in [Helper -> {"unborn", "plans", "waits", "sends", "receives", "exits", "gone"}]
        /\ await' \in [{Server} \cup Helper -> {"no", "looks", "found", "blocked", "over"}]
    BY <1>2 DEF IInv, TypeOK
  <2> QED
    BY <1>1, <1>6, <2>1 DEF IInv, TypeOK, Caller
<1>8. \A g \in Helper : Gone(g)' <=> Gone(g)
  BY <1>2, <1>3 DEF Gone
<1>9. Owned'
  BY <1>1, <1>2, <1>3, <1>8 DEF IInv, TypeOK, Owned, Entry
<1>10. Asked'
  BY <1>1, <1>2, <1>3 DEF IInv, TypeOK, Asked
<1>11. Endings'
  BY <1>1, <1>2, <1>3, <1>4 DEF IInv, TypeOK, Endings
<1>12. Paths'
  BY <1>1, <1>2, <1>3 DEF IInv, Paths, Gone
<1>13. Queued'
  BY <1>3, <1>6 DEF IInv, Queued
<1>14. Food'
  BY <1>1, <1>2, <1>3 DEF IInv, Food
<1> QED
  BY <1>7, <1>9, <1>10, <1>11, <1>12, <1>13, <1>14 DEF IInv

LEMMA HelperExiting ==
    ASSUME IInv, NEW h \in Helper, HelperExits(h), UNCHANGED <<pacVars, pacman>>
    PROVE  IInv'
<1>1. UNCHANGED <<helper_tids, route_trains, exiting, todo, ending, train, path, senders, lost,
                  food_sensors, eaten, score, predictor, pacman>>
  BY DEF HelperExits, pacVars
<1>2. at[h] = "exits" /\ at' = [at EXCEPT ![h] = "gone"]
  BY DEF HelperExits
<1>3. \A g \in Helper : at'[g] = IF g = h THEN "gone" ELSE at[g]
  BY <1>2 DEF IInv, TypeOK
<1>4. ending = h
  BY <1>2 DEF IInv, Endings
<1>5. /\ await' \in [{Server} \cup Helper -> {"no", "looks", "found", "blocked", "over"}]
      /\ \A w \in {Server} \cup Helper :
            /\ await'[w] = "no" <=> await[w] = "no"
            /\ await'[w] = "over" => await[w] = "over" \/ w = Server
  <2>1. Wakes({Server})
    BY <1>4 DEF HelperExits
  <2> QED
    BY <2>1, WakesProperties
<1>6. TypeOK'
  BY <1>1, <1>2, <1>5 DEF IInv, TypeOK
<1>7. Owned'
  BY <1>1, <1>3, <1>4 DEF IInv, TypeOK, Owned, Entry, Gone
<1>8. Asked'
  BY <1>1, <1>2, <1>3 DEF IInv, TypeOK, Asked
<1>9. Endings'
  BY <1>1, <1>3, <1>4, <1>5 DEF IInv, TypeOK, Endings
<1>10. Paths'
  BY <1>1, <1>2, <1>3, <1>5, Numbers DEF IInv, Paths, Gone
<1>11. Queued'
  BY <1>1, <1>3 DEF IInv, Queued
<1>12. Food'
  BY <1>1, <1>2, <1>3 DEF IInv, Food
<1> QED
  BY <1>6, <1>7, <1>8, <1>9, <1>10, <1>11, <1>12 DEF IInv

-----------------------------------------------------------------------------
(* What the server does with its helpers. *)

\* What is first in "todo", and what remains.
LEMMA FirstAsked ==
    ASSUME IInv, todo # <<>>
    PROVE  /\ Head(todo) \in ToDo /\ Head(todo) = todo[1] /\ 1 \in 1 .. Len(todo)
           /\ Tail(todo) \in Seq(ToDo) /\ ending = None /\ await[Server] = "no"
           /\ \A k \in 1 .. Len(Tail(todo)) :
                 /\ Tail(todo)[k] = todo[k + 1] /\ k + 1 \in 1 .. Len(todo) /\ k + 1 # 1
                 /\ Tail(todo)[k].index # Head(todo).index
                 /\ Tail(todo)[k] \in ToDo
           /\ \A k \in 1 .. Len(Tail(todo)) : k + 1 = Len(todo) => k = Len(Tail(todo))
           /\ Head(todo).type # "SPAWN" => Tail(todo) = <<>>
<1>1. todo \in Seq(ToDo)
  BY DEF IInv, TypeOK, ToDo
<1>2. /\ Head(todo) = todo[1] /\ Head(todo) \in ToDo /\ Tail(todo) \in Seq(ToDo)
      /\ 1 \in 1 .. Len(todo) /\ Len(todo) \in Nat /\ Len(Tail(todo)) = Len(todo) - 1
      /\ \A k \in 1 .. Len(Tail(todo)) : Tail(todo)[k] = todo[k + 1] /\ k + 1 \in 1 .. Len(todo)
  BY <1>1, TailOf
<1>3. ending = None /\ await[Server] = "no"
  BY DEF IInv, Asked, Endings
<1>4. \A k \in 1 .. Len(Tail(todo)) : k + 1 # 1 /\ (k + 1 = Len(todo) => k = Len(Tail(todo)))
  <2> TAKE k \in 1 .. Len(Tail(todo))
  <2> DEFINE n == Len(Tail(todo))
             m == Len(todo)
  <2>1. k \in Nat /\ k # 0 /\ m = n + 1 /\ n \in Nat
    BY <1>2
  <2> HIDE DEF n, m
  <2>2. k + 1 # 1 /\ (k + 1 = m => k = n)
    BY <2>1
  <2> QED
    BY <2>2 DEF n, m
<1>5. \A k \in 1 .. Len(Tail(todo)) : Tail(todo)[k].index # Head(todo).index
  <2>1. \A j, k \in 1 .. Len(todo) : todo[j].index = todo[k].index => j = k
    BY DEF IInv, Asked
  <2> TAKE k \in 1 .. Len(Tail(todo))
  <2>2. k + 1 \in 1 .. Len(todo) /\ k + 1 # 1 /\ Tail(todo)[k] = todo[k + 1]
    BY <1>2, <1>4
  <2> QED
    BY <1>2, <2>1, <2>2
<1>6. \A k \in 1 .. Len(Tail(todo)) : Tail(todo)[k] \in ToDo
  BY <1>2, ElementOfSeq
<1>7. Head(todo).type # "SPAWN" => Tail(todo) = <<>>
  <2> SUFFICES ASSUME Head(todo).type # "SPAWN"
               PROVE  Tail(todo) = <<>>
    OBVIOUS
  <2>1. 1 = Len(todo)
    <3>1. todo[1].type # "SPAWN" /\ 1 \in 1 .. Len(todo)
      BY <1>2
    <3> QED
      BY <3>1 DEF IInv, Asked
  <2>2. Len(Tail(todo)) = 0
    <3>1. Len(Tail(todo)) = Len(todo) - 1
      BY <1>2
    <3> HIDE DEF ToDo
    <3> QED
      BY <2>1, <3>1
  <2>3. Tail(todo) \in Seq(ToDo)
    BY <1>2
  <2>4. \A s \in Seq(ToDo) : s = <<>> <=> Len(s) = 0
    BY EmptySeq, Zenon
  <2> QED
    BY <2>2, <2>3, <2>4, Zenon
<1> QED
  BY <1>2, <1>3, <1>4, <1>5, <1>6, <1>7

\* A helper is created and gets its destination: for an index that had none.
LEMMA Spawning ==
    ASSUME IInv, ServerSpawns, UNCHANGED <<pacVars, pacman>>
    PROVE  IInv'
<1>1. UNCHANGED <<route_trains, exiting, ending, path, await, senders, lost,
                  food_sensors, eaten, score, predictor, pacman>>
  BY DEF ServerSpawns, pacVars
<1>2. todo # <<>> /\ Head(todo).type = "SPAWN" /\ todo' = Tail(todo)
  BY DEF ServerSpawns
<1>3. PICK i \in Slot, h \in Helper :
         /\ i = Head(todo).index /\ at[h] = "unborn"
         /\ helper_tids' = [helper_tids EXCEPT ![i] = h]
         /\ at' = [at EXCEPT ![h] = "plans"]
         /\ train' = [train EXCEPT ![h] = route_trains[i]]
  BY <1>2, FirstAsked DEF ServerSpawns, Unborn, ToDo
<1>4. /\ \A g \in Helper : /\ at'[g] = IF g = h THEN "plans" ELSE at[g]
                           /\ train'[g] = IF g = h THEN route_trains[i] ELSE train[g]
      /\ \A j \in Slot : helper_tids'[j] = IF j = i THEN h ELSE helper_tids[j]
  BY <1>3 DEF IInv, TypeOK
<1>5. helper_tids[i] = None /\ ~exiting
  BY <1>2, <1>3, FirstAsked DEF IInv, Asked
<1>6. \A j \in Slot : helper_tids[j] # h
  BY <1>3, Numbers DEF IInv, Owned
<1>7. route_trains = Route /\ ending = None /\ await[Server] = "no"
  BY <1>2, FirstAsked DEF IInv, Owned
<1>8. TypeOK'
  <2>1. /\ at' \in [Helper -> {"unborn", "plans", "waits", "sends", "receives", "exits", "gone"}]
        /\ helper_tids' \in [Slot -> Helper \cup {None}]
        /\ train' \in [Helper -> Train \cup {None}]
    BY <1>3 DEF IInv, TypeOK
  <2>2. todo' \in Seq([index : Slot, type : {"SPAWN", "NEW", "END"}])
    BY <1>2, FirstAsked DEF ToDo
  <2> QED
    BY <1>1, <2>1, <2>2 DEF IInv, TypeOK
<1>9. Owned'
  <2>1. \A g \in Helper : ~Gone(g)' => Entry(g)'
    <3> SUFFICES ASSUME NEW g \in Helper, ~Gone(g)'
                 PROVE  Entry(g)'
      OBVIOUS
    <3>1. CASE g = h
      <4>1. helper_tids'[i] = g /\ route_trains'[i] = train'[g]
        BY <1>1, <1>4, <3>1
      <4> QED
        BY <4>1 DEF Entry
    <3>2. CASE g # h
      <4>1. ~Gone(g)
        BY <1>4, <3>2 DEF Gone
      <4>2. PICK j \in Slot : helper_tids[j] = g /\ route_trains[j] = train[g]
        BY <4>1 DEF IInv, Owned, Entry
      <4>3. j # i
        BY <1>5, <4>2, Numbers
      <4> QED
        BY <1>1, <1>4, <3>2, <4>2, <4>3 DEF Entry
    <3> QED
      BY <3>1, <3>2
  <2>2. \A j \in Slot : helper_tids'[j] # None =>
           /\ at'[helper_tids'[j]] # "unborn"
           /\ ~Gone(helper_tids[j])' \/ ending' = helper_tids'[j]
    <3> SUFFICES ASSUME NEW j \in Slot, helper_tids'[j] # None
                 PROVE  /\ at'[helper_tids'[j]] # "unborn"
                        /\ ~Gone(helper_tids[j])'
      OBVIOUS
    <3>1. CASE j = i
      BY <1>4, <3>1 DEF Gone
    <3>2. CASE j # i
      <4>1. helper_tids'[j] = helper_tids[j] /\ helper_tids[j] \in Helper /\ helper_tids[j] # h
        BY <1>4, <1>6, <3>2 DEF IInv, TypeOK
      <4>2. at'[helper_tids[j]] = at[helper_tids[j]]
        BY <1>4, <4>1
      <4>3. at[helper_tids[j]] # "unborn" /\ ~Gone(helper_tids[j])
        BY <1>7, <4>1, Numbers DEF IInv, Owned
      <4> QED
        BY <4>1, <4>2, <4>3 DEF Gone
    <3> QED
      BY <3>1, <3>2
  <2>3. \A j, k \in Slot : helper_tids'[j] # None /\ helper_tids'[j] = helper_tids'[k] => j = k
    BY <1>4, <1>6 DEF IInv, Owned
  <2> QED
    BY <1>1, <1>7, <2>1, <2>2, <2>3 DEF IInv, Owned
<1>10. Asked'
  <2> SUFFICES ASSUME NEW k \in 1 .. Len(todo')
               PROVE  /\ todo'[k].type = "SPAWN" =>
                            ~exiting' /\ helper_tids'[todo'[k].index] = None
                      /\ todo'[k].type # "SPAWN" =>
                            /\ k = Len(todo') /\ helper_tids'[todo'[k].index] # None
                            /\ at'[helper_tids'[todo'[k].index]] = "receives"
                            /\ (todo'[k].type = "END" => exiting')
                      /\ \A j \in 1 .. Len(todo') :
                            todo'[j].index = todo'[k].index => j = k
    BY <1>1, <1>7 DEF Asked
  <2> DEFINE x == todo'[k]
  <2>1. /\ x = todo[k + 1] /\ k + 1 \in 1 .. Len(todo) /\ x.index # i /\ x.index \in Slot
        /\ k + 1 = Len(todo) => k = Len(todo')
    BY <1>2, <1>3, FirstAsked DEF ToDo
  <2>2. helper_tids'[x.index] = helper_tids[x.index]
    BY <1>4, <2>1
  <2> HIDE DEF x
  <2>3. x.type = "SPAWN" => ~exiting' /\ helper_tids'[x.index] = None
    BY <1>1, <2>1, <2>2 DEF IInv, Asked
  <2>4. x.type # "SPAWN" =>
           /\ k = Len(todo') /\ helper_tids'[x.index] # None
           /\ at'[helper_tids'[x.index]] = "receives"
           /\ (x.type = "END" => exiting')
    <3> SUFFICES ASSUME x.type # "SPAWN"
                 PROVE  /\ k = Len(todo') /\ helper_tids'[x.index] # None
                        /\ at'[helper_tids'[x.index]] = "receives"
                        /\ (x.type = "END" => exiting')
      OBVIOUS
    <3>1. /\ k + 1 = Len(todo) /\ helper_tids[x.index] # None
          /\ at[helper_tids[x.index]] = "receives" /\ (x.type = "END" => exiting)
      BY <2>1 DEF IInv, Asked
    <3>2. helper_tids[x.index] \in Helper /\ helper_tids[x.index] # h
      BY <1>6, <2>1, <3>1 DEF IInv, TypeOK
    <3> QED
      BY <1>1, <1>4, <2>1, <2>2, <3>1, <3>2
  <2>5. \A j \in 1 .. Len(todo') : todo'[j].index = x.index => j = k
    <3> TAKE j \in 1 .. Len(todo')
    <3>1. todo'[j] = todo[j + 1] /\ j + 1 \in 1 .. Len(todo)
      BY <1>2, FirstAsked
    <3>2. todo'[j].index = x.index => j + 1 = k + 1
      BY <2>1, <3>1 DEF IInv, Asked
    <3> QED
      BY <3>2
  <2> QED
    BY <2>3, <2>4, <2>5 DEF x
<1>11. Endings'
  BY <1>1, <1>4, <1>7 DEF IInv, Endings
<1>12. Paths'
  BY <1>1, <1>3, <1>4 DEF IInv, Paths, Gone
<1>13. Queued'
  BY <1>1, <1>3, <1>4 DEF IInv, Queued
<1>14. Food'
  BY <1>1, <1>2 DEF IInv, Food
<1> QED
  BY <1>8, <1>9, <1>10, <1>11, <1>12, <1>13, <1>14 DEF IInv

\* Whether a helper is at work does not change when one that is goes on to be another way.
LEMMA OwnedStays ==
    ASSUME IInv, UNCHANGED <<helper_tids, route_trains, train, ending, pacman>>,
           \A g \in Helper : (at'[g] = "unborn" <=> at[g] = "unborn") /\ (Gone(g)' <=> Gone(g)),
           route_trains = Route
    PROVE  Owned'
<1>1. \A g \in Helper : Entry(g)' <=> Entry(g)
  BY DEF Entry
<1>2. \A j \in Slot : helper_tids[j] # None => helper_tids[j] \in Helper
  BY DEF IInv, TypeOK
<1> QED
  BY <1>1, <1>2 DEF IInv, Owned

\* An entry's train is the one its helper was created for.
LEMMA EntryIs ==
    ASSUME IInv, NEW h \in Helper, ~Gone(h), NEW i \in Slot, route_trains[i] = train[h]
    PROVE  helper_tids[i] = h /\ route_trains = Route
<1>1. PICK j \in Slot : helper_tids[j] = h /\ route_trains[j] = train[h]
  BY DEF IInv, Owned, Entry
<1>2. route_trains = Route
  BY DEF IInv, Owned
<1>3. i = j
  BY <1>1, <1>2, ErrandsAssumption DEF IsInjective
<1> QED
  BY <1>1, <1>2, <1>3

\* The destination, or the end, for the helper that has reported.
LEMMA SendingNext ==
    ASSUME IInv, ServerSends, UNCHANGED <<pacVars, pacman>>
    PROVE  IInv'
<1>1. UNCHANGED <<helper_tids, route_trains, exiting, ending, train, path, await, senders, lost,
                  food_sensors, eaten, score, predictor, pacman>>
  BY DEF ServerSends, pacVars
<1>2. todo # <<>> /\ Head(todo).type = "NEW" /\ todo' = Tail(todo)
  BY DEF ServerSends
<1>3. todo' = <<>> /\ ending = None /\ await[Server] = "no" /\ Head(todo).index \in Slot
      /\ helper_tids[Head(todo).index] # None
  BY <1>2, FirstAsked DEF IInv, Asked, ToDo
<1>4. PICK h \in Helper : at[h] = "receives" /\ at' = [at EXCEPT ![h] = "plans"]
  <2>1. helper_tids[Head(todo).index] \in Helper
    BY <1>3 DEF IInv, TypeOK
  <2> QED
    BY <2>1 DEF ServerSends
<1>5. \A g \in Helper : at'[g] = IF g = h THEN "plans" ELSE at[g]
  BY <1>4 DEF IInv, TypeOK
<1>6. route_trains = Route
  BY <1>2 DEF IInv, Owned
<1>7. TypeOK'
  BY <1>1, <1>3, <1>4 DEF IInv, TypeOK
<1>8. Owned'
  BY <1>1, <1>4, <1>5, <1>6, OwnedStays DEF Gone
<1>9. Asked'
  BY <1>3 DEF Asked
<1>10. Endings'
  BY <1>1, <1>3, <1>4, <1>5 DEF IInv, Endings
<1>11. Paths'
  BY <1>1, <1>4, <1>5 DEF IInv, Paths, Gone
<1>12. Queued'
  BY <1>1, <1>4, <1>5 DEF IInv, Queued
<1>13. Food'
  BY <1>1, <1>2, <1>3, <1>4, <1>5 DEF IInv, Food
<1> QED
  BY <1>7, <1>8, <1>9, <1>10, <1>11, <1>12, <1>13 DEF IInv

LEMMA SendingEnd ==
    ASSUME IInv, ServerEnds, UNCHANGED <<pacVars, pacman>>
    PROVE  IInv'
<1>1. UNCHANGED <<helper_tids, route_trains, exiting, train, path, senders, lost,
                  food_sensors, eaten, score, predictor, pacman>>
  BY DEF ServerEnds, pacVars
<1>2. todo # <<>> /\ Head(todo).type = "END" /\ todo' = Tail(todo)
  BY DEF ServerEnds
<1>3. todo' = <<>> /\ ending = None /\ await[Server] = "no" /\ Head(todo).index \in Slot
      /\ helper_tids[Head(todo).index] # None /\ exiting
  BY <1>2, FirstAsked DEF IInv, Asked, ToDo
<1>4. PICK h \in Helper : /\ at[h] = "receives" /\ at' = [at EXCEPT ![h] = "exits"]
                          /\ ending' = h /\ h = helper_tids[Head(todo).index]
                          /\ await' = [await EXCEPT ![Server] = "looks"]
  <2>1. helper_tids[Head(todo).index] \in Helper
    BY <1>3 DEF IInv, TypeOK
  <2> QED
    BY <2>1 DEF ServerEnds
<1>5. /\ \A g \in Helper : /\ at'[g] = IF g = h THEN "exits" ELSE at[g]
                           /\ await'[g] = await[g]
      /\ await'[Server] = "looks"
  BY <1>4, Numbers DEF IInv, TypeOK
<1>6. route_trains = Route
  BY <1>2 DEF IInv, Owned
<1>7. TypeOK'
  BY <1>1, <1>3, <1>4 DEF IInv, TypeOK
<1>8. Owned'
  <2>1. \A g \in Helper : (at'[g] = "unborn" <=> at[g] = "unborn") /\ (Gone(g)' <=> Gone(g))
    BY <1>4, <1>5 DEF Gone
  <2>2. \A g \in Helper : Entry(g)' <=> Entry(g)
    BY <1>1 DEF Entry
  <2>3. \A j \in Slot : helper_tids[j] # None => helper_tids[j] \in Helper
    BY DEF IInv, TypeOK
  <2> QED
    BY <1>1, <1>3, <1>6, <2>1, <2>2, <2>3 DEF IInv, Owned
<1>9. Asked'
  BY <1>3 DEF Asked
<1>10. Endings'
  BY <1>1, <1>3, <1>4, <1>5, Numbers DEF IInv, Endings
<1>11. Paths'
  BY <1>1, <1>4, <1>5 DEF IInv, Paths, Gone
<1>12. Queued'
  BY <1>1, <1>4, <1>5 DEF IInv, Queued
<1>13. Food'
  BY <1>1, <1>2, <1>3, <1>4, <1>5 DEF IInv, Food
<1> QED
  BY <1>7, <1>8, <1>9, <1>10, <1>11, <1>12, <1>13 DEF IInv

\* AwaitTid returns to the server, which forgets the helper: it is gone.
LEMMA Awaited ==
    ASSUME IInv, ServerAwaited, UNCHANGED <<pacVars, pacman>>
    PROVE  IInv'
<1>1. UNCHANGED <<route_trains, exiting, todo, at, train, path, senders, lost,
                  food_sensors, eaten, score, predictor, pacman>>
  BY DEF ServerAwaited, pacVars
<1>2. /\ await[Server] = "over" /\ await' = [await EXCEPT ![Server] = "no"] /\ ending' = None
      /\ helper_tids' = [i \in Slot |-> IF helper_tids[i] = ending THEN None ELSE helper_tids[i]]
  BY DEF ServerAwaited
<1>3. ending \in Helper /\ at[ending] = "gone" /\ todo = <<>>
  BY <1>2 DEF IInv, TypeOK, Endings
<1>4. await'[Server] = "no" /\ \A g \in Helper : await'[g] = await[g]
  BY <1>2, Numbers DEF IInv, TypeOK
<1>5. \A i \in Slot : helper_tids'[i] = IF helper_tids[i] = ending THEN None ELSE helper_tids[i]
  BY <1>2
<1>6. TypeOK'
  BY <1>1, <1>2 DEF IInv, TypeOK
<1>7. Owned'
  <2>1. \A g \in Helper : ~Gone(g)' => Entry(g)'
    <3> SUFFICES ASSUME NEW g \in Helper, ~Gone(g)
                 PROVE  Entry(g)'
      BY <1>1 DEF Gone
    <3>1. PICK j \in Slot : helper_tids[j] = g /\ route_trains[j] = train[g]
      BY DEF IInv, Owned, Entry
    <3>2. g # ending
      BY <1>3 DEF Gone
    <3> QED
      BY <1>1, <1>5, <3>1, <3>2 DEF Entry
  <2>2. \A i \in Slot : helper_tids'[i] # None =>
           helper_tids'[i] = helper_tids[i] /\ helper_tids[i] # ending /\ helper_tids[i] # None
    BY <1>5
  <2>3. \A i \in Slot : helper_tids'[i] # None =>
           at'[helper_tids'[i]] # "unborn" /\ ~Gone(helper_tids[i])'
    BY <1>1, <2>2 DEF IInv, Owned, Gone
  <2>4. \A j, k \in Slot : helper_tids'[j] # None /\ helper_tids'[j] = helper_tids'[k] => j = k
    BY <2>2 DEF IInv, Owned
  <2> QED
    BY <1>1, <2>1, <2>3, <2>4 DEF IInv, Owned, Gone
<1>8. Asked'
  BY <1>1, <1>3 DEF Asked
<1>9. Endings'
  BY <1>1, <1>2, <1>3, <1>4 DEF IInv, Endings
<1>10. Paths' /\ Queued' /\ Food'
  BY <1>1, <1>4 DEF IInv, Paths, Queued, Food, Gone
<1> QED
  BY <1>6, <1>7, <1>8, <1>9, <1>10 DEF IInv

-----------------------------------------------------------------------------
(* The requests. *)

\* What holds when a request is handled, and of the queue it leaves.
LEMMA Handling ==
    ASSUME IInv, NEW task, Handles(task)
    PROVE  /\ todo = <<>> /\ ending = None /\ await[Server] = "no" /\ task \in Caller
           /\ task \in Helper => at[task] \in {"sends", "gone"}
           /\ senders' \in Seq(Caller) /\ IsInjective(senders')
           /\ \A k \in 1 .. Len(senders') :
                 senders'[k] = senders[k + 1] /\ k + 1 \in 1 .. Len(senders)
                 /\ senders'[k] # task
<1>1. /\ senders \in Seq(Caller) /\ IsInjective(senders) /\ senders # <<>>
      /\ Head(senders) = task /\ senders' = Tail(senders)
  BY DEF IInv, TypeOK, Handles, Caller
<1> HIDE DEF Caller
<1>2. /\ task = senders[1] /\ task \in Caller /\ 1 \in 1 .. Len(senders)
      /\ senders' \in Seq(Caller)
      /\ \A k \in 1 .. Len(senders') : senders'[k] = senders[k + 1] /\ k + 1 \in 1 .. Len(senders)
  BY <1>1, TailOf
<1>3. IsInjective(senders') /\ \A k \in 1 .. Len(senders') : senders'[k] # task
  BY <1>1, LeavesQueue
<1>4. task \in Helper => at[task] \in {"sends", "gone"}
  BY <1>2 DEF IInv, Queued
<1> QED
  BY <1>2, <1>3, <1>4 DEF IInv, Asked, Endings, Handles

\* The queue, when the helpers that are in it, but the one that is served, stand as before
\* or are killed.
LEMMA QueuedLeaves ==
    ASSUME IInv, NEW task, Handles(task),
           \A g \in Helper : g # task => at'[g] = at[g] \/ at'[g] = "gone"
    PROVE  Queued'
<1>1. \A k \in 1 .. Len(senders') :
         senders'[k] = senders[k + 1] /\ k + 1 \in 1 .. Len(senders) /\ senders'[k] # task
  BY Handling
<1> SUFFICES ASSUME NEW k \in 1 .. Len(senders'), senders'[k] \in Helper
             PROVE  at'[senders'[k]] \in {"sends", "gone"}
  BY DEF Queued
<1>2. at[senders[k + 1]] \in {"sends", "gone"}
  BY <1>1 DEF IInv, Queued
<1> QED
  BY <1>1, <1>2

\* A list of new helpers, with the one that has reported at its end.
Asks(is, e) == [j \in 1 .. Len(is) |-> [index |-> is[j], type |-> "SPAWN"]] \o <<e>>

LEMMA AskedFor ==
    ASSUME NEW is \in Seq(Slot), NEW e \in ToDo
    PROVE  /\ Asks(is, e) \in Seq(ToDo) /\ Len(Asks(is, e)) = Len(is) + 1 /\ Len(is) \in Nat
           /\ \A k \in 1 .. Len(is) : Asks(is, e)[k] = [index |-> is[k], type |-> "SPAWN"]
           /\ Asks(is, e)[Len(is) + 1] = e
<1> DEFINE a == [j \in 1 .. Len(is) |-> [index |-> is[j], type |-> "SPAWN"]]
<1>1. Len(is) \in Nat /\ \A j \in 1 .. Len(is) : is[j] \in Slot
  BY LenProperties, ElementOfSeq
<1>2. a \in [1 .. Len(is) -> ToDo]
  BY <1>1 DEF ToDo
<1>3. a \in Seq(ToDo)
  BY <1>1, <1>2, SeqDef
<1>4. Len(a) = Len(is)
  BY <1>1, <1>2, <1>3, LenProperties
<1>5. Asks(is, e) = Append(a, e)
  BY <1>3, AppendIsConcat DEF Asks
<1> HIDE DEF a, ToDo
<1>6. /\ Append(a, e) \in Seq(ToDo) /\ Len(Append(a, e)) = Len(a) + 1
      /\ \A k \in 1 .. Len(a) : Append(a, e)[k] = a[k]
      /\ Append(a, e)[Len(a) + 1] = e
  BY <1>3, AppendProperties
<1>7. \A k \in 1 .. Len(is) : a[k] = [index |-> is[k], type |-> "SPAWN"]
  BY DEF a
<1> QED
  BY <1>1, <1>4, <1>5, <1>6, <1>7

\* What is left of the state when a report is handled.
LEMMA ReportHandled ==
    ASSUME IInv, NEW h \in Helper, Handles(h), at[h] = "sends",
           at' = [at EXCEPT ![h] = "receives"],
           UNCHANGED <<helper_tids, route_trains, exiting, ending, train, path, await, lost, pacman>>
    PROVE  /\ Owned' /\ Endings' /\ Paths' /\ Queued'
           /\ at' \in [Helper -> {"unborn", "plans", "waits", "sends", "receives", "exits", "gone"}]
           /\ \A g \in Helper : at'[g] = IF g = h THEN "receives" ELSE at[g]
           /\ ~Gone(h) /\ route_trains = Route
<1>1. \A g \in Helper : at'[g] = IF g = h THEN "receives" ELSE at[g]
  BY DEF IInv, TypeOK
<1>2. at' \in [Helper -> {"unborn", "plans", "waits", "sends", "receives", "exits", "gone"}]
  BY DEF IInv, TypeOK
<1>3. todo = <<>> /\ ending = None /\ await[Server] = "no"
  BY Handling
<1>4. ~Gone(h)
  BY DEF Gone
<1>5. route_trains = Route
  BY <1>4 DEF IInv, Owned
<1>6. Owned'
  BY <1>1, <1>5, OwnedStays DEF Gone
<1>7. Endings'
  BY <1>1, <1>3 DEF IInv, Endings
<1>8. Paths'
  BY <1>1 DEF IInv, Paths, Gone
<1>9. Queued'
  BY <1>1, QueuedLeaves
<1> QED
  BY <1>1, <1>2, <1>4, <1>5, <1>6, <1>7, <1>8, <1>9

\* A report while destinations are given: the indices that get a helper had none, and the
\* one that has reported can be sent to.
LEMMA ReportGoesOn ==
    ASSUME IInv, NEW h \in Helper, NEW is \in Seq(Slot), HandleReached(h, is),
           \A j, k \in 1 .. Len(is) : is[j] = is[k] => j = k,
           \A k \in 1 .. Len(is) : helper_tids[is[k]] = None,
           UNCHANGED pacman,
           food_sensors' \subseteq FoodList /\ eaten' \in 0 .. FOOD_COUNT,
           score' \in 0 .. MaxScore /\ predictor' \in {"asks", "pacman"},
           pacman => eaten' + Cardinality(food_sensors') = FOOD_COUNT
    PROVE  IInv'
<1>1. /\ Handles(h) /\ at[h] = "sends" /\ ~exiting /\ at' = [at EXCEPT ![h] = "receives"]
      /\ UNCHANGED <<helper_tids, route_trains, exiting, ending, train, path, await, lost, pacman>>
  BY DEF HandleReached
<1>2. /\ Owned' /\ Endings' /\ Paths' /\ Queued'
      /\ at' \in [Helper -> {"unborn", "plans", "waits", "sends", "receives", "exits", "gone"}]
      /\ \A g \in Helper : at'[g] = IF g = h THEN "receives" ELSE at[g]
      /\ ~Gone(h)
  BY <1>1, ReportHandled
<1>3. ending = None /\ senders' \in Seq(Caller) /\ IsInjective(senders')
  BY <1>1, Handling
<1>4. PICK i \in Slot :
         /\ route_trains[i] = train[h]
         /\ todo' = [j \in 1 .. Len(is) |-> [index |-> is[j], type |-> "SPAWN"]]
                    \o <<[index |-> i, type |-> "NEW"]>>
  BY DEF HandleReached
<1>5. helper_tids[i] = h
  BY <1>2, <1>4, EntryIs
<1> DEFINE e == [index |-> i, type |-> "NEW"]
<1>6. /\ todo' \in Seq(ToDo) /\ Len(todo') = Len(is) + 1 /\ Len(is) \in Nat
      /\ \A k \in 1 .. Len(is) : todo'[k] = [index |-> is[k], type |-> "SPAWN"]
      /\ todo'[Len(is) + 1] = e
  <2>1. e \in ToDo
    BY DEF ToDo
  <2> HIDE DEF e
  <2> QED
    <3>1. todo' = Asks(is, e)
      BY <1>4 DEF Asks, e
    <3> QED
      BY <2>1, <3>1, AskedFor
<1>7. \A k \in 1 .. Len(todo') : k \in 1 .. Len(is) \/ k = Len(todo')
  BY <1>6
<1>8. TypeOK'
  BY <1>1, <1>2, <1>3, <1>6 DEF IInv, TypeOK, ToDo, Caller
<1>9. Asked'
  <2>0. /\ \A k \in 1 .. Len(is) :
              /\ todo'[k].index = is[k] /\ todo'[k].type = "SPAWN"
              /\ helper_tids[is[k]] = None /\ is[k] # i
        /\ todo'[Len(todo')].index = i /\ todo'[Len(todo')].type = "NEW"
    <3>1. \A k \in 1 .. Len(is) : todo'[k].index = is[k] /\ todo'[k].type = "SPAWN"
      <4> TAKE k \in 1 .. Len(is)
      <4>1. todo'[k] = [index |-> is[k], type |-> "SPAWN"]
        BY <1>6
      <4> QED
        BY <4>1
    <3>2. \A k \in 1 .. Len(is) : helper_tids[is[k]] = None /\ is[k] # i
      BY <1>5, Numbers
    <3>3. todo'[Len(todo')].index = i /\ todo'[Len(todo')].type = "NEW"
      BY <1>6
    <3> QED
      BY <3>1, <3>2, <3>3
  <2>1. \A k \in 1 .. Len(todo') : todo'[k].type = "SPAWN" =>
           ~exiting' /\ helper_tids'[todo'[k].index] = None
    BY <1>1, <1>7, <2>0, Zenon
  <2>2. \A k \in 1 .. Len(todo') : todo'[k].type # "SPAWN" =>
           /\ k = Len(todo') /\ helper_tids'[todo'[k].index] # None
           /\ at'[helper_tids'[todo'[k].index]] = "receives"
           /\ todo'[k].type # "END"
    <3> TAKE k \in 1 .. Len(todo')
    <3>1. CASE k \in 1 .. Len(is)
      BY <2>0, <3>1
    <3>2. CASE k = Len(todo')
      BY <1>1, <1>2, <1>5, <2>0, <3>2, Numbers
    <3> QED
      BY <1>7, <3>1, <3>2
  <2>4. \A j, k \in 1 .. Len(todo') : todo'[j].index = todo'[k].index => j = k
    <3> SUFFICES ASSUME NEW j \in 1 .. Len(todo'), NEW k \in 1 .. Len(todo'),
                        todo'[j].index = todo'[k].index
                 PROVE  j = k
      OBVIOUS
    <3>1. CASE j \in 1 .. Len(is) /\ k \in 1 .. Len(is)
      BY <2>0, <3>1
    <3>2. CASE j \in 1 .. Len(is) /\ k = Len(todo')
      BY <2>0, <3>2
    <3>3. CASE j = Len(todo') /\ k \in 1 .. Len(is)
      BY <2>0, <3>3
    <3> QED
      BY <1>7, <3>1, <3>2, <3>3
  <2> QED
    BY <1>1, <1>3, <2>1, <2>2, <2>4 DEF Asked
<1>10. Food'
  BY <1>1 DEF Food
<1> QED
  BY <1>2, <1>8, <1>9, <1>10 DEF IInv

\* The last report of a helper.
LEMMA ReportEnds ==
    ASSUME IInv, NEW h \in Helper, HandleReachedExiting(h), UNCHANGED <<pacVars, pacman>>
    PROVE  IInv'
<1>1. /\ Handles(h) /\ at[h] = "sends" /\ exiting /\ at' = [at EXCEPT ![h] = "receives"]
      /\ UNCHANGED <<helper_tids, route_trains, exiting, ending, train, path, await, lost,
                     food_sensors, eaten, score, predictor, pacman>>
  BY DEF HandleReachedExiting, pacVars
<1>2. /\ Owned' /\ Endings' /\ Paths' /\ Queued'
      /\ at' \in [Helper -> {"unborn", "plans", "waits", "sends", "receives", "exits", "gone"}]
      /\ \A g \in Helper : at'[g] = IF g = h THEN "receives" ELSE at[g]
      /\ ~Gone(h)
  BY <1>1, ReportHandled
<1>3. ending = None /\ senders' \in Seq(Caller) /\ IsInjective(senders')
  BY <1>1, Handling
<1>4. PICK i \in Slot : /\ route_trains[i] = train[h]
                        /\ todo' = <<[index |-> i, type |-> "END"]>>
  BY DEF HandleReachedExiting
<1>5. helper_tids[i] = h
  BY <1>2, <1>4, EntryIs
<1>6. /\ todo' \in Seq(ToDo) /\ Len(todo') = 1 /\ todo'[1] = [index |-> i, type |-> "END"]
      /\ \A k \in 1 .. Len(todo') : k = 1
  BY <1>4 DEF ToDo
<1>7. TypeOK'
  BY <1>1, <1>2, <1>3, <1>6 DEF IInv, TypeOK, ToDo, Caller
<1>8. Asked'
  BY <1>1, <1>2, <1>3, <1>5, <1>6, Numbers DEF Asked
<1>9. Food'
  BY <1>1 DEF IInv, Food
<1> QED
  BY <1>2, <1>7, <1>8, <1>9 DEF IInv

-----------------------------------------------------------------------------
(* The requests of the prompt and of the tasks of the paths. *)

\* A game or a routing begins with the helpers of the last one gone, and forgotten.
LEMMA Beginning ==
    ASSUME IInv, Handles(Prompt), \A h \in Helper : Gone(h), todo' \in Seq(ToDo),
           route_trains' = Route, exiting' = FALSE,
           \A k \in 1 .. Len(todo') : todo'[k].type = "SPAWN",
           \A j, k \in 1 .. Len(todo') : todo'[j].index = todo'[k].index => j = k,
           UNCHANGED <<helper_tids, ending, at, train, path, await, lost, pacman>>,
           food_sensors' \subseteq FoodList /\ eaten' \in 0 .. FOOD_COUNT,
           score' \in 0 .. MaxScore /\ predictor' \in {"asks", "pacman"},
           pacman => eaten' + Cardinality(food_sensors') = FOOD_COUNT
    PROVE  IInv'
<1>1. /\ todo = <<>> /\ ending = None /\ await[Server] = "no"
      /\ senders' \in Seq(Caller) /\ IsInjective(senders')
  BY Handling
<1>2. \A i \in Slot : helper_tids[i] = None
  BY <1>1 DEF IInv, TypeOK, Owned
<1>3. TypeOK'
  <2>1. Route \in [Slot -> Train \cup {None}]
    BY ErrandsAssumption
  <2> QED
    BY <1>1, <2>1 DEF IInv, TypeOK, ToDo, Caller
<1>4. Owned'
  BY <1>2 DEF Owned, Gone, Entry
<1>5. Asked'
  <2>1. \A k \in 1 .. Len(todo') : todo'[k].index \in Slot
    <3>1. \A k \in 1 .. Len(todo') : todo'[k] \in ToDo
      BY ElementOfSeq
    <3> QED
      BY <3>1 DEF ToDo
  <2> QED
    BY <1>1, <1>2, <2>1 DEF Asked
<1>6. Endings'
  BY <1>1, Numbers DEF IInv, Endings, Gone
<1>7. Paths'
  BY DEF IInv, Paths, Gone
<1>8. Queued'
  BY QueuedLeaves
<1>9. Food'
  BY DEF Food
<1> QED
  BY <1>3, <1>4, <1>5, <1>6, <1>7, <1>8, <1>9 DEF IInv

\* All of FoodList is there at the start of a game.
LEMMA AllFood ==
    /\ IsFiniteSet(FoodList) /\ FOOD_COUNT \in Nat
    /\ \A s \in SUBSET FoodList : IsFiniteSet(s) /\ Cardinality(s) \in 0 .. FOOD_COUNT
<1>1. IsFiniteSet(FoodList)
  BY PacTrainAssumption, FS_Subset
<1>2. FOOD_COUNT \in Nat
  BY <1>1, FS_CardinalityType DEF FOOD_COUNT
<1>3. ASSUME NEW s \in SUBSET FoodList
      PROVE  IsFiniteSet(s) /\ Cardinality(s) \in 0 .. FOOD_COUNT
  <2>1. IsFiniteSet(s) /\ Cardinality(s) <= FOOD_COUNT
    BY <1>1, FS_Subset DEF FOOD_COUNT
  <2>2. Cardinality(s) \in Nat
    BY <2>1, FS_CardinalityType
  <2> QED
    BY <1>2, <2>1, <2>2
<1> QED
  BY <1>1, <1>2, <1>3

LEMMA GameBegins ==
    ASSUME IInv, HandleStartGame, UNCHANGED pacman
    PROVE  IInv'
<1>1. /\ Handles(Prompt) /\ \A h \in Helper : Gone(h)
      /\ route_trains' = Route /\ exiting' = FALSE
      /\ eaten' = 0 /\ score' = 0 /\ food_sensors' = FoodList
      /\ todo' = <<[index |-> 0, type |-> "SPAWN"]>>
      /\ UNCHANGED <<helper_tids, ending, at, train, path, await, lost, predictor>>
  BY DEF HandleStartGame
<1>2. /\ todo' \in Seq(ToDo) /\ \A k \in 1 .. Len(todo') : todo'[k].type = "SPAWN"
      /\ \A j, k \in 1 .. Len(todo') : todo'[j].index = todo'[k].index => j = k
  BY <1>1, Numbers DEF ToDo
<1>3. food_sensors' \subseteq FoodList /\ eaten' \in 0 .. FOOD_COUNT
      /\ eaten' + Cardinality(food_sensors') = FOOD_COUNT
  BY <1>1, AllFood DEF FOOD_COUNT
<1>4. score' \in 0 .. MaxScore /\ predictor' \in {"asks", "pacman"}
  BY <1>1, PacTrainAssumption DEF IInv, TypeOK
<1> QED
  BY <1>1, <1>2, <1>3, <1>4, Beginning

LEMMA RoutingBegins ==
    ASSUME IInv, ~pacman, HandleStartRouting, UNCHANGED <<pacVars, pacman>>
    PROVE  IInv'
<1>1. /\ Handles(Prompt) /\ exiting' = FALSE /\ \A h \in Helper : Gone(h)
      /\ todo' = [j \in 1 .. Slots |-> [index |-> j - 1, type |-> "SPAWN"]]
      /\ UNCHANGED <<helper_tids, route_trains, ending, at, train, path, await, lost,
                     food_sensors, eaten, score, predictor, pacman>>
  BY DEF HandleStartRouting, pacVars
<1>2. route_trains' = Route
  BY <1>1 DEF IInv, Owned
<1>3. todo' \in [1 .. Slots -> ToDo] /\ Slots \in Nat
  BY <1>1, ErrandsAssumption DEF ToDo, Slot
<1>4. todo' \in Seq(ToDo) /\ Len(todo') = Slots
  BY <1>3, SeqDef, LenProperties
<1>5. \A k \in 1 .. Len(todo') : todo'[k].type = "SPAWN" /\ todo'[k].index = k - 1
  BY <1>1, <1>4
<1>6. \A j, k \in 1 .. Len(todo') : todo'[j].index = todo'[k].index => j = k
  BY <1>5
<1>7. /\ food_sensors' \subseteq FoodList /\ eaten' \in 0 .. FOOD_COUNT
      /\ score' \in 0 .. MaxScore /\ predictor' \in {"asks", "pacman"}
  BY <1>1 DEF IInv, TypeOK
<1> QED
  <2>1. \A k \in 1 .. Len(todo') : todo'[k].type = "SPAWN"
    BY <1>5
  <2> QED
    BY <1>1, <1>2, <1>4, <1>6, <1>7, <2>1, Beginning

LEMMA EndIsAsked ==
    ASSUME IInv, HandleEnd, UNCHANGED <<pacVars, pacman>>
    PROVE  IInv'
<1>1. /\ Handles(Prompt) /\ exiting' = TRUE
      /\ UNCHANGED <<helper_tids, route_trains, todo, ending, at, train, path, await, lost,
                     food_sensors, eaten, score, predictor, pacman>>
  BY DEF HandleEnd, pacVars
<1>2. /\ todo = <<>> /\ ending = None /\ await[Server] = "no"
      /\ senders' \in Seq(Caller) /\ IsInjective(senders')
  BY <1>1, Handling
<1>3. TypeOK'
  BY <1>1, <1>2 DEF IInv, TypeOK, Caller
<1>4. Owned' /\ Asked' /\ Endings' /\ Paths' /\ Food'
  BY <1>1, <1>2 DEF IInv, Owned, Asked, Endings, Paths, Food, Gone, Entry
<1>5. Queued'
  BY <1>1, QueuedLeaves
<1> QED
  BY <1>3, <1>4, <1>5 DEF IInv

\* A request that changes nothing but the food, or a task that was killed as it sent.
LEMMA NothingChanges ==
    ASSUME IInv, NEW task, Handles(task), lost' \in BOOLEAN,
           UNCHANGED <<helper_tids, route_trains, exiting, todo, ending, at, train, path, await,
                       pacman>>,
           food_sensors' \subseteq FoodList /\ eaten' \in 0 .. FOOD_COUNT,
           score' \in 0 .. MaxScore /\ predictor' \in {"asks", "pacman"}, Food'
    PROVE  IInv'
<1>1. senders' \in Seq(Caller) /\ IsInjective(senders')
  BY Handling
<1>2. TypeOK'
  BY <1>1 DEF IInv, TypeOK, Caller
<1>3. Owned' /\ Asked' /\ Endings' /\ Paths'
  BY DEF IInv, Owned, Asked, Endings, Paths, Gone, Entry
<1>4. Queued'
  BY QueuedLeaves
<1> QED
  BY <1>2, <1>3, <1>4 DEF IInv

LEMMA Losing ==
    ASSUME IInv, ReceiveLost, UNCHANGED <<pacVars, pacman>>
    PROVE  IInv'
<1>1. PICK h \in Helper : Handles(h) /\ at[h] = "gone"
  BY DEF ReceiveLost
<1>2. /\ lost' = TRUE
      /\ UNCHANGED <<helper_tids, route_trains, exiting, todo, ending, at, train, path, await,
                     food_sensors, eaten, score, predictor, pacman>>
  BY DEF ReceiveLost, pacVars
<1>3. Food'
  BY <1>2 DEF IInv, Food
<1>4. /\ food_sensors' \subseteq FoodList /\ eaten' \in 0 .. FOOD_COUNT
      /\ score' \in 0 .. MaxScore /\ predictor' \in {"asks", "pacman"}
  BY <1>2 DEF IInv, TypeOK
<1> QED
  BY <1>1, <1>2, <1>3, <1>4, NothingChanges

LEMMA Asking ==
    ASSUME IInv, HandleGetPacTrain \/ \E t \in Train : HandleTrainIdentity(t), UNCHANGED pacman
    PROVE  IInv'
<1>1. /\ Handles(Asker) /\ predictor' \in {predictor, "asks", "pacman"}
      /\ UNCHANGED <<helper_tids, route_trains, exiting, todo, ending, at, train, path, await,
                     lost, food_sensors, eaten, score, pacman>>
  BY DEF HandleGetPacTrain, HandleTrainIdentity, pacVars
<1>2. Food'
  BY <1>1 DEF IInv, Food
<1>3. /\ food_sensors' \subseteq FoodList /\ eaten' \in 0 .. FOOD_COUNT
      /\ score' \in 0 .. MaxScore /\ predictor' \in {"asks", "pacman"} /\ lost' \in BOOLEAN
  BY <1>1 DEF IInv, TypeOK
<1> QED
  BY <1>1, <1>2, <1>3, NothingChanges

\* A score stays within the bound.
LEMMA ScoredProperties == \A n \in Nat : Scored(n) \in 0 .. MaxScore
BY PacTrainAssumption DEF Scored

\* What is eaten is counted.
LEMMA Eating ==
    ASSUME IInv, NEW s \in Sensor, HandleAteFood(s), pacman, UNCHANGED pacman
    PROVE  IInv'
<1> DEFINE ate == {s, Reverse_[s]} \cap food_sensors
<1>1. /\ Handles(Asker) /\ predictor' = "asks" /\ food_sensors' = food_sensors \ ate
      /\ eaten' = eaten + Cardinality(ate) /\ score' = Scored(score + 5 * Cardinality(ate))
      /\ UNCHANGED <<helper_tids, route_trains, exiting, todo, ending, at, train, path, await,
                     lost, pacman>>
  BY DEF HandleAteFood
<1>2. /\ food_sensors \subseteq FoodList /\ eaten \in 0 .. FOOD_COUNT /\ score \in 0 .. MaxScore
      /\ ate \subseteq food_sensors /\ lost \in BOOLEAN
  BY DEF IInv, TypeOK
<1>3. /\ IsFiniteSet(food_sensors) /\ Cardinality(food_sensors) \in 0 .. FOOD_COUNT
      /\ Cardinality(ate) \in 0 .. FOOD_COUNT /\ FOOD_COUNT \in Nat
  BY <1>2, AllFood
<1>4. Cardinality(food_sensors \ ate) = Cardinality(food_sensors) - Cardinality(ate)
  <2>1. food_sensors \cap ate = ate
    BY <1>2
  <2> HIDE DEF ate
  <2>2. Cardinality(food_sensors \ ate)
            = Cardinality(food_sensors) - Cardinality(food_sensors \cap ate)
    BY <1>3, FS_Difference
  <2> QED
    BY <2>1, <2>2
<1>5. food_sensors' \subseteq FoodList
  BY <1>1, <1>2
<1>6. Cardinality(food_sensors \ ate) \in 0 .. FOOD_COUNT
  BY <1>2, AllFood
<1> HIDE DEF ate
<1>7. score' \in 0 .. MaxScore
  <2>1. score + 5 * Cardinality(ate) \in Nat
    BY <1>2, <1>3, PacTrainAssumption
  <2> QED
    BY <1>1, <2>1, ScoredProperties
<1>8. CASE eaten + Cardinality(food_sensors) = FOOD_COUNT
  <2>1. eaten' + Cardinality(food_sensors') = FOOD_COUNT
    BY <1>1, <1>2, <1>3, <1>4, <1>8
  <2>2. eaten' \in 0 .. FOOD_COUNT
    BY <1>1, <1>2, <1>3, <1>6, <2>1
  <2>3. Food'
    BY <2>1 DEF Food
  <2> QED
    BY <1>1, <1>2, <1>5, <1>7, <2>2, <2>3, NothingChanges
<1>9. CASE /\ food_sensors = {} /\ eaten = 0 /\ todo = <<>>
           /\ \A h \in Helper : at[h] = "unborn"
  <2>1. ate = {} /\ food_sensors' = {}
    BY <1>1, <1>9 DEF ate
  <2>2. Cardinality(ate) = 0
    BY <2>1, FS_EmptySet
  <2>3. eaten' = 0
    BY <1>1, <1>9, <2>2
  <2>4. Food'
    BY <1>1, <1>9, <2>1, <2>3 DEF Food
  <2> QED
    BY <1>1, <1>2, <1>3, <1>5, <1>7, <2>3, <2>4, NothingChanges
<1> QED
  BY <1>8, <1>9 DEF IInv, Food

\* The indices whose ghosts join have no helper.
LEMMA JoiningProperties ==
    ASSUME NEW n \in Nat, NEW is \in SetToSeqs(Joining(n))
    PROVE  /\ is \in Seq(Slot)
           /\ \A j, k \in 1 .. Len(is) : is[j] = is[k] => j = k
           /\ \A k \in 1 .. Len(is) : helper_tids[is[k]] = None
<1>1. Joining(n) \subseteq Slot
  BY PacTrainAssumption DEF Joining
<1>2. IsFiniteSet(Slot)
  <2>1. 0 \in Int /\ Slots - 1 \in Int
    BY ErrandsAssumption
  <2> QED
    BY <2>1, FS_Interval DEF Slot
<1>3. Cardinality(Joining(n)) \in Nat
  BY <1>1, <1>2, FS_Subset, FS_CardinalityType
<1> DEFINE c == Cardinality(Joining(n))
<1>4. /\ is \in [1 .. c -> Joining(n)]
      /\ \A i, j \in 1 .. c : i # j => is[i] # is[j]
  BY DEF SetToSeqs
<1>5. is \in Seq(Joining(n)) /\ Len(is) = c
  <2>1. c \in Nat
    BY <1>3
  <2> HIDE DEF c
  <2>2. is \in Seq(Joining(n))
    BY <1>4, <2>1, SeqDef
  <2> QED
    BY <1>4, <2>1, <2>2, LenProperties
<1>6. is \in Seq(Slot)
  <2>1. is \in [1 .. c -> Slot] /\ c \in Nat
    BY <1>1, <1>3, <1>4
  <2> HIDE DEF c
  <2> QED
    BY <2>1, SeqDef
<1> HIDE DEF c
<1>7. \A k \in 1 .. Len(is) : is[k] \in Joining(n)
  BY <1>4, <1>5
<1>8. \A k \in 1 .. Len(is) : helper_tids[is[k]] = None
  BY <1>7 DEF Joining
<1>9. \A j, k \in 1 .. Len(is) : is[j] = is[k] => j = k
  BY <1>4, <1>5
<1> QED
  BY <1>6, <1>8, <1>9

\* The next food, and the ghosts that join.
LEMMA FoodIsReached ==
    ASSUME IInv, pacman, NEW h \in Helper, HandleReachedFoodDest(h), UNCHANGED pacman
    PROVE  IInv'
<1>1. getRandomFoodDest /\ predictor' = predictor
  BY DEF HandleReachedFoodDest
<1>2. PICK is \in SetToSeqs(Joining(score')) : HandleReached(h, is)
  BY DEF HandleReachedFoodDest
<1>3. at[h] = "sends"
  BY <1>2 DEF HandleReached
<1>4. eaten + Cardinality(food_sensors) = FOOD_COUNT
  BY <1>3 DEF IInv, Food
<1>5. /\ food_sensors \subseteq FoodList /\ eaten \in 0 .. FOOD_COUNT /\ score \in 0 .. MaxScore
      /\ predictor \in {"asks", "pacman"} /\ MaxScore \in Nat /\ FOOD_COUNT \in Nat
  BY PacTrainAssumption, AllFood DEF IInv, TypeOK
<1>6. food_sensors' \subseteq FoodList /\ eaten' \in 0 .. FOOD_COUNT
      /\ eaten' + Cardinality(food_sensors') = FOOD_COUNT
  <2>1. CASE eaten = FOOD_COUNT
    BY <1>1, <1>5, <2>1 DEF getRandomFoodDest, FOOD_COUNT
  <2>2. CASE eaten # FOOD_COUNT
    BY <1>1, <1>4, <1>5, <2>2 DEF getRandomFoodDest
  <2> QED
    BY <2>1, <2>2
<1>7. score' \in 0 .. MaxScore
  <2>1. score + 150 \in Nat
    BY <1>5
  <2>2. Scored(score + 150) \in 0 .. MaxScore
    BY <2>1, ScoredProperties
  <2> QED
    BY <1>1, <1>5, <2>2 DEF getRandomFoodDest
<1>8. /\ is \in Seq(Slot)
      /\ \A j, k \in 1 .. Len(is) : is[j] = is[k] => j = k
      /\ \A k \in 1 .. Len(is) : helper_tids[is[k]] = None
  <2>1. score' \in Nat
    BY <1>5, <1>7
  <2> QED
    BY <2>1, JoiningProperties
<1>9. predictor' \in {"asks", "pacman"}
  BY <1>1, <1>5
<1> QED
  BY <1>2, <1>6, <1>7, <1>8, <1>9, ReportGoesOn

LEMMA DestinationIsReached ==
    ASSUME IInv, ~pacman, NEW h \in Helper, HandleReachedDestination(h),
           UNCHANGED <<pacVars, pacman>>
    PROVE  IInv'
<1>1. HandleReached(h, <<>>) /\ UNCHANGED <<food_sensors, eaten, score, predictor, pacman>>
  BY DEF HandleReachedDestination, pacVars
<1>2. /\ food_sensors' \subseteq FoodList /\ eaten' \in 0 .. FOOD_COUNT
      /\ score' \in 0 .. MaxScore /\ predictor' \in {"asks", "pacman"}
  BY <1>1 DEF IInv, TypeOK
<1>3. /\ <<>> \in Seq(Slot) /\ \A k \in 1 .. Len(<<>>) : helper_tids[<<>>[k]] = None
      /\ \A j, k \in 1 .. Len(<<>>) : <<>>[j] = <<>>[k] => j = k
  BY EmptySeq
<1> QED
  BY <1>1, <1>2, <1>3, ReportGoesOn

\* The game is over: the helpers are killed, and the trains forgotten.
LEMMA GameIsOver ==
    ASSUME IInv, pacman, HandleGameOver, UNCHANGED pacman
    PROVE  IInv'
<1>1. PICK p \in Helper : Handles(PathOf(p))
  BY DEF HandleGameOver
<1>2. /\ at' = [h \in Helper |-> IF h \in Range(helper_tids) THEN "gone" ELSE at[h]]
      /\ await' = [w \in DOMAIN await |-> IF w \in Range(helper_tids) THEN "no" ELSE await[w]]
      /\ route_trains' = [i \in Slot |-> None] /\ helper_tids' = [i \in Slot |-> None]
      /\ UNCHANGED <<exiting, todo, ending, train, path, lost,
                     food_sensors, eaten, score, predictor, pacman>>
  BY DEF HandleGameOver, pacVars
<1>3. /\ todo = <<>> /\ ending = None /\ await[Server] = "no"
      /\ senders' \in Seq(Caller) /\ IsInjective(senders')
  BY <1>1, Handling
<1>4. \A h \in Helper : Gone(h)'
  <2> TAKE h \in Helper
  <2>1. CASE h \in Range(helper_tids)
    BY <1>2, <2>1 DEF Gone
  <2>2. CASE h \notin Range(helper_tids)
    <3>1. Gone(h)
      BY <2>2 DEF IInv, TypeOK, Owned, Entry, Range
    <3> QED
      BY <1>2, <2>2, <3>1 DEF Gone
  <2> QED
    BY <2>1, <2>2
<1>5. TypeOK'
  <2>1. /\ at' \in [Helper -> {"unborn", "plans", "waits", "sends", "receives", "exits", "gone"}]
        /\ await' \in [{Server} \cup Helper -> {"no", "looks", "found", "blocked", "over"}]
        /\ route_trains' \in [Slot -> Train \cup {None}]
        /\ helper_tids' \in [Slot -> Helper \cup {None}]
    BY <1>2 DEF IInv, TypeOK
  <2> QED
    BY <1>2, <1>3, <2>1 DEF IInv, TypeOK, Caller
<1>6. Owned'
  BY <1>2, <1>3, <1>4 DEF Owned
<1>7. Asked'
  BY <1>2, <1>3 DEF Asked
<1>8. \A w \in {Server} \cup Helper : await'[w] = "no"
  <2>1. Server \notin Range(helper_tids)
    BY Numbers DEF IInv, TypeOK, Range
  <2>2. \A h \in Helper : h \notin Range(helper_tids) => await[h] = "no"
    BY DEF IInv, TypeOK, Owned, Entry, Range, Paths, Gone
  <2> QED
    BY <1>2, <1>3, <2>1, <2>2 DEF IInv, TypeOK
<1>9. Endings'
  BY <1>2, <1>3, <1>4, <1>8 DEF Endings, Gone
<1>10. Paths'
  <2>1. \A h \in Helper : at'[h] = "unborn" => at[h] = "unborn"
    BY <1>2
  <2> QED
    BY <1>2, <1>4, <1>8, <2>1 DEF IInv, Paths, Gone
<1>11. Queued'
  <2>1. \A g \in Helper : at'[g] = at[g] \/ at'[g] = "gone"
    BY <1>2
  <2> QED
    BY <1>1, <2>1, QueuedLeaves
<1>12. Food'
  <2>1. (\A h \in Helper : at[h] = "unborn") => \A h \in Helper : at'[h] = "unborn"
    <3> SUFFICES ASSUME NEW h \in Helper, at[h] = "unborn"
                 PROVE  at'[h] = "unborn"
      OBVIOUS
    <3>1. h \notin Range(helper_tids)
      BY Numbers DEF IInv, TypeOK, Owned, Range
    <3> QED
      BY <1>2, <3>1
  <2> QED
    BY <1>2, <1>3, <2>1 DEF IInv, Food
<1> QED
  BY <1>5, <1>6, <1>7, <1>9, <1>10, <1>11, <1>12 DEF IInv

-----------------------------------------------------------------------------
(* A call, and every step. *)

LEMMA Calling ==
    ASSUME IInv, NEW task \in Caller, task \notin Helper, Calls(task),
           UNCHANGED <<helper_tids, route_trains, exiting, todo, ending, at, train, path, await,
                       lost, pacVars, pacman>>
    PROVE  IInv'
<1>1. /\ senders' \in Seq(Caller) /\ IsInjective(senders')
      /\ \A k \in 1 .. Len(senders') :
            senders'[k] = task \/ (k \in 1 .. Len(senders) /\ senders'[k] = senders[k])
  BY SendsProperties DEF Calls
<1>2. UNCHANGED <<food_sensors, eaten, score, predictor>>
  BY DEF pacVars
<1>3. TypeOK'
  BY <1>1, <1>2 DEF IInv, TypeOK, Caller
<1>4. Owned' /\ Asked' /\ Endings' /\ Paths' /\ Food'
  BY <1>2 DEF IInv, Owned, Asked, Endings, Paths, Food, Gone, Entry
<1>5. Queued'
  BY <1>1 DEF IInv, Queued
<1> QED
  BY <1>3, <1>4, <1>5 DEF IInv

LEMMA Initially == Init => IInv
<1> SUFFICES ASSUME Init PROVE IInv
  OBVIOUS
<1>1. /\ pacman \in BOOLEAN /\ exiting = FALSE /\ todo = <<>> /\ ending = None
      /\ helper_tids = [i \in Slot |-> None] /\ at = [h \in Helper |-> "unborn"]
      /\ train = [h \in Helper |-> None] /\ path = [h \in Helper |-> "none"]
      /\ await = [w \in {Server} \cup Helper |-> "no"] /\ senders = <<>> /\ lost = FALSE
      /\ food_sensors = {} /\ eaten = 0 /\ score = 0 /\ predictor = "asks"
      /\ route_trains = IF pacman THEN [i \in Slot |-> None] ELSE Route
  BY DEF Init, PacInit, ErrandsInit
<1>2. TypeOK
  <2>1. /\ todo \in Seq([index : Slot, type : {"SPAWN", "NEW", "END"}])
        /\ senders \in Seq(Helper \cup {PathOf(h) : h \in Helper} \cup {Prompt, Asker})
        /\ IsInjective(senders)
    BY <1>1 DEF IsInjective
  <2>2. eaten \in 0 .. FOOD_COUNT /\ score \in 0 .. MaxScore
    BY <1>1, AllFood, PacTrainAssumption
  <2>3. route_trains \in [Slot -> Train \cup {None}]
    BY <1>1, ErrandsAssumption
  <2> QED
    BY <1>1, <2>1, <2>2, <2>3 DEF TypeOK
<1>3. Owned
  BY <1>1 DEF Owned, Gone, Entry
<1>4. Asked
  BY <1>1 DEF Asked
<1>5. Endings
  BY <1>1, Numbers DEF Endings
<1>6. Paths
  BY <1>1 DEF Paths, Gone
<1>7. Queued /\ Food
  BY <1>1 DEF Queued, Food
<1> QED
  BY <1>2, <1>3, <1>4, <1>5, <1>6, <1>7 DEF IInv

LEMMA Inductive == IInv /\ [Next]_vars => IInv'
<1> SUFFICES ASSUME IInv, [Next]_vars PROVE IInv'
  OBVIOUS
<1>1. CASE UNCHANGED vars
  <2>1. UNCHANGED <<helper_tids, route_trains, exiting, todo, ending, at, train, path, await,
                    senders, lost, food_sensors, eaten, score, predictor, pacman>>
    BY <1>1 DEF vars, errandVars, pacVars
  <2>2. TypeOK'
    BY <2>1 DEF IInv, TypeOK
  <2>3. Owned' /\ Asked' /\ Endings'
    BY <2>1 DEF IInv, Owned, Asked, Endings, Gone, Entry
  <2>4. Paths' /\ Queued' /\ Food'
    BY <2>1 DEF IInv, Paths, Queued, Food, Gone
  <2> QED
    BY <2>2, <2>3, <2>4 DEF IInv
<1>2. CASE ErrandsStep /\ UNCHANGED <<pacVars, pacman>>
  <2>1. Server \in {Server} \cup Helper
    OBVIOUS
  <2> QED
    BY <1>2, <2>1, Spawning, SendingNext, SendingEnd, Awaited, EndIsAsked, Losing, AwaitStep,
       ReportEnds DEF ErrandsStep
<1>3. CASE pacman /\ PacStep /\ UNCHANGED pacman
  BY <1>3, GameBegins, FoodIsReached, GameIsOver, Asking, Eating DEF PacStep
<1>4. CASE ~pacman /\ RandomStep /\ UNCHANGED <<pacVars, pacman>>
  BY <1>4, RoutingBegins, DestinationIsReached DEF RandomStep
<1>5. CASE (\E h \in Helper : HelperStep(h)) /\ UNCHANGED <<pacVars, pacman>>
  BY <1>5, HelperPlanning, AwaitStep, HelperSending, HelperExiting DEF HelperStep
<1>6. CASE Environment /\ UNCHANGED pacman
  <2>1. ASSUME NEW h \in Helper, PathEnds(h) /\ UNCHANGED pacVars PROVE IInv'
    BY <1>6, <2>1, PathEnding
  <2>2. CASE OtherTaskEnds /\ UNCHANGED pacVars
    BY <1>6, <2>2, OtherTaskEnding
  <2>3. CASE (Call(Prompt) \/ Call(Asker)) /\ UNCHANGED pacVars
    BY <1>6, <2>3, Calling, Numbers DEF Call, Caller
  <2>4. ASSUME NEW h \in Helper, FindsNoWay(h) PROVE IInv'
    BY <1>6, <2>4, Calling, Numbers DEF FindsNoWay, Caller
  <2> QED
    BY <1>6, <2>1, <2>2, <2>3, <2>4 DEF Environment
<1> QED
  BY <1>1, <1>2, <1>3, <1>4, <1>5, <1>6 DEF Next, ServerStep

LEMMA Invariant == Spec => []IInv
<1> QED
  BY Initially, Inductive, PTL DEF Spec

-----------------------------------------------------------------------------
(* The theorems. *)

\* Whichever way a game or a routing is started, goes on and is ended, no helper is forgotten
\* and no entry is left for one that is gone.
THEOREM RoutingIsSafe == Spec => []RoutingInv
<1>1. IInv => RoutingInv
  BY DEF IInv, RoutingInv, HelpersOwned, Owned, Entry
<1> QED
  BY <1>1, Invariant, PTL

\* The server's Send to a helper finds it in Receive.
THEOREM NeverBlocks == Spec => []ServerNeverBlocks
<1>1. IInv => ServerNeverBlocks
  <2> SUFFICES ASSUME IInv, todo # <<>>, Head(todo).type # "SPAWN"
               PROVE  /\ helper_tids[Head(todo).index] # None
                      /\ at[helper_tids[Head(todo).index]] = "receives"
    BY DEF ServerNeverBlocks
  <2>1. Head(todo) = todo[1] /\ 1 \in 1 .. Len(todo)
    BY FirstAsked
  <2> QED
    BY <2>1 DEF IInv, Asked
<1> QED
  BY <1>1, Invariant, PTL

\* A helper goes on only when the path it has asked for has ended.
THEOREM OnePathOnly == Spec => []OnePath
<1>1. IInv => OnePath
  BY DEF IInv, OnePath, Paths
<1> QED
  BY <1>1, Invariant, PTL

\* The food that is left is counted, for every list of food.
THEOREM FoodIsCounted == Spec => []FoodCounted
<1>1. IInv => FoodCounted
  BY DEF IInv, FoodCounted, Food
<1> QED
  BY <1>1, Invariant, PTL
=============================================================================
