---------------------------- MODULE MemoryProofs ----------------------------
(***************************************************************************)
(* Theorems about Memory, for any number of tids, pages, frames and        *)
(* descriptors, and wherever the page table lies below USER_BASE; and      *)
(* about Slab, for any number of tasks and any size of the blocks.         *)
(***************************************************************************)
EXTENDS Memory, Slab, TLAPS

\* A live task has a page, so what DeletePage clears lies above the low pages.
LiveHavePages == \A t \in live : page[t] \in 0 .. Pages - 1

OwnedInv == MemoryInv /\ LiveHavePages

\* The page after create_task's failures: the low pages keep their marks.
LEMMA LowPagesKept ==
    ASSUME NEW S \in SUBSET (0 .. Pages - 1), NEW p \in 0 .. Pages - 1
    PROVE  /\ DeletePage(S, p) \in SUBSET (0 .. Pages - 1)
           /\ \A q \in S : q < Shift => q \in DeletePage(S, p)
<1>1. Shift \in Nat /\ Pages \in Nat
  BY MemoryAssumption
<1>2. \A q \in S : q < Shift => q # p + Shift
  BY <1>1
<1> QED
  BY <1>2 DEF DeletePage

\* Creating a task takes a page, a frame and a descriptor that nobody has.
LEMMA CreateTaskKeepsInv ==
    ASSUME OwnedInv,
           NEW p \in 0 .. Pages - 1, NEW f \in 0 .. Frames - 1, NEW d \in 0 .. Descs - 1,
           CreateTask(p, f, d)
    PROVE  OwnedInv'
<1>1. /\ nextTid \in 3 .. MaxTid + 1 /\ nextTid <= MaxTid /\ live \subseteq 1 .. nextTid - 1
      /\ MaxTid \in Nat /\ TypeOK /\ BlocksOwned /\ LowPagesOwned /\ LiveHavePages
  BY MemoryAssumption DEF OwnedInv, MemoryInv, TypeOK, CreateTask
<1>2. p \notin inUse /\ f \notin frames /\ d \notin descs
  BY DEF CreateTask, FirstFit
<1>3. /\ nextTid' = nextTid + 1 /\ live' = live \cup {nextTid}
      /\ inUse' = inUse \cup {p} /\ frames' = frames \cup {f} /\ descs' = descs \cup {d}
      /\ page' = [page EXCEPT ![nextTid] = p]
      /\ frame' = [frame EXCEPT ![nextTid] = f]
      /\ desc' = [desc EXCEPT ![nextTid] = d]
  BY DEF CreateTask
<1>4. nextTid \in Tid /\ nextTid \notin live /\ live \subseteq Tid
  BY <1>1 DEF Tid
<1>5. /\ page'[nextTid] = p /\ frame'[nextTid] = f /\ desc'[nextTid] = d
      /\ \A t \in live : page'[t] = page[t] /\ frame'[t] = frame[t] /\ desc'[t] = desc[t]
  BY <1>1, <1>3, <1>4 DEF TypeOK
<1>6. TypeOK'
  BY <1>1, <1>3, <1>4 DEF TypeOK
<1>7. \A t \in live : frame[t] \in frames /\ desc[t] \in descs
  BY <1>1 DEF BlocksOwned
<1>8. BlocksOwned'
  <2>1. \A t \in live' : frame'[t] \in frames'
    BY <1>3, <1>5, <1>7
  <2>2. \A t, u \in live' : u # t => frame'[u] # frame'[t] /\ desc'[u] # desc'[t]
    BY <1>1, <1>2, <1>3, <1>5, <1>7 DEF BlocksOwned
  <2>3. descs' = {desc'[t] : t \in live'}
    BY <1>1, <1>3, <1>5 DEF BlocksOwned
  <2> QED
    BY <2>1, <2>2, <2>3 DEF BlocksOwned
<1>9. LowPagesOwned'
  BY <1>1, <1>2, <1>3, <1>5 DEF LowPagesOwned
<1>10. LiveHavePages'
  BY <1>1, <1>3, <1>5 DEF LiveHavePages
<1> QED
  BY <1>6, <1>8, <1>9, <1>10 DEF OwnedInv, MemoryInv

\* The end of a task unmarks what no other task has, and no low page.
LEMMA DeleteTaskKeepsInv ==
    ASSUME OwnedInv, NEW t \in Tid, DeleteTask(t)
    PROVE  OwnedInv'
<1>1. /\ t \in live /\ TypeOK /\ BlocksOwned /\ LowPagesOwned /\ LiveHavePages
      /\ live' = live \ {t}
      /\ inUse' = DeletePage(inUse, page[t])
      /\ frames' = frames \ {frame[t]} /\ descs' = descs \ {desc[t]}
      /\ UNCHANGED <<nextTid, page, frame, desc>>
  BY DEF OwnedInv, MemoryInv, DeleteTask
<1>2. inUse \in SUBSET (0 .. Pages - 1) /\ page[t] \in 0 .. Pages - 1
  BY <1>1 DEF TypeOK, LiveHavePages
<1>3. /\ inUse' \in SUBSET (0 .. Pages - 1)
      /\ \A q \in inUse : q < Shift => q \in inUse'
  BY <1>1, <1>2, LowPagesKept
<1>4. TypeOK'
  BY <1>1, <1>3 DEF TypeOK
<1>5. BlocksOwned'
  <2>1. \A u \in live' : frame[u] \in frames' /\ \A v \in live' :
            v # u => frame[v] # frame[u] /\ desc[v] # desc[u]
    BY <1>1 DEF BlocksOwned
  <2>2. descs' = {desc[u] : u \in live'}
    BY <1>1 DEF BlocksOwned
  <2> QED
    BY <1>1, <2>1, <2>2 DEF BlocksOwned
<1>6. LowPagesOwned'
  BY <1>1, <1>3 DEF LowPagesOwned
<1>7. LiveHavePages'
  BY <1>1 DEF LiveHavePages
<1> QED
  BY <1>4, <1>5, <1>6, <1>7 DEF OwnedInv, MemoryInv

\* A Create that fails gives back the page, as far as the live tasks' low pages go.
LEMMA CreateFailedKeepsInv ==
    ASSUME OwnedInv, NEW p \in 0 .. Pages - 1, FirstFit(inUse, Pages, p),
           inUse' = DeletePage(inUse \cup {p}, p),
           frames \subseteq frames', frames' \subseteq 0 .. Frames - 1,
           UNCHANGED <<tasks, descs>>
    PROVE  OwnedInv'
<1>1. /\ UNCHANGED <<nextTid, live, page, frame, desc, descs>>
      /\ TypeOK /\ BlocksOwned /\ LowPagesOwned /\ LiveHavePages
  BY DEF tasks, OwnedInv, MemoryInv
<1>2. inUse \cup {p} \in SUBSET (0 .. Pages - 1)
  BY <1>1 DEF TypeOK
<1>3. /\ inUse' \in SUBSET (0 .. Pages - 1)
      /\ \A q \in inUse : q < Shift => q \in inUse'
  BY <1>2, LowPagesKept
<1>4. TypeOK'
  BY <1>1, <1>3 DEF TypeOK
<1>5. BlocksOwned' /\ LiveHavePages'
  BY <1>1 DEF BlocksOwned, LiveHavePages
<1>6. LowPagesOwned'
  BY <1>1, <1>3 DEF LowPagesOwned
<1> QED
  BY <1>4, <1>5, <1>6 DEF OwnedInv, MemoryInv

LEMMA OwnedInvariant == Spec => []OwnedInv
<1>1. Init => OwnedInv
  <2> SUFFICES ASSUME Init PROVE OwnedInv
    OBVIOUS
  <2>1. /\ MaxTid \in Nat /\ MaxTid >= 2 /\ Pages \in Nat /\ Pages >= 2
        /\ Frames \in Nat /\ Frames >= 2 /\ Descs \in Nat /\ Descs >= 2 /\ Shift \in Nat
    BY MemoryAssumption
  <2>2. page[1] = 0 /\ page[2] = 1 /\ frame = page /\ desc = page /\ live = {1, 2}
    BY <2>1 DEF Init, Tid, IdleTid
  <2>3. TypeOK
    BY <2>1 DEF Init, TypeOK, Tid, IdleTid, None
  <2>4. BlocksOwned
    <3>1. descs = {desc[t] : t \in live}
      <4>1. descs = {0, 1} /\ desc[1] = 0 /\ desc[2] = 1
        BY <2>2 DEF Init
      <4>2. {desc[t] : t \in {1, 2}} = {desc[1], desc[2]}
        OBVIOUS
      <4> QED
        BY <2>2, <4>1, <4>2
    <3> QED
      BY <2>2, <3>1 DEF Init, BlocksOwned
  <2>5. LowPagesOwned /\ LiveHavePages
    BY <2>1, <2>2 DEF Init, LowPagesOwned, LiveHavePages
  <2> QED
    BY <2>3, <2>4, <2>5 DEF OwnedInv, MemoryInv
<1>2. OwnedInv /\ [Next]_vars => OwnedInv'
  <2> SUFFICES ASSUME OwnedInv, [Next]_vars PROVE OwnedInv'
    OBVIOUS
  <2>1. CASE UNCHANGED vars
    BY <2>1 DEF vars, OwnedInv, MemoryInv, TypeOK, BlocksOwned, LowPagesOwned, LiveHavePages
  <2>2. CASE CreateRefused
    BY <2>1, <2>2 DEF CreateRefused
  <2>3. ASSUME NEW p \in 0 .. Pages - 1, CreateNoFrame(p)
        PROVE  OwnedInv'
    <3>1. frames \subseteq frames' /\ frames' \subseteq 0 .. Frames - 1
      BY <2>3 DEF CreateNoFrame, OwnedInv, MemoryInv, TypeOK
    <3> QED
      BY <2>3, <3>1, CreateFailedKeepsInv DEF CreateNoFrame
  <2>4. ASSUME NEW p \in 0 .. Pages - 1, NEW f \in 0 .. Frames - 1, CreateNoDescriptor(p, f)
        PROVE  OwnedInv'
    <3>1. frames \subseteq frames' /\ frames' \subseteq 0 .. Frames - 1
      BY <2>4 DEF CreateNoDescriptor, OwnedInv, MemoryInv, TypeOK
    <3> QED
      BY <2>4, <3>1, CreateFailedKeepsInv DEF CreateNoDescriptor
  <2> QED
    BY <2>1, <2>2, <2>3, <2>4, CreateTaskKeepsInv, DeleteTaskKeepsInv DEF Next
<1> QED
  BY <1>1, <1>2, PTL DEF Spec

\* Live tasks share no frame, no descriptor and no page below Shift, and no descriptor is
\* lost, whatever memory a Create is refused for and whatever tasks end (create_task and
\* delete_task of kern/task_descriptor.c, kern/addrspace.c).
THEOREM Ownership == Spec => []MemoryInv
<1>1. OwnedInv => MemoryInv
  BY DEF OwnedInv
<1> QED
  BY <1>1, OwnedInvariant, PTL

-----------------------------------------------------------------------------
(* What is lost. *)

\* The frames nobody has are the same after a task is created or has ended.
LEMMA CreateTaskLosesNone ==
    ASSUME OwnedInv,
           NEW p \in 0 .. Pages - 1, NEW f \in 0 .. Frames - 1, NEW d \in 0 .. Descs - 1,
           CreateTask(p, f, d)
    PROVE  LostFrames' = LostFrames
<1>1. /\ nextTid \in 3 .. MaxTid + 1 /\ nextTid <= MaxTid /\ live \subseteq 1 .. nextTid - 1
      /\ MaxTid \in Nat /\ frame \in [Tid -> 0 .. Frames - 1 \cup {None}]
      /\ live' = live \cup {nextTid} /\ frames' = frames \cup {f} /\ f \notin frames
      /\ frame' = [frame EXCEPT ![nextTid] = f]
  BY MemoryAssumption DEF OwnedInv, MemoryInv, TypeOK, CreateTask, FirstFit
<1>2. nextTid \in Tid /\ nextTid \notin live /\ live \subseteq Tid
  BY <1>1 DEF Tid
<1>3. frame'[nextTid] = f /\ \A t \in live : frame'[t] = frame[t]
  BY <1>1, <1>2
<1>4. LostFrames' = {g \in frames' : \A t \in live' : frame'[t] # g}
  BY DEF LostFrames
<1>5. \A g : g \in LostFrames' <=> g \in LostFrames
  <2>1. \A g : g \in LostFrames <=> g \in frames /\ \A t \in live : frame[t] # g
    BY DEF LostFrames
  <2> QED
    BY <1>1, <1>3, <1>4, <2>1
<1> QED
  BY <1>5

LEMMA DeleteTaskLosesNone ==
    ASSUME OwnedInv, NEW t \in Tid, DeleteTask(t)
    PROVE  LostFrames' = LostFrames
<1>1. /\ t \in live /\ live' = live \ {t} /\ frames' = frames \ {frame[t]} /\ frame' = frame
  BY DEF DeleteTask
<1>2. LostFrames' = {g \in frames' : \A u \in live' : frame'[u] # g}
  BY DEF LostFrames
<1> QED
  BY <1>1, <1>2 DEF LostFrames

\* create_task loses a switch frame only where it finds no descriptor
\* (kern/task_descriptor.c:43).
THEOREM FramesLost == Spec => FrameLostOnlyFull
<1> DEFINE Kept == LostFrames' # LostFrames => Full(descs, Descs) /\ live' = live
<1>1. ASSUME OwnedInv, [Next]_vars
      PROVE  Kept
  <2>1. ASSUME UNCHANGED <<frames, live, frame>>
        PROVE  Kept
    <3>1. LostFrames' = LostFrames
      BY <2>1 DEF LostFrames
    <3> QED
      BY <3>1
  <2>2. ASSUME NEW p \in 0 .. Pages - 1, NEW f \in 0 .. Frames - 1, CreateNoDescriptor(p, f)
        PROVE  Kept
    BY <2>2 DEF CreateNoDescriptor, tasks
  <2>3. ASSUME NEW p \in 0 .. Pages - 1, NEW f \in 0 .. Frames - 1, NEW d \in 0 .. Descs - 1,
               CreateTask(p, f, d)
        PROVE  Kept
    BY <1>1, <2>3, CreateTaskLosesNone
  <2>4. ASSUME NEW t \in Tid, DeleteTask(t)
        PROVE  Kept
    BY <1>1, <2>4, DeleteTaskLosesNone
  <2> HIDE DEF Kept
  <2> QED
    BY <1>1, <2>1, <2>2, <2>3, <2>4 DEF Next, CreateRefused, CreateNoFrame, vars, tasks
<1>2. OwnedInv /\ [Next]_vars => [Kept]_vars
  BY <1>1
<1>3. Spec => [][Kept]_vars
  <2> HIDE DEF Kept
  <2> QED
    BY <1>2, OwnedInvariant, PTL DEF Spec
<1> QED
  BY <1>3 DEF FrameLostOnlyFull

-----------------------------------------------------------------------------
(* The slab allocator. *)

\* The scan stops at the multiples of the block's size.
Multiple(i) == \E n \in Nat : i = n * Block

LEMMA Multiples ==
    /\ Multiple(0)
    /\ \A i : Multiple(i) => i \in Nat /\ Multiple(i + Block)
    /\ \A i, j : Multiple(i) /\ Multiple(j) /\ j < i + Block => j <= i
    /\ \A i : i \in Offset <=> Multiple(i) /\ i < Size
<1>1. Block \in Nat /\ Size \in Nat /\ 0 < Block
  BY SlabAssumption
<1>2. \A n \in Nat : n * Block \in Nat /\ n <= n * Block /\ n * Block + Block = (n + 1) * Block
  BY <1>1
<1>3. Multiple(0)
  BY <1>1 DEF Multiple
<1>4. \A i : Multiple(i) => i \in Nat /\ Multiple(i + Block)
  BY <1>2 DEF Multiple
<1>5. \A m, n \in Nat : m * Block < n * Block + Block => m * Block <= n * Block
  <2> SUFFICES ASSUME NEW m \in Nat, NEW n \in Nat, m * Block < n * Block + Block
               PROVE  m * Block <= n * Block
    OBVIOUS
  <2>1. CASE m <= n
    <3>1. (n - m) * Block \in Nat /\ (n - m) * Block = n * Block - m * Block
      BY <1>1, <2>1
    <3> QED
      BY <1>2, <3>1
  <2>2. CASE m > n
    <3>1. (m - (n + 1)) * Block \in Nat /\ (m - (n + 1)) * Block = m * Block - (n + 1) * Block
      BY <1>1, <2>2
    <3> QED
      BY <1>2, <3>1
  <2> QED
    BY <2>1, <2>2
<1>6. \A i, j : Multiple(i) /\ Multiple(j) /\ j < i + Block => j <= i
  BY <1>5 DEF Multiple
<1>7. \A i : i \in Offset <=> Multiple(i) /\ i < Size
  <2>1. \A i : i \in Offset => Multiple(i) /\ i < Size
    BY <1>1 DEF Offset, Multiple
  <2>2. ASSUME NEW n \in Nat, n * Block < Size
        PROVE  n * Block \in Offset
    <3>1. n * Block \in 0 .. Size - 1 /\ n \in 0 .. n * Block
      BY <1>1, <1>2, <2>2
    <3> QED
      BY <3>1 DEF Offset
  <2> QED
    BY <2>1, <2>2 DEF Multiple
<1> QED
  BY <1>3, <1>4, <1>6, <1>7

LEMMA WholeIs ==
    /\ \A i : Multiple(i) /\ i < Size /\ i + Block < Size => i \in Whole
    /\ \A b \in Whole : Multiple(b) /\ b \in Nat /\ b < Size
    /\ Whole \subseteq Offset
BY Multiples DEF Whole

\* Every variable has its type, and a task that is not in its own code is alone there.
SlabTypes ==
    /\ in_use \subseteq Whole
    /\ pc \in [Task -> {"user", "scan", "claim", "clear"}]
    /\ at \in [Task -> Nat]
    /\ held \in [Task -> SUBSET Whole]
    /\ \A t, u \in Task : pc[t] # "user" /\ pc[u] # "user" => t = u

\* The marks are those of the blocks that somebody has, or that are on their way back.
Marked ==
    /\ \A t \in Task : held[t] \subseteq in_use
    /\ \A t, u \in Task : t # u => held[t] \cap held[u] = {}
    /\ \A t \in Task : pc[t] = "clear" =>
           at[t] \in in_use /\ \A u \in Task : at[t] \notin held[u]
    /\ \A b \in in_use : \E t \in Task : b \in held[t] \/ (pc[t] = "clear" /\ b = at[t])

\* A scan has left nothing free behind it; what it has found is free.
Scanned ==
    \A t \in Task :
        /\ pc[t] = "scan" => Multiple(at[t]) /\ \A b \in Whole : b < at[t] => b \in in_use
        /\ pc[t] = "claim" => at[t] \in Whole \ in_use

SlabInv == SlabTypes /\ Marked /\ Scanned

LEMMA SlabStarts == SlabInit => SlabInv
BY DEF SlabInit, SlabInv, SlabTypes, Marked, Scanned

\* With interrupts masked, nobody else is inside when a task goes on.
LEMMA Alone ==
    ASSUME SlabInv, Masked, NEW t \in Task, Runs(t)
    PROVE  \A u \in Task : u # t => pc[u] = "user"
BY DEF Runs

\* What is free in the abstract pool are the blocks without a mark.
Unowned == Whole \ ((UNION {held[t] : t \in Task})
                    \cup {at[t] : t \in {u \in Task : pc[u] = "clear"}})

LEMMA UnownedIs == SlabInv => Unowned = Whole \ in_use
<1> SUFFICES ASSUME SlabInv PROVE Unowned = Whole \ in_use
  OBVIOUS
<1> DEFINE had == UNION {held[t] : t \in Task}
           back == {at[t] : t \in {u \in Task : pc[u] = "clear"}}
<1>1. \A b : b \in had <=> \E t \in Task : b \in held[t]
  OBVIOUS
<1>2. \A b : b \in back <=> \E t \in Task : pc[t] = "clear" /\ b = at[t]
  OBVIOUS
<1>3. \A b : b \in in_use <=> \E t \in Task : b \in held[t] \/ (pc[t] = "clear" /\ b = at[t])
  BY DEF SlabInv, Marked
<1>4. Unowned = Whole \ (had \cup back)
  BY DEF Unowned
<1> HIDE DEF had, back
<1>5. \A b : b \in in_use <=> b \in had \/ b \in back
  BY <1>1, <1>2, <1>3
<1> QED
  BY <1>4, <1>5

\* A step that neither marks nor clears leaves the free blocks as they are.
LEMMA UnownedStays ==
    ASSUME SlabInv, SlabInv', UNCHANGED in_use
    PROVE  Unowned' = Unowned
<1>1. Unowned' = Whole \ in_use'
  <2>1. (SlabInv => Unowned = Whole \ in_use)'
    BY UnownedIs, PTL
  <2> QED
    BY <2>1 DEF Whole, Offset
<1> QED
  BY <1>1, UnownedIs

\* What every step of a task does to where it stands.
LEMMA GoesProperties ==
    ASSUME SlabTypes, NEW t \in Task, NEW place \in {"user", "scan", "claim", "clear"},
           NEW i \in Nat, Goes(t, place, i)
    PROVE  /\ pc' \in [Task -> {"user", "scan", "claim", "clear"}] /\ at' \in [Task -> Nat]
           /\ pc'[t] = place /\ at'[t] = i
           /\ \A u \in Task : u # t => pc'[u] = pc[u] /\ at'[u] = at[u]
BY DEF SlabTypes, Goes

\* The steps that change no mark and no owner: the scan, and its end.
LEMMA ScanStep ==
    ASSUME SlabInv, Masked, NEW t \in Task, Alloc(t) \/ Look(t) \/ GiveUp(t)
    PROVE  /\ SlabInv' /\ UNCHANGED <<in_use, held>>
           /\ failed' = failed \/ (Whole \subseteq in_use /\ failed' = failed \cup {t})
<1>1. /\ Runs(t) /\ UNCHANGED <<in_use, held, warned>> /\ pc[t] \in {"user", "scan"}
  BY DEF Alloc, Look, GiveUp
<1>2. \A u \in Task : u # t => pc[u] = "user"
  BY <1>1, Alone
<1>3. Size \in Nat /\ Block \in Nat /\ at[t] \in Nat
  BY SlabAssumption DEF SlabInv, SlabTypes
<1>4. PICK place \in {"user", "scan", "claim"}, i \in Nat :
         /\ Goes(t, place, i)
         /\ place = "scan" => Multiple(i) /\ \A b \in Whole : b < i => b \in in_use
         /\ place = "claim" => i \in Whole \ in_use
  <2>1. CASE Alloc(t)
    <3>1. \A b \in Whole : ~(b < 0)
      BY WholeIs
    <3> QED
      BY <2>1, <3>1, Multiples DEF Alloc
  <2>2. CASE Look(t) /\ Usable(at[t])
    <3>1. Goes(t, "claim", at[t]) /\ at[t] < Size /\ pc[t] = "scan"
      BY <2>2 DEF Look
    <3>2. at[t] \in Whole \ in_use
      BY <2>2, <3>1, WholeIs DEF Usable, SlabInv, Scanned
    <3> QED
      BY <1>3, <3>1, <3>2
  <2>3. CASE Look(t) /\ ~Usable(at[t])
    <3>1. Goes(t, "scan", at[t] + Block) /\ at[t] < Size /\ pc[t] = "scan"
      BY <2>3 DEF Look
    <3>2. Multiple(at[t]) /\ \A b \in Whole : b < at[t] => b \in in_use
      BY <3>1 DEF SlabInv, Scanned
    <3>3. \A b \in Whole : b < at[t] + Block => b \in in_use
      <4> SUFFICES ASSUME NEW b \in Whole, b < at[t] + Block
                   PROVE  b \in in_use
        OBVIOUS
      <4>1. b <= at[t] /\ b \in Nat /\ b + Block < Size
        BY <3>2, Multiples, WholeIs DEF Whole
      <4>2. CASE b = at[t]
        BY <2>3, <4>1, <4>2 DEF Usable
      <4>3. CASE b < at[t]
        BY <3>2, <4>3
      <4> QED
        BY <1>3, <4>1, <4>2, <4>3
    <3>4. at[t] + Block \in Nat /\ Multiple(at[t] + Block)
      BY <1>3, <3>2, Multiples
    <3> QED
      BY <3>1, <3>3, <3>4
  <2>4. CASE GiveUp(t)
    BY <2>4 DEF GiveUp
  <2> QED
    BY <2>1, <2>2, <2>3, <2>4
<1>5. /\ pc' \in [Task -> {"user", "scan", "claim", "clear"}] /\ at' \in [Task -> Nat]
      /\ pc'[t] = place /\ at'[t] = i
      /\ \A u \in Task : u # t => pc'[u] = pc[u] /\ at'[u] = at[u]
  BY <1>4, GoesProperties DEF SlabInv
<1>6. SlabTypes'
  BY <1>1, <1>2, <1>5 DEF SlabInv, SlabTypes
<1>7. Marked'
  BY <1>1, <1>5 DEF SlabInv, Marked
<1>8. Scanned'
  BY <1>1, <1>2, <1>4, <1>5 DEF Scanned
<1>9. failed' = failed \/ (Whole \subseteq in_use /\ failed' = failed \cup {t})
  <2>1. CASE GiveUp(t)
    <3>1. pc[t] = "scan" /\ at[t] >= Size /\ failed' = failed \cup {t}
      BY <2>1 DEF GiveUp
    <3>2. \A b \in Whole : b < at[t]
      BY <1>3, <3>1, WholeIs
    <3> QED
      BY <3>1, <3>2 DEF SlabInv, Scanned
  <2> QED
    BY <2>1 DEF Alloc, Look
<1> QED
  BY <1>1, <1>6, <1>7, <1>8, <1>9 DEF SlabInv

LEMMA ClaimStep ==
    ASSUME SlabInv, Masked, NEW t \in Task, Claim(t)
    PROVE  SlabInv' /\ at[t] \in Whole \ in_use
<1>1. /\ pc[t] = "claim" /\ Runs(t) /\ Goes(t, "user", 0) /\ in_use' = in_use \cup {at[t]}
      /\ held' = [held EXCEPT ![t] = held[t] \cup {at[t]}]
  BY DEF Claim
<1>2. \A u \in Task : u # t => pc[u] = "user"
  BY <1>1, Alone
<1>3. at[t] \in Whole \ in_use
  BY <1>1 DEF SlabInv, Scanned
<1>4. /\ pc' \in [Task -> {"user", "scan", "claim", "clear"}] /\ at' \in [Task -> Nat]
      /\ \A u \in Task : pc'[u] = "user"
  BY <1>1, <1>2, GoesProperties DEF SlabInv
<1>5. \A u \in Task : held'[u] = IF u = t THEN held[t] \cup {at[t]} ELSE held[u]
  BY <1>1 DEF SlabInv, SlabTypes
<1>6. SlabTypes'
  <2>1. held' \in [Task -> SUBSET Whole]
    BY <1>1, <1>3 DEF SlabInv, SlabTypes
  <2>2. Whole' = Whole
    BY DEF Whole, Offset
  <2> QED
    BY <1>1, <1>3, <1>4, <2>1, <2>2 DEF SlabInv, SlabTypes
<1>7. Marked'
  <2>1. \A u \in Task : held'[u] \subseteq in_use'
    BY <1>1, <1>5 DEF SlabInv, Marked
  <2>2. \A u, v \in Task : u # v => held'[u] \cap held'[v] = {}
    <3>1. \A u \in Task : at[t] \notin held[u]
      BY <1>3 DEF SlabInv, Marked
    <3> QED
      BY <1>5, <3>1 DEF SlabInv, Marked
  <2>3. \A b \in in_use' : \E u \in Task : b \in held'[u]
    BY <1>1, <1>2, <1>5 DEF SlabInv, Marked
  <2> QED
    BY <1>4, <2>1, <2>2, <2>3 DEF Marked
<1>8. Scanned'
  BY <1>4 DEF Scanned
<1> QED
  BY <1>3, <1>6, <1>7, <1>8 DEF SlabInv

\* A block that is freed is always found marked: slab_free never warns.
LEMMA FreeStep ==
    ASSUME SlabInv, Masked, NEW t \in Task, NEW b \in Offset, Free(t, b)
    PROVE  SlabInv' /\ b \in Whole /\ UNCHANGED in_use
<1>1. /\ pc[t] = "user" /\ Runs(t) /\ b \in held[t] /\ UNCHANGED in_use
      /\ held' = [held EXCEPT ![t] = held[t] \ {b}]
  BY DEF Free
<1>2. \A u \in Task : pc[u] = "user"
  BY <1>1, Alone
<1>3. b \in in_use /\ b \in Whole /\ b \in Nat
  BY <1>1, WholeIs DEF SlabInv, SlabTypes, Marked
<1>4. Goes(t, "clear", b)
  BY <1>3 DEF Free
<1>5. /\ pc' \in [Task -> {"user", "scan", "claim", "clear"}] /\ at' \in [Task -> Nat]
      /\ pc'[t] = "clear" /\ at'[t] = b
      /\ \A u \in Task : u # t => pc'[u] = "user"
  BY <1>2, <1>3, <1>4, GoesProperties DEF SlabInv
<1>6. \A u \in Task : held'[u] = IF u = t THEN held[t] \ {b} ELSE held[u]
  BY <1>1 DEF SlabInv, SlabTypes
<1>7. SlabTypes'
  <2>1. held' \in [Task -> SUBSET Whole]
    BY <1>1 DEF SlabInv, SlabTypes
  <2>2. Whole' = Whole
    BY DEF Whole, Offset
  <2> QED
    BY <1>1, <1>5, <2>1, <2>2 DEF SlabInv, SlabTypes
<1>8. Marked'
  <2>1. /\ \A u \in Task : held'[u] \subseteq in_use'
        /\ \A u, v \in Task : u # v => held'[u] \cap held'[v] = {}
    BY <1>1, <1>6 DEF SlabInv, Marked
  <2>2. \A u \in Task : b \notin held'[u]
    BY <1>1, <1>6 DEF SlabInv, Marked
  <2>3. \A u \in Task : pc'[u] = "clear" =>
           at'[u] \in in_use' /\ \A v \in Task : at'[u] \notin held'[v]
    BY <1>1, <1>3, <1>5, <2>2
  <2>4. \A c \in in_use' : \E u \in Task : c \in held'[u] \/ (pc'[u] = "clear" /\ c = at'[u])
    <3> TAKE c \in in_use'
    <3>1. CASE c = b
      BY <1>5, <3>1
    <3>2. CASE c # b
      <4>1. PICK u \in Task : c \in held[u]
        BY <1>1, <1>2 DEF SlabInv, Marked
      <4> QED
        BY <1>6, <3>2, <4>1
    <3> QED
      BY <3>1, <3>2
  <2> QED
    BY <2>1, <2>3, <2>4 DEF Marked
<1>9. Scanned'
  BY <1>5 DEF Scanned
<1> QED
  BY <1>1, <1>3, <1>7, <1>8, <1>9 DEF SlabInv

LEMMA ClearStep ==
    ASSUME SlabInv, Masked, NEW t \in Task, Clear(t)
    PROVE  /\ SlabInv' /\ at[t] \in in_use /\ in_use \subseteq Whole
           /\ \A u \in Task : at[t] \notin held[u]
<1>1. /\ pc[t] = "clear" /\ Runs(t) /\ Goes(t, "user", 0) /\ in_use' = in_use \ {at[t]}
      /\ held' = held
  BY DEF Clear
<1>2. \A u \in Task : u # t => pc[u] = "user"
  BY <1>1, Alone
<1>3. at[t] \in in_use /\ \A u \in Task : at[t] \notin held[u]
  BY <1>1 DEF SlabInv, Marked
<1>4. /\ pc' \in [Task -> {"user", "scan", "claim", "clear"}] /\ at' \in [Task -> Nat]
      /\ \A u \in Task : pc'[u] = "user"
  BY <1>1, <1>2, GoesProperties DEF SlabInv
<1>5. SlabTypes'
  <2>1. Whole' = Whole
    BY DEF Whole, Offset
  <2> QED
    BY <1>1, <1>4, <2>1 DEF SlabInv, SlabTypes
<1>6. Marked'
  <2>1. \A u \in Task : held'[u] \subseteq in_use'
    BY <1>1, <1>3 DEF SlabInv, Marked
  <2>2. \A b \in in_use' : \E u \in Task : b \in held'[u]
    <3> TAKE b \in in_use'
    <3>1. b \in in_use /\ b # at[t]
      BY <1>1
    <3> QED
      BY <1>1, <1>2, <3>1 DEF SlabInv, Marked
  <2> QED
    BY <1>1, <1>4, <2>1, <2>2 DEF SlabInv, Marked
<1>7. Scanned'
  BY <1>4 DEF Scanned
<1> QED
  BY <1>3, <1>5, <1>6, <1>7 DEF SlabInv, SlabTypes

\* Every step of a task is one of the abstract pool, or changes nothing there.
LEMMA SlabStep ==
    ASSUME SlabInv, Masked, [SlabNext]_slabVars
    PROVE  SlabInv' /\ [Pool!Next]_(Pool!pvars)
<1> DEFINE stays == UNCHANGED <<Unowned, held, failed>>
<1>1. /\ SlabInv' => Unowned' = Whole \ in_use'
      /\ Unowned = Whole \ in_use
  <2>1. (SlabInv => Unowned = Whole \ in_use)'
    BY UnownedIs, PTL
  <2> QED
    BY <2>1, UnownedIs DEF Whole, Offset
<1>2. stays => UNCHANGED Pool!pvars
  BY DEF Pool!pvars, Unowned
<1>3. CASE UNCHANGED slabVars
  <2>1. UNCHANGED <<in_use, pc, at, held, failed, warned>> /\ Whole' = Whole
    BY <1>3 DEF slabVars, Whole, Offset
  <2>2. SlabInv'
    BY <2>1 DEF SlabInv, SlabTypes, Marked, Scanned, Multiple
  <2> QED
    BY <1>1, <1>2, <2>1, <2>2
<1>4. ASSUME NEW t \in Task, Alloc(t) \/ Look(t) \/ GiveUp(t)
      PROVE  SlabInv' /\ [Pool!Next]_(Pool!pvars)
  <2>1. /\ SlabInv' /\ UNCHANGED <<in_use, held>>
        /\ failed' = failed \/ (Whole \subseteq in_use /\ failed' = failed \cup {t})
    BY <1>4, ScanStep
  <2>2. Unowned' = Unowned
    BY <1>1, <2>1
  <2>3. CASE failed' = failed
    BY <1>2, <2>1, <2>2, <2>3
  <2>4. CASE Whole \subseteq in_use /\ failed' = failed \cup {t}
    <3>1. Unowned = {}
      BY <1>1, <2>4
    <3>2. Pool!Deny(t)
      BY <2>1, <2>2, <2>4, <3>1 DEF Pool!Deny, Unowned
    <3> QED
      BY <2>1, <3>2 DEF Pool!Next
  <2> QED
    BY <2>1, <2>3, <2>4
<1>5. ASSUME NEW t \in Task, Claim(t)
      PROVE  SlabInv' /\ [Pool!Next]_(Pool!pvars)
  <2>1. PICK b \in Whole \ in_use : b = at[t]
    BY <1>5, ClaimStep
  <2>2. /\ SlabInv' /\ in_use' = in_use \cup {b}
        /\ held' = [held EXCEPT ![t] = @ \cup {b}] /\ failed' = failed \ {t}
    BY <1>5, <2>1, ClaimStep DEF Claim
  <2>3. b \in Unowned /\ Unowned' = Unowned \ {b}
    BY <1>1, <2>2
  <2>4. Pool!Get(t, b)
    BY <2>2, <2>3 DEF Pool!Get, Unowned
  <2> QED
    BY <2>1, <2>2, <2>4 DEF Pool!Next
<1>6. ASSUME NEW t \in Task, NEW b \in Offset, Free(t, b)
      PROVE  SlabInv' /\ [Pool!Next]_(Pool!pvars)
  <2>1. /\ SlabInv' /\ b \in Whole /\ UNCHANGED <<in_use, failed>> /\ b \in held[t]
        /\ held' = [held EXCEPT ![t] = @ \ {b}]
    BY <1>6, FreeStep DEF Free
  <2>2. Unowned' = Unowned
    BY <1>1, <2>1
  <2>3. Pool!Drop(t, b)
    BY <2>1, <2>2 DEF Pool!Drop, Unowned
  <2> QED
    BY <2>1, <2>3 DEF Pool!Next
<1>7. ASSUME NEW t \in Task, Clear(t)
      PROVE  SlabInv' /\ [Pool!Next]_(Pool!pvars)
  <2>1. PICK b \in in_use : b = at[t]
    BY <1>7, ClearStep
  <2>2. /\ SlabInv' /\ in_use \subseteq Whole /\ in_use' = in_use \ {b}
        /\ UNCHANGED <<held, failed>> /\ \A u \in Task : b \notin held[u]
    BY <1>7, <2>1, ClearStep DEF Clear
  <2>3. b \in Whole \ Unowned /\ Unowned' = Unowned \cup {b}
    BY <1>1, <2>2
  <2>4. Pool!Return(b)
    BY <2>2, <2>3 DEF Pool!Return, Unowned
  <2> QED
    BY <2>2, <2>3, <2>4 DEF Pool!Next
<1> QED
  BY <1>3, <1>4, <1>5, <1>6, <1>7 DEF SlabNext

\* The slab of kalloc.c with interrupts masked, as the kernel uses it, is an allocator: a
\* block is given to one task only, one that is freed can be had again, and slab_alloc
\* refuses only when all are taken.
THEOREM SlabIsPool ==
    ASSUME Masked
    PROVE  SlabSpec => PoolContract
<1>1. SlabInit => SlabInv /\ Pool!Init
  <2> SUFFICES ASSUME SlabInit PROVE SlabInv /\ Pool!Init
    OBVIOUS
  <2>1. SlabInv
    BY SlabStarts
  <2>2. Unowned = Whole
    BY <2>1, UnownedIs DEF SlabInit
  <2>3. Pool!Init
    BY <2>2 DEF Pool!Init, SlabInit, Unowned
  <2> QED
    BY <2>1, <2>3
<1>2. SlabInv /\ [SlabNext]_slabVars => SlabInv' /\ [Pool!Next]_(Pool!pvars)
  BY SlabStep
<1> QED
  BY <1>1, <1>2, PTL DEF SlabSpec, PoolContract, Pool!Spec
=============================================================================
