------------------------------- MODULE Memory -------------------------------
(***************************************************************************)
(* The memory a task is made of: a 64 KB page for its stack (addrspace.c), *)
(* a switch frame and a descriptor (two slabs of kalloc.c), and how        *)
(* create_task and delete_task (task_descriptor.c) take and give them back.*)
(* Both run inside a system call, with interrupts masked, so each is one   *)
(* action.  Which task calls, and the schedule, are left to module Kernel. *)
(*                                                                         *)
(* pagetable_deletepage computes the number of the page from the address   *)
(* of the page table instead of USER_BASE: it clears entry i + Shift for   *)
(* page i.  Shift is a constant of the linked image, at least 1 as the     *)
(* kernel's data ends below USER_BASE.                                     *)
(***************************************************************************)
EXTENDS Integers, FiniteSets

CONSTANTS
    MaxTid,  \* TASK_SIZE - 1
    Pages,   \* entries of the page table
    Frames,  \* switch frames that fit in the SWITCH_FRAME slab
    Descs,   \* task descriptors that fit in the TASK slab
    Shift    \* (USER_BASE - &pagetable) / USER_ADDRSPACE_SIZE

ASSUME MemoryAssumption ==
    /\ MaxTid \in Nat /\ MaxTid >= 2
    /\ Pages \in Nat /\ Frames \in Nat /\ Descs \in Nat
    /\ Pages >= 2 /\ Frames >= 2 /\ Descs >= 2
    /\ Shift \in Nat /\ Shift >= 1

Tid  == 1 .. MaxTid
None == -1          \* the task has never been created

IdleTid == 1        \* it never exits, and no program kills it

VARIABLES
    nextTid,  \* task_list.next_tid
    live,     \* the tids with an entry in task_list.tasks
    page,     \* TaskDescriptor.addrspace, as a page number; kept after the task ends
    frame,    \* TaskDescriptor.switch_frame, as a slot number; kept likewise
    desc,     \* the slot of the descriptor; kept likewise
    inUse,    \* the pages marked in pagetable.in_use
    frames,   \* the slots marked in the SWITCH_FRAME slab
    descs     \* the slots marked in the TASK slab
vars == <<nextTid, live, page, frame, desc, inUse, frames, descs>>

tasks == <<nextTid, live, page, frame, desc>>

\* Mutant of FirstFit: the number of marked slots is taken for the first free one.
FirstFitCount(S, n, s) == s \in 0 .. n - 1 /\ s = Cardinality(S)

\* Slot s of n is the one a first-fit scan of the marks S returns.
FirstFit(S, n, s) == s \in 0 .. n - 1 /\ s \notin S /\ \A i \in 0 .. s - 1 : i \in S

Full(S, n) == \A s \in 0 .. n - 1 : s \in S

\* Mutant of DeletePage: the page is identified by the upper end of its stack.
DeletePageUpper(S, p) == S \ {p + 1}

\* pagetable_deletepage for page p; past its end the table is not changed (the
\* store hits other data).
DeletePage(S, p) == S \ {p + Shift}

-----------------------------------------------------------------------------

\* create_task finds no tid or no page: nothing changes.
CreateRefused ==
    /\ nextTid > MaxTid \/ Full(inUse, Pages)
    /\ UNCHANGED vars

\* There is a page p but no switch frame: the page is given back.
CreateNoFrame(p) ==
    /\ nextTid <= MaxTid
    /\ FirstFit(inUse, Pages, p)
    /\ Full(frames, Frames)
    /\ inUse' = DeletePage(inUse \cup {p}, p)
    /\ UNCHANGED <<tasks, frames, descs>>

\* There is a page and a frame f but no descriptor: the page is given back, the
\* frame is not; slab_free of the null descriptor only logs a warning.
CreateNoDescriptor(p, f) ==
    /\ nextTid <= MaxTid
    /\ FirstFit(inUse, Pages, p)
    /\ FirstFit(frames, Frames, f)
    /\ Full(descs, Descs)
    /\ inUse' = DeletePage(inUse \cup {p}, p)
    /\ frames' = frames \cup {f}
    /\ UNCHANGED <<tasks, descs>>

\* Mutant of CreateTask: the last tid is not refused.
CreateTaskAnyTid(p, f, d) ==
    /\ FirstFit(inUse, Pages, p)
    /\ FirstFit(frames, Frames, f)
    /\ FirstFit(descs, Descs, d)
    /\ inUse' = inUse \cup {p}
    /\ frames' = frames \cup {f}
    /\ descs' = descs \cup {d}
    /\ live' = live \cup {nextTid}
    /\ page' = [page EXCEPT ![nextTid] = p]
    /\ frame' = [frame EXCEPT ![nextTid] = f]
    /\ desc' = [desc EXCEPT ![nextTid] = d]
    /\ nextTid' = nextTid + 1

CreateTask(p, f, d) ==
    /\ nextTid <= MaxTid
    /\ FirstFit(inUse, Pages, p)
    /\ FirstFit(frames, Frames, f)
    /\ FirstFit(descs, Descs, d)
    /\ inUse' = inUse \cup {p}
    /\ frames' = frames \cup {f}
    /\ descs' = descs \cup {d}
    /\ live' = live \cup {nextTid}
    /\ page' = [page EXCEPT ![nextTid] = p]
    /\ frame' = [frame EXCEPT ![nextTid] = f]
    /\ desc' = [desc EXCEPT ![nextTid] = d]
    /\ nextTid' = nextTid + 1

\* Mutant of DeleteTask: the frame stays marked.
DeleteTaskKeepsFrame(t) ==
    /\ t \in live
    /\ live' = live \ {t}
    /\ inUse' = DeletePage(inUse, page[t])
    /\ descs' = descs \ {desc[t]}
    /\ UNCHANGED <<nextTid, page, frame, desc, frames>>

\* delete_task, for Exit and for Kill of a live task.
DeleteTask(t) ==
    /\ t \in live
    /\ live' = live \ {t}
    /\ inUse' = DeletePage(inUse, page[t])
    /\ frames' = frames \ {frame[t]}
    /\ descs' = descs \ {desc[t]}
    /\ UNCHANGED <<nextTid, page, frame, desc>>

\* The idle task and the first task, created by kmain.
Init ==
    /\ nextTid = 3
    /\ live = {IdleTid, 2}
    /\ page = [t \in Tid |-> IF t <= 2 THEN t - 1 ELSE None]
    /\ frame = page
    /\ desc = page
    /\ inUse = {0, 1} /\ frames = {0, 1} /\ descs = {0, 1}

Next ==
    \/ CreateRefused
    \/ \E p \in 0 .. Pages - 1 : CreateNoFrame(p)
    \/ \E p \in 0 .. Pages - 1, f \in 0 .. Frames - 1 : CreateNoDescriptor(p, f)
    \/ \E p \in 0 .. Pages - 1, f \in 0 .. Frames - 1, d \in 0 .. Descs - 1 :
          CreateTask(p, f, d)
    \/ \E t \in Tid \ {IdleTid} : DeleteTask(t)

Spec == Init /\ [][Next]_vars

-----------------------------------------------------------------------------
(* Properties. *)

\* Every variable has its type; tids are given in order.
TypeOK ==
    /\ nextTid \in 3 .. MaxTid + 1
    /\ live \subseteq 1 .. nextTid - 1
    /\ page \in [Tid -> 0 .. Pages - 1 \cup {None}]
    /\ frame \in [Tid -> 0 .. Frames - 1 \cup {None}]
    /\ desc \in [Tid -> 0 .. Descs - 1 \cup {None}]
    /\ inUse \subseteq 0 .. Pages - 1
    /\ frames \subseteq 0 .. Frames - 1
    /\ descs \subseteq 0 .. Descs - 1

\* The blocks of the live tasks are marked and their own, whatever tasks were created,
\* refused and deleted before; and no other descriptor is marked: the TASK slab loses
\* none, so that Descs tasks can always live at once (frames permitting).
BlocksOwned ==
    /\ \A t \in live :
          /\ frame[t] \in frames
          /\ \A u \in live : u # t => frame[u] # frame[t] /\ desc[u] # desc[t]
    /\ descs = {desc[t] : t \in live}

\* A switch frame is lost only by a Create that finds a page and a frame but no
\* descriptor.
LostFrames == {f \in frames : \A t \in live : frame[t] # f}
FrameLostOnlyFull ==
    [][LostFrames' # LostFrames => Full(descs, Descs) /\ live' = live]_vars

\* The stack of a task on one of the first Shift pages is its own as long as it
\* lives: whatever tasks end meanwhile, the page stays marked and no other live
\* task is given it.
LowPagesOwned ==
    \A t \in live : page[t] < Shift =>
        /\ page[t] \in inUse
        /\ \A u \in live : u # t => page[u] # page[t]

\* Whatever memory a Create is refused for and whatever tasks end, live tasks
\* share no frame, descriptor or low page, and no descriptor is lost.
MemoryInv == TypeOK /\ BlocksOwned /\ LowPagesOwned
=============================================================================
