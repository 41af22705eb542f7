-------------------------------- MODULE Slab --------------------------------
(***************************************************************************)
(* One partition of the slab allocator (src/kern/kalloc.c) and the tasks   *)
(* that use it.  In the kernel its calls run with interrupts masked.  The  *)
(* tasks call the same code in user mode, through lib/alloc.c: there an    *)
(* interrupt may hand the processor to another task between any two steps, *)
(* and the lists of all servers share the partition of list nodes.         *)
(***************************************************************************)
EXTENDS Integers, FiniteSets

CONSTANTS
    Task,    \* the tasks that allocate from this partition
    Size,    \* SLAB_ALLOCATOR_SIZE
    Block,   \* block_size of the partition
    Masked   \* interrupts are masked during slab_alloc and slab_free

ASSUME SlabAssumption ==
    /\ Size \in Nat /\ Block \in Nat /\ 0 < Block /\ Block < Size
    /\ Masked \in BOOLEAN

\* The offsets a scan looks at; the block at the last one may not fit.
Offset == {i \in 0 .. Size - 1 : \E n \in 0 .. i : i = n * Block}

VARIABLES
    in_use,  \* the offsets marked in in_use
    pc,      \* where each task stands in slab_alloc or slab_free
    at,      \* the offset it is at (i, or offset)
    held,    \* the blocks each task has been given and has not freed
    failed,  \* the tasks whose last slab_alloc returned 0
    warned   \* slab_free has found the mark of the block it frees cleared
slabVars == <<in_use, pc, at, held, failed, warned>>

\* Task t may take a step of slab_alloc or slab_free.
Runs(t) == Masked => \A u \in Task \ {t} : pc[u] = "user"

Goes(t, place, i) == pc' = [pc EXCEPT ![t] = place] /\ at' = [at EXCEPT ![t] = i]

-----------------------------------------------------------------------------

Alloc(t) ==
    /\ pc[t] = "user" /\ Runs(t)
    /\ Goes(t, "scan", 0)
    /\ UNCHANGED <<in_use, held, failed, warned>>

\* The test of slab_alloc; a block that ends exactly at Size is left out.
Usable(i) == i \notin in_use /\ i + Block < Size

Look(t) ==
    /\ pc[t] = "scan" /\ Runs(t)
    /\ at[t] < Size
    /\ IF Usable(at[t]) THEN Goes(t, "claim", at[t]) ELSE Goes(t, "scan", at[t] + Block)
    /\ UNCHANGED <<in_use, held, failed, warned>>

\* Mutant of Claim: the mark is not set.
ClaimUnmarked(t) ==
    /\ pc[t] = "claim" /\ Runs(t)
    /\ held' = [held EXCEPT ![t] = @ \cup {at[t]}]
    /\ failed' = failed \ {t}
    /\ Goes(t, "user", 0)
    /\ UNCHANGED <<in_use, warned>>

Claim(t) ==
    /\ pc[t] = "claim" /\ Runs(t)
    /\ in_use' = in_use \cup {at[t]}
    /\ held' = [held EXCEPT ![t] = @ \cup {at[t]}]
    /\ failed' = failed \ {t}
    /\ Goes(t, "user", 0)
    /\ UNCHANGED warned

GiveUp(t) ==
    /\ pc[t] = "scan" /\ Runs(t)
    /\ at[t] >= Size
    /\ failed' = failed \cup {t}
    /\ Goes(t, "user", 0)
    /\ UNCHANGED <<in_use, held, warned>>

\* A task frees a block it was given.
Free(t, b) ==
    /\ pc[t] = "user" /\ Runs(t)
    /\ b \in held[t]
    /\ held' = [held EXCEPT ![t] = @ \ {b}]
    /\ IF b \in in_use
       THEN Goes(t, "clear", b) /\ UNCHANGED warned
       ELSE warned' = TRUE /\ UNCHANGED <<pc, at>>
    /\ UNCHANGED <<in_use, failed>>

Clear(t) ==
    /\ pc[t] = "clear" /\ Runs(t)
    /\ in_use' = in_use \ {at[t]}
    /\ Goes(t, "user", 0)
    /\ UNCHANGED <<held, failed, warned>>

SlabInit ==
    /\ in_use = {}
    /\ pc = [t \in Task |-> "user"]
    /\ at = [t \in Task |-> 0]
    /\ held = [t \in Task |-> {}]
    /\ failed = {}
    /\ warned = FALSE

SlabNext == \E t \in Task :
    \/ Alloc(t) \/ Look(t) \/ Claim(t) \/ GiveUp(t)
    \/ \E b \in Offset : Free(t, b)
    \/ Clear(t)

SlabSpec == SlabInit /\ [][SlabNext]_slabVars

-----------------------------------------------------------------------------
(* Properties. *)

\* The blocks that do not reach the end of the buffer.
Whole == {b \in Offset : b + Block < Size}

\* What an allocator promises: a block inside the buffer, nobody else's; and a
\* refusal only when there is none.
Pool == INSTANCE BlockPool WITH
            Blocks <- Whole,
            free   <- Whole \ ((UNION {held[t] : t \in Task})
                               \cup {at[t] : t \in {u \in Task : pc[u] = "clear"}}),
            owned  <- held,
            denied <- failed
PoolContract == Pool!Spec

=============================================================================
