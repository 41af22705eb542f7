----------------------------- MODULE ByteQueue -----------------------------
(***************************************************************************)
(* The ring buffer of src/lib/byte_queue.c.  is_full is left out: it is    *)
(* only ever written.                                                      *)
(***************************************************************************)
EXTENDS Integers, Sequences

CONSTANT MAX_QUEUE_LENGTH

ASSUME QueueAssumption == MAX_QUEUE_LENGTH \in Nat \ {0}

Ring(Byte) == [que : [0 .. MAX_QUEUE_LENGTH - 1 -> Byte],
               front_ptr : 0 .. MAX_QUEUE_LENGTH - 1, back_ptr : 0 .. MAX_QUEUE_LENGTH - 1,
               len : 0 .. MAX_QUEUE_LENGTH]

new_byte_queue == [que |-> [i \in 0 .. MAX_QUEUE_LENGTH - 1 |-> 0],
                   front_ptr |-> 0, back_ptr |-> 0, len |-> 0]

\* Mutant of push: a full ring takes the byte.
push_unchecked(q, byte) ==
    [q EXCEPT !.que[q.back_ptr] = byte, !.back_ptr = (@ + 1) % MAX_QUEUE_LENGTH, !.len = @ + 1]

\* A full ring drops the byte.
push(q, byte) ==
    IF q.len < MAX_QUEUE_LENGTH
    THEN [q EXCEPT !.que[q.back_ptr] = byte, !.back_ptr = (@ + 1) % MAX_QUEUE_LENGTH,
                   !.len = @ + 1]
    ELSE q

\* n pops at once; the last byte they return, if n > 0, is Contents(q)[n].
popped(q, n) == [q EXCEPT !.front_ptr = (@ + n) % MAX_QUEUE_LENGTH, !.len = @ - n]

isEmpty(q) == q.len = 0

\* The bytes in the order in which pop returns them.
Contents(q) == [i \in 1 .. q.len |-> q.que[(q.front_ptr + i - 1) % MAX_QUEUE_LENGTH]]
=============================================================================
