----------------------------- MODULE FifoQueue -----------------------------
(***************************************************************************)
(* What a waiting line of the park promises its users: a bounded           *)
(* first-in-first-out queue of process ids from which a process may also   *)
(* withdraw.  It is the abstract counterpart of ringbuffer_t               *)
(* (src/include/ringbuffer.h); module RingBuffer implements it, and the    *)
(* modules of the attractions use its operators for their queues.          *)
(***************************************************************************)
EXTENDS Naturals, Sequences

CONSTANTS Elements,   \* process ids
          Capacity    \* VISITORS_LIMIT, see src/src/main.c init()

VARIABLE items

(* The sequence without its i-th element. *)
Without(s, i) ==
    [j \in 1 .. Len(s) - 1 |-> IF j < i THEN s[j] ELSE s[j + 1]]

----------------------------------------------------------------------------
Init == items = << >>

(* A push into a full queue is refused and leaves it as it was. *)
Enqueue(x) ==
    /\ Len(items) < Capacity
    /\ items' = Append(items, x)

Dequeue ==
    /\ items # << >>
    /\ items' = Tail(items)

Withdraw(i) ==
    /\ i \in 1 .. Len(items)
    /\ items' = Without(items, i)

Next ==
    \/ \E x \in Elements : Enqueue(x)
    \/ Dequeue
    \/ \E i \in 1 .. Len(items) : Withdraw(i)

Spec == Init /\ [][Next]_items
============================================================================
