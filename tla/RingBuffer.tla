----------------------------- MODULE RingBuffer -----------------------------
(***************************************************************************)
(* The circular buffer behind every waiting line of the park               *)
(* (src/include/ringbuffer.h).  One action per function that changes the   *)
(* buffer; ringbuffer_at and ringbuffer_contains, which only read it, are  *)
(* operators.  Positions count from 0 as in the code.  The buffer carries  *)
(* no lock: its callers hold the mutex of the attraction, so a call is one *)
(* step.                                                                   *)
(***************************************************************************)
EXTENDS Integers, Sequences

CONSTANTS Elements,   \* the process ids that are queued
          NoPid,      \* the zero a fresh shared memory segment holds
          Capacity    \* VISITORS_LIMIT

ASSUME CapacityAssumption == Capacity \in Nat \ {0}
ASSUME NoPidAssumption == NoPid \notin Elements

VARIABLES data, head_idx, tail_idx, count

vars == << data, head_idx, tail_idx, count >>

Indices == 0 .. Capacity - 1

TypeOK ==
    /\ data \in [Indices -> Elements \union {NoPid}]
    /\ head_idx \in Indices
    /\ tail_idx \in Indices
    /\ count \in 0 .. Capacity

----------------------------------------------------------------------------
(* Reading *)

(* Indices run around the ring. *)
Wrap(i) == i % Capacity

Slot(pos) == Wrap(head_idx + pos)

(* The result of ringbuffer_contains that no position has: (size_t)-1. *)
NotFound == -1

(* ringbuffer_at: the element at pos; when pos is not occupied the         *)
(* caller's variable keeps whatever it held.                               *)
At(pos, before) == IF pos < count THEN data[Slot(pos)] ELSE before

(* ringbuffer_contains: the first position of x, or NotFound. *)
Positions(x) == {i \in 0 .. count - 1 : At(i, NoPid) = x}

Contains(x) ==
    IF Positions(x) = {} THEN NotFound
    ELSE CHOOSE i \in Positions(x) : \A j \in Positions(x) : i <= j

----------------------------------------------------------------------------
Init ==
    /\ data = [k \in Indices |-> NoPid]
    /\ head_idx = 0
    /\ tail_idx = 0
    /\ count = 0

(* Mutant: the tail index does not wrap. *)
PushBackNoWrap(x) ==
    \/ count >= Capacity /\ UNCHANGED vars
    \/ /\ count < Capacity
       /\ data' = [data EXCEPT ![tail_idx] = x]
       /\ tail_idx' = tail_idx + 1
       /\ count' = count + 1
       /\ UNCHANGED head_idx

(* ringbuffer_push_back; a full buffer refuses the element. *)
PushBack(x) ==
    \/ /\ count >= Capacity
       /\ UNCHANGED vars
    \/ /\ count < Capacity
       /\ data' = [data EXCEPT ![tail_idx] = x]
       /\ tail_idx' = Wrap(tail_idx + 1)
       /\ count' = count + 1
       /\ UNCHANGED head_idx

(* ringbuffer_pop_front *)
PopFront ==
    \/ /\ count = 0
       /\ UNCHANGED vars
    \/ /\ count # 0
       /\ head_idx' = Wrap(head_idx + 1)
       /\ count' = count - 1
       /\ UNCHANGED << data, tail_idx >>

(* How many places k lies ahead of j around the ring. *)
Ahead(j, k) == Wrap(Capacity + k - j)

(* Mutant: the loop stops one place short of the head. *)
ShiftFrontShort(idx) ==
    [k \in Indices |->
        IF Ahead(head_idx, k) \in 2 .. Ahead(head_idx, idx)
        THEN data[Wrap(Capacity + k - 1)]
        ELSE data[k]]

(* Mutant: the elements are moved the other way. *)
ShiftFrontForward(idx) ==
    [k \in Indices |->
        IF Ahead(head_idx, k) \in 1 .. Ahead(head_idx, idx)
        THEN data[Wrap(k + 1)]
        ELSE data[k]]

(* The loop of ringbuffer_erase that moves the elements in front of idx    *)
(* one place back, down to the head.                                       *)
ShiftFront(idx) ==
    [k \in Indices |->
        IF Ahead(head_idx, k) \in 1 .. Ahead(head_idx, idx)
        THEN data[Wrap(Capacity + k - 1)]
        ELSE data[k]]

(* The loop of ringbuffer_erase that moves the elements behind idx one     *)
(* place forward, up to the last valid one.                                *)
ShiftBack(idx, last_valid) ==
    [k \in Indices |->
        IF Ahead(idx, k) < Ahead(idx, last_valid)
        THEN data[Wrap(k + 1)]
        ELSE data[k]]

(* Mutant: an erase near the front leaves the head where it is. *)
EraseKeepsHead(pos) ==
    \/ pos \notin 0 .. count - 1 /\ UNCHANGED vars
    \/ /\ pos \in 0 .. count - 1
       /\ data' = IF pos < count \div 2 THEN ShiftFront(Slot(pos))
                  ELSE ShiftBack(Slot(pos), Wrap(tail_idx + Capacity - 1))
       /\ IF pos < count \div 2 THEN UNCHANGED tail_idx
          ELSE tail_idx' = Wrap(tail_idx + Capacity - 1)
       /\ count' = count - 1
       /\ UNCHANGED head_idx

(* ringbuffer_erase: the shorter side closes the gap. *)
Erase(pos) ==
    \/ /\ pos \notin 0 .. count - 1
       /\ UNCHANGED vars
    \/ /\ pos \in 0 .. count - 1
       /\ \/ /\ pos < count \div 2
             /\ data' = ShiftFront(Slot(pos))
             /\ head_idx' = Wrap(head_idx + 1)
             /\ UNCHANGED tail_idx
          \/ /\ pos >= count \div 2
             /\ data' = ShiftBack(Slot(pos), Wrap(tail_idx + Capacity - 1))
             /\ tail_idx' = Wrap(tail_idx + Capacity - 1)
             /\ UNCHANGED head_idx
       /\ count' = count - 1

Next ==
    \/ \E x \in Elements : PushBack(x)
    \/ PopFront
    \/ \E x \in Elements : Erase(Contains(x))

Spec == Init /\ [][Next]_vars

----------------------------------------------------------------------------
(* The elements in queue order. *)
Items == [i \in 1 .. count |-> data[Slot(i - 1)]]

(* The two indices and the counter always agree, through wrap-around and   *)
(* through an erase from either side: push_back writes behind the last     *)
(* element and never over one.                                             *)
IndicesAgree == tail_idx = Wrap(head_idx + count)

(* The buffer behaves like the abstract queue: an erase at any position,   *)
(* with the shift on either side and across the wrap, removes exactly that *)
(* element and keeps the order of the others.                              *)
Fifo == INSTANCE FifoQueue WITH items <- Items
ImplementsFifo == Fifo!Spec

(* The first entry of x leaves the queue, the others stay in order.        *)
FirstGoes(x) ==
    \/ /\ \A i \in 1 .. count : Items[i] # x
       /\ Items' = Items
    \/ \E i \in 1 .. count :
          /\ Items[i] = x
          /\ \A j \in 1 .. i - 1 : Items[j] # x
          /\ Items' = Fifo!Without(Items, i)

(* Who erases the position that ringbuffer_contains gave it takes its own  *)
(* entry off the queue and nobody else's; without an entry, nobody's.      *)
EraseIsExact == [][\A x \in Elements : Erase(Contains(x)) => FirstGoes(x)]_vars
=============================================================================
