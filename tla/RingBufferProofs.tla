-------------------------- MODULE RingBufferProofs --------------------------
(***************************************************************************)
(* Proofs about the circular buffer, for every capacity and every set of   *)
(* process ids: its indices agree, and it implements the abstract queue.   *)
(***************************************************************************)
EXTENDS RingBuffer, WellFoundedInduction, TLAPS

(* One step past the end of the ring comes back to its start.              *)
LEMMA WrapOnce ==
    ASSUME NEW a \in Nat, a < 2 * Capacity
    PROVE  Wrap(a) = IF a < Capacity THEN a ELSE a - Capacity
BY CapacityAssumption DEF Wrap

(* Reduction modulo the capacity yields an index.                          *)
LEMMA WrapIsIndex ==
    ASSUME NEW a \in Nat
    PROVE  Wrap(a) \in Indices
BY CapacityAssumption DEF Indices, Wrap

(* No occupied slot still holds the zero of the fresh segment: a queue     *)
(* never hands a caller a process id that nobody pushed.                   *)
OccupiedHoldPids == \A i \in 0 .. count - 1 : data[Slot(i)] \in Elements

IndInv == TypeOK /\ IndicesAgree /\ OccupiedHoldPids

(* The slot of a position, without the modulus.                            *)
LEMMA SlotIs ==
    ASSUME TypeOK, NEW i \in 0 .. Capacity
    PROVE  /\ Slot(i) \in Indices
           /\ Slot(i) = IF head_idx + i < Capacity THEN head_idx + i
                        ELSE head_idx + i - Capacity
<1>1. /\ head_idx + i \in Nat
      /\ head_idx + i < 2 * Capacity
  BY CapacityAssumption DEF TypeOK, Indices
<1>2. Wrap(head_idx + i) = IF head_idx + i < Capacity THEN head_idx + i
                                  ELSE head_idx + i - Capacity
  BY <1>1, WrapOnce, CapacityAssumption DEF TypeOK, Indices
<1> QED BY <1>1, <1>2, WrapIsIndex DEF Slot

(* Distance around the ring, without the modulus.                          *)
LEMMA AheadIs ==
    ASSUME NEW j \in Indices, NEW k \in Indices
    PROVE  Ahead(j, k) = IF k >= j THEN k - j ELSE Capacity + k - j
<1>1. /\ Capacity + k - j \in Nat
      /\ Capacity + k - j < 2 * Capacity
  BY CapacityAssumption DEF Indices
<1>2. Wrap(Capacity + k - j) =
        IF Capacity + k - j < Capacity THEN Capacity + k - j ELSE k - j
  BY <1>1, WrapOnce, CapacityAssumption DEF Indices
<1> QED BY <1>2, CapacityAssumption DEF Ahead, Indices

(* A nonempty set of naturals has a least element. *)
LEMMA LeastElement ==
    ASSUME NEW S, S \subseteq Nat, S # {}
    PROVE  \E i \in S : \A j \in S : i <= j
<1>1. \E R : /\ IsWellFoundedOn(R, Nat)
             /\ \A y, x \in Nat : << y, x >> \in R <=> y < x
  <2> DEFINE Less == OpToRel(<, Nat)
  <2>1. IsWellFoundedOn(Less, Nat)
    BY NatLessThanWellFounded
  <2>2. \A y, x \in Nat : << y, x >> \in Less <=> y < x
    BY DEF OpToRel
  <2> HIDE DEF Less
  <2> QED BY <2>1, <2>2
<1>2. PICK R : /\ IsWellFoundedOn(R, Nat)
               /\ \A y, x \in Nat : << y, x >> \in R <=> y < x
  BY <1>1
<1>3. \E x \in S : \A y \in S : ~(<< y, x >> \in R)
  <2>1. IsWellFoundedOn(R, Nat)
    BY <1>2
  <2> HIDE <1>2
  <2> QED BY <2>1, WFMin, Zenon
<1>4. PICK x \in S : \A y \in S : ~(<< y, x >> \in R)
  BY <1>3
<1>5. \A y \in S : ~(y < x)
  BY <1>2, <1>4
<1>6. \A y \in S : x <= y
  BY <1>5
<1> QED BY <1>4, <1>6

LEMMA InitIndInv == Init => IndInv
<1> SUFFICES ASSUME Init PROVE IndInv
  OBVIOUS
<1>1. TypeOK
  BY CapacityAssumption DEF Init, TypeOK, Indices
<1>2. Wrap(0) = 0
  BY CapacityAssumption, WrapOnce
<1>3. IndicesAgree
  BY <1>2 DEF Init, IndicesAgree
<1>4. OccupiedHoldPids
  BY DEF Init, OccupiedHoldPids
<1> QED BY <1>1, <1>3, <1>4 DEF IndInv

(* push_back: the new element lands behind the last one.                   *)
LEMMA PushStep ==
    ASSUME IndInv, NEW x \in Elements, count < Capacity, PushBack(x)
    PROVE  /\ IndInv'
           /\ Items' = Append(Items, x)
<1> USE CapacityAssumption DEF IndInv
<1>1. /\ data' = [data EXCEPT ![tail_idx] = x]
      /\ tail_idx' = Wrap(tail_idx + 1)
      /\ count' = count + 1
      /\ head_idx' = head_idx
  BY DEF PushBack, TypeOK
<1>2. /\ tail_idx = Slot(count)
      /\ tail_idx \in Indices
  BY DEF IndicesAgree, Slot, TypeOK
<1>3. TypeOK'
  <2>1. tail_idx + 1 \in Nat
    BY <1>2 DEF Indices
  <2>2. tail_idx' \in Indices
    BY <1>1, <2>1, WrapIsIndex
  <2>3. data' \in [Indices -> Elements \union {NoPid}]
    BY <1>1 DEF TypeOK
  <2> QED BY <1>1, <2>2, <2>3 DEF TypeOK
<1>4. IndicesAgree'
  <2>1. tail_idx' = IF tail_idx + 1 < Capacity THEN tail_idx + 1 ELSE 0
    BY <1>1, <1>2, WrapOnce DEF Indices
  <2>2. Slot(count + 1) = IF tail_idx + 1 < Capacity THEN tail_idx + 1 ELSE 0
    <3>1. count \in 0 .. Capacity /\ count + 1 \in 0 .. Capacity /\ TypeOK
      BY DEF TypeOK
    <3>2. head_idx \in Indices
      BY DEF TypeOK
    <3> QED BY <3>1, <3>2, <1>2, SlotIs DEF Indices
  <2> QED BY <1>1, <2>1, <2>2 DEF IndicesAgree, Slot
<1>5. \A i \in 0 .. count - 1 : Slot(i) # tail_idx /\ Slot(i) \in Indices
  <2> TAKE i \in 0 .. count - 1
  <2>1. i \in 0 .. Capacity /\ count \in 0 .. Capacity /\ i < count /\ TypeOK
    BY DEF TypeOK
  <2>2. head_idx \in Indices
    BY DEF TypeOK
  <2> QED BY <2>1, <2>2, <1>2, SlotIs DEF Indices
<1>6. \A i \in 0 .. count' - 1 :
         data'[Slot(i)'] = IF i < count THEN data[Slot(i)] ELSE x
  BY <1>1, <1>2, <1>5 DEF TypeOK, Slot
<1>7. OccupiedHoldPids'
  BY <1>6, <1>1 DEF OccupiedHoldPids, TypeOK
<1>8. Items' = Append(Items, x)
  BY <1>1, <1>6 DEF Items, TypeOK
<1> QED BY <1>3, <1>4, <1>7, <1>8

(* pop_front: the head moves to the second element.                        *)
LEMMA PopStep ==
    ASSUME IndInv, count # 0, PopFront
    PROVE  /\ IndInv'
           /\ Items # << >>
           /\ Items' = Tail(Items)
<1> USE CapacityAssumption DEF IndInv
<1>1. /\ head_idx' = Wrap(head_idx + 1)
      /\ count' = count - 1
      /\ data' = data
      /\ tail_idx' = tail_idx
  BY DEF PopFront
<1>2. TypeOK'
  <2>1. head_idx + 1 \in Nat
    BY DEF TypeOK, Indices
  <2>2. head_idx' \in Indices
    BY <1>1, <2>1, WrapIsIndex
  <2> QED BY <1>1, <2>2 DEF TypeOK
<1>3. head_idx' = IF head_idx + 1 < Capacity THEN head_idx + 1 ELSE 0
  BY <1>1, WrapOnce DEF TypeOK, Indices
<1>4. \A i \in 0 .. count - 1 : Slot(i)' = Slot(i + 1)
  <2> TAKE i \in 0 .. count - 1
  <2>1. Slot(i)' = IF head_idx' + i < Capacity THEN head_idx' + i ELSE head_idx' + i - Capacity
    BY <1>1, <1>2, <1>3, WrapOnce DEF TypeOK, Slot, Indices
  <2>2. i + 1 \in 0 .. Capacity /\ TypeOK /\ head_idx \in Indices
    BY DEF TypeOK
  <2> QED BY <2>1, <2>2, <1>3, SlotIs DEF Indices
<1>5. IndicesAgree'
  BY <1>1, <1>4 DEF IndicesAgree, Slot, TypeOK
<1>6. OccupiedHoldPids'
  BY <1>1, <1>4 DEF OccupiedHoldPids, TypeOK
<1>7. Items # << >>
  BY DEF Items, TypeOK
<1>8. Items' = Tail(Items)
  BY <1>1, <1>4 DEF Items, TypeOK
<1> QED BY <1>2, <1>5, <1>6, <1>7, <1>8
(* erase, front half: everything before the position moves one slot up and *)
(* the head follows.                                                       *)
LEMMA EraseFrontShift ==
    ASSUME IndInv, NEW pos \in 0 .. count - 1,
           data' = ShiftFront(Slot(pos)),
           head_idx' = Wrap(head_idx + 1),
           count' = count - 1
    PROVE  /\ head_idx' \in Indices
           /\ \A i \in 0 .. count - 1 : Wrap(head_idx' + i) = Slot(i + 1)
           /\ \A i \in 0 .. count - 2 :
                 data'[Slot(i)'] = data[Slot(IF i < pos THEN i ELSE i + 1)]
<1> USE CapacityAssumption DEF IndInv
<1>0. TypeOK /\ head_idx \in Indices /\ count \in 0 .. Capacity
  BY DEF TypeOK
<1>1. /\ head_idx' \in Indices
      /\ head_idx' = IF head_idx + 1 < Capacity THEN head_idx + 1 ELSE 0
  <2>1. head_idx + 1 \in Nat /\ head_idx + 1 < 2 * Capacity
    BY <1>0 DEF Indices
  <2> QED BY <2>1, <1>0, WrapOnce, WrapIsIndex DEF Indices
<1>2. Slot(pos) \in Indices /\ Ahead(head_idx, Slot(pos)) = pos
  <2>1. pos \in 0 .. Capacity /\ pos < Capacity
    BY <1>0
  <2>2. /\ Slot(pos) \in Indices
        /\ Slot(pos) = IF head_idx + pos < Capacity THEN head_idx + pos
                       ELSE head_idx + pos - Capacity
    BY <2>1, <1>0, SlotIs
  <2>3. Ahead(head_idx, Slot(pos)) = IF Slot(pos) >= head_idx THEN Slot(pos) - head_idx
                                     ELSE Capacity + Slot(pos) - head_idx
    BY <2>2, <1>0, AheadIs
  <2> QED BY <2>1, <2>2, <2>3, <1>0 DEF Indices
<1>3. ASSUME NEW i \in 0 .. count - 1
      PROVE  /\ Wrap(head_idx' + i) = Slot(i + 1)
             /\ Slot(i + 1) \in Indices
             /\ Slot(i + 1) = IF head_idx + (i + 1) < Capacity THEN head_idx + (i + 1)
                             ELSE head_idx + (i + 1) - Capacity
  <2>1. i \in 0 .. Capacity /\ i + 1 \in 0 .. Capacity
    BY <1>0
  <2>2. head_idx' + i \in Nat /\ head_idx' + i < 2 * Capacity
    BY <1>0, <1>1, <2>1 DEF Indices
  <2>3. Wrap(head_idx' + i) = IF head_idx' + i < Capacity THEN head_idx' + i
                              ELSE head_idx' + i - Capacity
    BY <2>2, <1>1, <2>1, WrapOnce DEF Indices
  <2>4. /\ Slot(i + 1) \in Indices
        /\ Slot(i + 1) = IF head_idx + (i + 1) < Capacity THEN head_idx + (i + 1)
                         ELSE head_idx + (i + 1) - Capacity
    BY <1>0, <2>1, SlotIs
  <2> QED BY <2>3, <2>4, <1>1, <1>0, <2>1 DEF Indices
<1>4. ASSUME NEW i \in 0 .. count - 2
      PROVE  data'[Slot(i)'] = data[Slot(IF i < pos THEN i ELSE i + 1)]
  <2>1. i \in 0 .. Capacity /\ i + 1 < Capacity /\ i \in 0 .. count - 1
    BY <1>0
  <2>2. /\ Slot(i)' = Slot(i + 1)
        /\ Slot(i + 1) \in Indices
        /\ Slot(i + 1) = IF head_idx + (i + 1) < Capacity THEN head_idx + (i + 1)
                         ELSE head_idx + (i + 1) - Capacity
    BY <1>3, <2>1 DEF Slot
  <2>3. Ahead(head_idx, Slot(i + 1)) = i + 1
    <3>1. Ahead(head_idx, Slot(i + 1)) =
            IF Slot(i + 1) >= head_idx THEN Slot(i + 1) - head_idx
            ELSE Capacity + Slot(i + 1) - head_idx
      BY <2>2, <1>0, AheadIs
    <3> QED BY <3>1, <2>2, <1>0, <2>1 DEF Indices
  <2>4. Wrap(Capacity + Slot(i + 1) - 1) = Slot(i)
    <3>1. Slot(i) = IF head_idx + i < Capacity THEN head_idx + i
                    ELSE head_idx + i - Capacity
      BY <1>0, <2>1, SlotIs
    <3>2. /\ Capacity + Slot(i + 1) - 1 \in Nat
          /\ Capacity + Slot(i + 1) - 1 < 2 * Capacity
      BY <2>2 DEF Indices
    <3>3. Wrap(Capacity + Slot(i + 1) - 1) =
            IF Capacity + Slot(i + 1) - 1 < Capacity THEN Capacity + Slot(i + 1) - 1
            ELSE Slot(i + 1) - 1
      BY <3>2, <2>2, WrapOnce DEF Indices
    <3> QED BY <3>1, <3>3, <2>2, <1>0, <2>1 DEF Indices
  <2>5. data'[Slot(i + 1)] = IF i + 1 \in 1 .. pos THEN data[Slot(i)] ELSE data[Slot(i + 1)]
    BY <1>2, <2>2, <2>3, <2>4 DEF ShiftFront
  <2> QED BY <2>2, <2>5, <2>1
<1> QED BY <1>1, <1>3, <1>4

(* erase, back half: everything behind the position moves one slot down    *)
(* and the tail follows.                                                   *)
LEMMA EraseBackShift ==
    ASSUME IndInv, NEW pos \in 0 .. count - 1,
           data' = ShiftBack(Slot(pos), Wrap(tail_idx + Capacity - 1)),
           head_idx' = head_idx,
           tail_idx' = Wrap(tail_idx + Capacity - 1),
           count' = count - 1
    PROVE  /\ tail_idx' = Slot(count - 1)
           /\ \A i \in 0 .. count - 2 :
                 data'[Slot(i)'] = data[Slot(IF i < pos THEN i ELSE i + 1)]
<1> USE CapacityAssumption DEF IndInv
<1>0. TypeOK /\ head_idx \in Indices /\ tail_idx \in Indices /\ count \in 1 .. Capacity
  BY DEF TypeOK
<1>1. tail_idx' = Slot(count - 1)
  <2>1. tail_idx = Slot(count)
    BY DEF IndicesAgree, Slot
  <2>2. count \in 0 .. Capacity /\ count - 1 \in 0 .. Capacity
    BY <1>0
  <2>3. /\ Slot(count) = IF head_idx + count < Capacity THEN head_idx + count
                         ELSE head_idx + count - Capacity
        /\ Slot(count - 1) = IF head_idx + (count - 1) < Capacity
                             THEN head_idx + (count - 1)
                             ELSE head_idx + (count - 1) - Capacity
    BY <1>0, <2>2, SlotIs
  <2>4. /\ tail_idx + Capacity - 1 \in Nat
        /\ tail_idx + Capacity - 1 < 2 * Capacity
    BY <1>0 DEF Indices
  <2>5. tail_idx' = IF tail_idx + Capacity - 1 < Capacity THEN tail_idx + Capacity - 1
                    ELSE tail_idx - 1
    BY <2>4, <1>0, WrapOnce DEF Indices
  <2> QED BY <2>1, <2>3, <2>5, <1>0 DEF Indices
<1>2. /\ Slot(pos) \in Indices
      /\ Slot(pos) = IF head_idx + pos < Capacity THEN head_idx + pos
                     ELSE head_idx + pos - Capacity
      /\ Slot(count - 1) \in Indices
      /\ Slot(count - 1) = IF head_idx + (count - 1) < Capacity
                           THEN head_idx + (count - 1)
                           ELSE head_idx + (count - 1) - Capacity
  <2>1. pos \in 0 .. Capacity /\ count - 1 \in 0 .. Capacity
    BY <1>0
  <2> QED BY <2>1, <1>0, SlotIs
<1>3. Ahead(Slot(pos), Slot(count - 1)) = count - 1 - pos
  BY <1>0, <1>2, AheadIs DEF Indices
<1>4. ASSUME NEW i \in 0 .. count - 2
      PROVE  data'[Slot(i)'] = data[Slot(IF i < pos THEN i ELSE i + 1)]
  <2>1. i \in 0 .. Capacity /\ i + 1 \in 0 .. Capacity
    BY <1>0
  <2>2. /\ Slot(i) \in Indices
        /\ Slot(i) = IF head_idx + i < Capacity THEN head_idx + i
                     ELSE head_idx + i - Capacity
        /\ Slot(i + 1) = IF head_idx + (i + 1) < Capacity THEN head_idx + (i + 1)
                         ELSE head_idx + (i + 1) - Capacity
    BY <1>0, <2>1, SlotIs
  <2>3. Ahead(Slot(pos), Slot(i)) = IF i < pos THEN Capacity + i - pos ELSE i - pos
    <3>1. Ahead(Slot(pos), Slot(i)) = IF Slot(i) >= Slot(pos) THEN Slot(i) - Slot(pos)
                                      ELSE Capacity + Slot(i) - Slot(pos)
      BY <1>2, <2>2, AheadIs
    <3>2. pos < Capacity /\ i < Capacity /\ i \in Nat /\ pos \in Nat
      BY <1>0
    <3> QED BY <3>1, <3>2, <1>0, <1>2, <2>2 DEF Indices
  <2>4. Wrap(Slot(i) + 1) = Slot(i + 1)
    <3>1. Slot(i) + 1 \in Nat /\ Slot(i) + 1 < 2 * Capacity
      BY <2>2 DEF Indices
    <3>2. Wrap(Slot(i) + 1) = IF Slot(i) + 1 < Capacity THEN Slot(i) + 1
                              ELSE Slot(i) + 1 - Capacity
      BY <3>1, <2>2, WrapOnce DEF Indices
    <3> QED BY <3>2, <2>2, <1>0, <2>1 DEF Indices
  <2>5. Slot(i)' = Slot(i)
    BY DEF Slot
  <2>6. Ahead(Slot(pos), Slot(i)) < Ahead(Slot(pos), Slot(count - 1)) <=> ~(i < pos)
    BY <1>0, <1>3, <2>1, <2>3
  <2>7. Wrap(tail_idx + Capacity - 1) = Slot(count - 1)
    BY <1>1
  <2>8. data'[Slot(i)] = IF Ahead(Slot(pos), Slot(i)) < Ahead(Slot(pos), Slot(count - 1))
                         THEN data[Wrap(Slot(i) + 1)] ELSE data[Slot(i)]
    BY <2>7, <2>2 DEF ShiftBack
  <2> QED BY <2>4, <2>5, <2>6, <2>8
<1> QED BY <1>1, <1>4

(* erase: exactly the element at the position is gone, the others keep      *)
(* their order, whichever side was shifted.                                *)
LEMMA EraseStep ==
    ASSUME IndInv, NEW pos \in 0 .. count - 1, Erase(pos)
    PROVE  /\ IndInv'
           /\ Items' = Fifo!Without(Items, pos + 1)
<1> USE CapacityAssumption DEF IndInv
<1>0. TypeOK /\ head_idx \in Indices /\ tail_idx \in Indices /\ count \in 1 .. Capacity
  BY DEF TypeOK
<1>1. count' = count - 1
  BY DEF Erase
<1>2. /\ data' \in [Indices -> Elements \union {NoPid}]
      /\ head_idx' \in Indices
      /\ tail_idx' \in Indices
      /\ IndicesAgree'
      /\ \A i \in 0 .. count - 2 :
            data'[Slot(i)'] = data[Slot(IF i < pos THEN i ELSE i + 1)]
  <2>1. \/ /\ data' = ShiftFront(Slot(pos))
           /\ head_idx' = Wrap(head_idx + 1)
           /\ tail_idx' = tail_idx
        \/ /\ data' = ShiftBack(Slot(pos), Wrap(tail_idx + Capacity - 1))
           /\ tail_idx' = Wrap(tail_idx + Capacity - 1)
           /\ head_idx' = head_idx
    BY DEF Erase
  <2>2. CASE /\ data' = ShiftFront(Slot(pos))
             /\ head_idx' = Wrap(head_idx + 1)
             /\ tail_idx' = tail_idx
    <3>1. /\ head_idx' \in Indices
          /\ \A i \in 0 .. count - 1 : Wrap(head_idx' + i) = Slot(i + 1)
          /\ \A i \in 0 .. count - 2 :
                data'[Slot(i)'] = data[Slot(IF i < pos THEN i ELSE i + 1)]
      BY <2>2, <1>1, EraseFrontShift
    <3>2. ASSUME NEW k \in Indices
          PROVE  Wrap(Capacity + k - 1) \in Indices
      BY WrapIsIndex DEF Indices
    <3>3. data' \in [Indices -> Elements \union {NoPid}]
      BY <2>2, <3>2, <1>0 DEF ShiftFront, TypeOK
    <3>4. Wrap(head_idx' + (count - 1)) = Slot(count)
      BY <3>1, <1>0
    <3>5. IndicesAgree'
      BY <3>4, <1>1, <2>2 DEF IndicesAgree, Slot
    <3> QED BY <3>1, <3>3, <3>5, <2>2, <1>0
  <2>3. CASE /\ data' = ShiftBack(Slot(pos), Wrap(tail_idx + Capacity - 1))
             /\ tail_idx' = Wrap(tail_idx + Capacity - 1)
             /\ head_idx' = head_idx
    <3>1. /\ tail_idx' = Slot(count - 1)
          /\ \A i \in 0 .. count - 2 :
                data'[Slot(i)'] = data[Slot(IF i < pos THEN i ELSE i + 1)]
      BY <2>3, <1>1, EraseBackShift
    <3>2. ASSUME NEW k \in Indices
          PROVE  Wrap(k + 1) \in Indices
      BY WrapIsIndex DEF Indices
    <3>3. data' \in [Indices -> Elements \union {NoPid}]
      BY <2>3, <3>2, <1>0 DEF ShiftBack, TypeOK
    <3>4. tail_idx' \in Indices
      <4>1. tail_idx + Capacity - 1 \in Nat
        BY <1>0 DEF Indices
      <4> QED BY <4>1, <2>3, WrapIsIndex
    <3>5. IndicesAgree'
      BY <3>1, <1>1, <2>3 DEF IndicesAgree, Slot
    <3> QED BY <3>1, <3>3, <3>4, <3>5, <2>3, <1>0
  <2> QED BY <2>1, <2>2, <2>3
<1>3. TypeOK'
  BY <1>0, <1>1, <1>2 DEF TypeOK
<1>4. OccupiedHoldPids'
  BY <1>0, <1>1, <1>2 DEF OccupiedHoldPids
<1>5. Items' = Fifo!Without(Items, pos + 1)
  <2>1. Items' = [j \in 1 .. count - 1 |-> data'[Slot(j - 1)']]
    BY <1>1 DEF Items
  <2>2. Len(Items) = count
    BY <1>0 DEF Items
  <2>3. \A j \in 1 .. count - 1 :
           data'[Slot(j - 1)'] = IF j < pos + 1 THEN Items[j] ELSE Items[j + 1]
    BY <1>0, <1>2 DEF Items
  <2> QED BY <2>1, <2>2, <2>3 DEF Fifo!Without
<1> QED BY <1>2, <1>3, <1>4, <1>5

(* Every step keeps the invariant and is, to a user of the queue, a step   *)
(* of the abstract queue or no step at all.                                *)
LEMMA NextStep ==
    ASSUME IndInv, [Next]_vars
    PROVE  IndInv' /\ [Fifo!Next]_Items
<1>1. count \in 0 .. Capacity /\ Len(Items) = count
  BY CapacityAssumption DEF IndInv, TypeOK, Items
<1>2. ASSUME UNCHANGED vars
      PROVE  IndInv' /\ UNCHANGED Items
  BY <1>2 DEF IndInv, TypeOK, IndicesAgree, OccupiedHoldPids, Items, Slot, vars
<1>3. CASE UNCHANGED vars
  BY <1>2, <1>3
<1>4. ASSUME NEW x \in Elements, PushBack(x)
      PROVE  IndInv' /\ [Fifo!Next]_Items
  <2>1. CASE count < Capacity
    BY <1>1, <1>4, <2>1, PushStep DEF Fifo!Next, Fifo!Enqueue
  <2>2. CASE ~(count < Capacity)
    BY <1>2, <1>4, <2>2 DEF PushBack
  <2> QED BY <2>1, <2>2
<1>5. CASE PopFront
  <2>1. CASE count # 0
    BY <1>5, <2>1, PopStep DEF Fifo!Next, Fifo!Dequeue
  <2>2. CASE count = 0
    BY <1>2, <1>5, <2>2 DEF PopFront
  <2> QED BY <2>1, <2>2
<1>6. ASSUME NEW pos, Erase(pos)
      PROVE  IndInv' /\ [Fifo!Next]_Items
  <2>1. CASE pos \in 0 .. count - 1
    <3>1. IndInv' /\ Items' = Fifo!Without(Items, pos + 1)
      BY <1>6, <2>1, EraseStep
    <3>2. pos + 1 \in 1 .. Len(Items)
      BY <1>1, <2>1
    <3> QED BY <3>1, <3>2 DEF Fifo!Next, Fifo!Withdraw
  <2>2. CASE pos \notin 0 .. count - 1
    BY <1>2, <1>6, <2>2 DEF Erase
  <2> QED BY <2>1, <2>2
<1> QED BY <1>3, <1>4, <1>5, <1>6 DEF Next

(* ringbuffer_contains finds the first entry, if there is one. *)
LEMMA ContainsIsFirst ==
    ASSUME IndInv, NEW x \in Elements
    PROVE  \/ /\ Contains(x) = NotFound
              /\ \A i \in 1 .. count : Items[i] # x
           \/ /\ Contains(x) \in 0 .. count - 1
              /\ Items[Contains(x) + 1] = x
              /\ \A j \in 1 .. Contains(x) : Items[j] # x
<1>1. count \in Nat
  BY CapacityAssumption DEF IndInv, TypeOK
<1>2. \A i \in 1 .. count : Items[i] = data[Slot(i - 1)]
  BY DEF Items
<1>3. \A i \in 0 .. count - 1 : i \in Positions(x) <=> Items[i + 1] = x
  BY <1>1, <1>2 DEF Positions, At
<1>4. Positions(x) \subseteq 0 .. count - 1
  BY DEF Positions
<1>5. CASE Positions(x) = {}
  <2>1. ASSUME NEW i \in 1 .. count
        PROVE  Items[i] # x
    <3>1. i - 1 \in 0 .. count - 1 /\ (i - 1) + 1 = i
      BY <1>1
    <3> QED BY <3>1, <1>3, <1>5
  <2> QED BY <2>1, <1>5 DEF Contains
<1>6. CASE Positions(x) # {}
  <2>1. \E i \in Positions(x) : \A j \in Positions(x) : i <= j
    BY <1>1, <1>4, <1>6, LeastElement
  <2>2. /\ Contains(x) \in Positions(x)
        /\ \A j \in Positions(x) : Contains(x) <= j
    BY <2>1, <1>6 DEF Contains
  <2>3. ASSUME NEW j \in 1 .. Contains(x)
        PROVE  Items[j] # x
    <3>1. Contains(x) \in 0 .. count - 1
      BY <2>2, <1>4
    <3>2. /\ j - 1 \in 0 .. count - 1
          /\ (j - 1) + 1 = j
          /\ ~(Contains(x) <= j - 1)
      BY <3>1, <1>1
    <3> QED BY <3>2, <2>2, <1>3
  <2> QED BY <2>2, <2>3, <1>3, <1>4
<1> QED BY <1>5, <1>6

(* An erase takes exactly the caller's first entry off the queue. *)
LEMMA EraseTakesFirst ==
    ASSUME IndInv, NEW x \in Elements, Erase(Contains(x))
    PROVE  FirstGoes(x)
<1>1. count \in Nat
  BY CapacityAssumption DEF IndInv, TypeOK
<1>2. CASE /\ Contains(x) = NotFound
           /\ \A i \in 1 .. count : Items[i] # x
  <2>1. Contains(x) \notin 0 .. count - 1
    BY <1>1, <1>2 DEF NotFound
  <2>2. UNCHANGED vars
    BY <2>1 DEF Erase
  <2> QED BY <1>2, <2>2 DEF FirstGoes, vars, Items, Slot
<1>3. CASE /\ Contains(x) \in 0 .. count - 1
           /\ Items[Contains(x) + 1] = x
           /\ \A j \in 1 .. Contains(x) : Items[j] # x
  <2>1. Items' = Fifo!Without(Items, Contains(x) + 1)
    BY <1>3, EraseStep
  <2>2. /\ Contains(x) + 1 \in 1 .. count
        /\ 1 .. (Contains(x) + 1) - 1 = 1 .. Contains(x)
    BY <1>1, <1>3
  <2> QED BY <1>3, <2>1, <2>2 DEF FirstGoes
<1> QED BY <1>2, <1>3, ContainsIsFirst

(* Whatever is pushed, popped and erased, the counter stays between zero   *)
(* and the capacity, and head and tail stay indices of the ring.           *)
THEOREM RingBufferTypes == Spec => []TypeOK
<1>1. IndInv /\ [Next]_vars => IndInv'
  BY NextStep
<1>2. IndInv => TypeOK
  BY DEF IndInv
<1> QED BY <1>1, <1>2, InitIndInv, PTL DEF Spec

(* The buffer's fields keep their types, the indices agree with the        *)
(* counter, and every occupied slot holds a pushed process id.             *)
THEOREM RingBufferInvariant == Spec => [](TypeOK /\ IndicesAgree /\ OccupiedHoldPids)
<1>1. IndInv /\ [Next]_vars => IndInv'
  BY NextStep
<1> QED BY <1>1, InitIndInv, PTL DEF Spec, IndInv

(* The circular buffer implements the bounded queue with withdrawal: no    *)
(* push, pop or erase ever loses, duplicates or reorders another element.  *)
THEOREM RingBufferImplementsFifo == Spec => ImplementsFifo
<1>1. Init => Fifo!Init
  BY DEF Init, Fifo!Init, Items
<1>2. IndInv /\ [Next]_vars => IndInv' /\ [Fifo!Next]_Items
  BY NextStep
<1> QED BY <1>1, <1>2, InitIndInv, PTL DEF Spec, ImplementsFifo, Fifo!Spec

(* Whoever leaves a queue takes its own first entry with it, wherever it   *)
(* is in the ring, and disturbs nobody else's.                             *)
THEOREM RingBufferEraseIsExact == Spec => EraseIsExact
<1>1. IndInv /\ [Next]_vars => IndInv'
  BY NextStep
<1>2. IndInv => \A x \in Elements : Erase(Contains(x)) => FirstGoes(x)
  BY EraseTakesFirst
<1>3. IndInv /\ [Next]_vars => [\A x \in Elements : Erase(Contains(x)) => FirstGoes(x)]_vars
  BY <1>2
<1> QED BY <1>1, <1>3, InitIndInv, PTL DEF Spec, EraseIsExact

=============================================================================
