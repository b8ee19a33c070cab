----------------------------- MODULE QueueLemmas -----------------------------
(***************************************************************************)
(* What ringbuffer_push_back, ringbuffer_pop_front and ringbuffer_erase do *)
(* to a queue, as the modules of the attractions write them (Append, Tail  *)
(* and the sequence without its i-th entry): which entries a queue has     *)
(* afterwards, how often, and who is at its head.                          *)
(***************************************************************************)
EXTENDS Integers, Sequences, FiniteSets, FiniteSetTheorems, TLAPS

Entries(q) == {q[i] : i \in DOMAIN q}

(* x is at most once in q; nobody is more than once in q. *)
Once(x, q) == \A i, j \in DOMAIN q : q[i] = x /\ q[j] = x => i = j
OnceEach(q) == \A i, j \in DOMAIN q : q[i] = q[j] => i = j

(* What ringbuffer_erase leaves. *)
Without(q, i) == [j \in 1 .. Len(q) - 1 |-> IF j < i THEN q[j] ELSE q[j + 1]]

LEMMA OnceEachIsOnce ==
    ASSUME NEW q
    PROVE  OnceEach(q) <=> \A x \in Entries(q) : Once(x, q)
BY DEF OnceEach, Once, Entries

LEMMA EmptyEntries == Entries(<< >>) = {} /\ OnceEach(<< >>)
BY DEF Entries, OnceEach

LEMMA HeadIsEntry ==
    ASSUME NEW T, NEW q \in Seq(T), q # << >>
    PROVE  Head(q) \in Entries(q) /\ Entries(q) \subseteq T
<1>1. 1 \in DOMAIN q /\ Head(q) = q[1]
  OBVIOUS
<1> QED BY <1>1 DEF Entries

LEMMA EntryOfNonempty ==
    ASSUME NEW T, NEW q \in Seq(T), NEW x \in Entries(q)
    PROVE  q # << >>
BY DEF Entries

(* ringbuffer_push_back. *)
LEMMA AppendEntries ==
    ASSUME NEW T, NEW q \in Seq(T), NEW p \in T
    PROVE  /\ Entries(Append(q, p)) = Entries(q) \union {p}
           /\ \A x : Once(x, q) /\ (x = p => p \notin Entries(q)) => Once(x, Append(q, p))
           /\ Append(q, p) # << >>
           /\ Head(Append(q, p)) = IF q = << >> THEN p ELSE Head(q)
<1> DEFINE r == Append(q, p)
           n == Len(q)
<1>1. n \in Nat /\ DOMAIN q = 1 .. n /\ DOMAIN r = 1 .. n + 1
  OBVIOUS
<1>2. \A i \in 1 .. n + 1 : r[i] = IF i = n + 1 THEN p ELSE q[i]
  OBVIOUS
<1>3. r # << >> /\ Head(r) = IF q = << >> THEN p ELSE Head(q)
  <2>1. r \in Seq(T) /\ r # << >> /\ Head(r) = r[1]
    OBVIOUS
  <2>2. q = << >> => n = 0
    OBVIOUS
  <2>3. q # << >> => n # 0 /\ Head(q) = q[1]
    OBVIOUS
  <2> HIDE DEF r, n
  <2> QED BY <1>1, <1>2, <2>1, <2>2, <2>3
<1> HIDE DEF r, n
<1>4. Entries(r) = Entries(q) \union {p}
  BY <1>1, <1>2 DEF Entries
<1>5. ASSUME NEW x, Once(x, q), x = p => p \notin Entries(q)
      PROVE  Once(x, r)
  BY <1>1, <1>2, <1>5 DEF Once, Entries
<1> QED BY <1>3, <1>4, <1>5 DEF r

(* ringbuffer_pop_front. *)
LEMMA TailEntries ==
    ASSUME NEW T, NEW q \in Seq(T), q # << >>
    PROVE  /\ Entries(Tail(q)) \subseteq Entries(q)
           /\ \A x : Once(x, q) => Once(x, Tail(q))
           /\ \A x \in Entries(q) : x # Head(q) => x \in Entries(Tail(q))
           /\ Once(Head(q), q) => Head(q) \notin Entries(Tail(q))
<1> DEFINE r == Tail(q)
           n == Len(q)
<1>1. n \in Nat \ {0} /\ DOMAIN q = 1 .. n /\ DOMAIN r = 1 .. n - 1 /\ Head(q) = q[1]
  OBVIOUS
<1>2. \A i \in 1 .. n - 1 : r[i] = q[i + 1]
  OBVIOUS
<1>3. \A i \in 1 .. n : i # 1 => i - 1 \in 1 .. n - 1 /\ q[i] = r[i - 1]
  BY <1>1, <1>2
<1> HIDE DEF r, n
<1>4. Entries(r) \subseteq Entries(q)
  BY <1>1, <1>2 DEF Entries
<1>5. ASSUME NEW x, Once(x, q)
      PROVE  Once(x, r)
  <2>1. SUFFICES ASSUME NEW i \in 1 .. n - 1, NEW j \in 1 .. n - 1, r[i] = x, r[j] = x
                 PROVE  i = j
    BY <1>1 DEF Once
  <2>2. i + 1 \in 1 .. n /\ j + 1 \in 1 .. n /\ q[i + 1] = x /\ q[j + 1] = x
    BY <1>1, <1>2, <2>1
  <2>3. i + 1 = j + 1
    BY <1>1, <1>5, <2>2 DEF Once
  <2> QED BY <2>3
<1>6. \A x \in Entries(q) : x # Head(q) => x \in Entries(r)
  BY <1>1, <1>3 DEF Entries
<1>7. Once(Head(q), q) => Head(q) \notin Entries(r)
  BY <1>1, <1>2 DEF Entries, Once
<1> QED BY <1>4, <1>5, <1>6, <1>7 DEF r

(* ringbuffer_erase. *)
LEMMA WithoutEntries ==
    ASSUME NEW T, NEW q \in Seq(T), NEW k \in DOMAIN q
    PROVE  /\ Without(q, k) \in Seq(T)
           /\ Entries(Without(q, k)) \subseteq Entries(q)
           /\ \A x : Once(x, q) => Once(x, Without(q, k))
           /\ \A x \in Entries(q) : x # q[k] => x \in Entries(Without(q, k))
           /\ Once(q[k], q) => q[k] \notin Entries(Without(q, k))
           /\ Head(q) # q[k] => Without(q, k) # << >> /\ Head(Without(q, k)) = Head(q)
<1> DEFINE r == Without(q, k)
           n == Len(q)
<1>1. n \in Nat \ {0} /\ DOMAIN q = 1 .. n /\ Head(q) = q[1] /\ k \in 1 .. n
  OBVIOUS
<1>2. DOMAIN r = 1 .. n - 1 /\ \A j \in 1 .. n - 1 : r[j] = IF j < k THEN q[j] ELSE q[j + 1]
  BY DEF Without
<1>3. \A j \in 1 .. n : q[j] \in T
  BY <1>1
<1>4. r \in Seq(T)
  <2>1. \A j \in 1 .. n - 1 : (IF j < k THEN q[j] ELSE q[j + 1]) \in T
    BY <1>1, <1>3
  <2>2. r \in [1 .. n - 1 -> T]
    BY <2>1 DEF Without
  <2>3. n - 1 \in Nat
    BY <1>1
  <2> HIDE DEF r, n
  <2> QED BY <2>2, <2>3
<1> HIDE DEF r, n
<1>5. Entries(r) \subseteq Entries(q)
  BY <1>1, <1>2 DEF Entries
<1> DEFINE at(i) == IF i < k THEN i ELSE i + 1
<1>6. ASSUME NEW x, Once(x, q)
      PROVE  Once(x, r)
  <2>1. SUFFICES ASSUME NEW i \in 1 .. n - 1, NEW j \in 1 .. n - 1, r[i] = x, r[j] = x
                 PROVE  i = j
    BY <1>2 DEF Once
  <2>2. at(i) \in 1 .. n /\ at(j) \in 1 .. n /\ q[at(i)] = x /\ q[at(j)] = x
    BY <1>1, <1>2, <2>1
  <2>3. at(i) = at(j)
    <3> HIDE DEF at
    <3> QED BY <1>1, <1>6, <2>2 DEF Once
  <2> QED BY <1>1, <2>3
<1>7. \A j \in 1 .. n : j # k => \E i \in 1 .. n - 1 : r[i] = q[j]
  <2> TAKE j \in 1 .. n
  <2> HAVE j # k
  <2>1. CASE j < k
    BY <1>1, <1>2, <2>1
  <2>2. CASE j > k
    <3>1. j - 1 \in 1 .. n - 1 /\ ~(j - 1 < k) /\ (j - 1) + 1 = j
      BY <1>1, <2>2
    <3> QED BY <1>2, <3>1
  <2> QED BY <1>1, <2>1, <2>2
<1>8. \A x \in Entries(q) : x # q[k] => x \in Entries(r)
  <2> TAKE x \in Entries(q)
  <2> HAVE x # q[k]
  <2>1. PICK j \in 1 .. n : q[j] = x
    BY <1>1 DEF Entries
  <2>2. PICK i \in 1 .. n - 1 : r[i] = x
    BY <1>7, <2>1
  <2> QED BY <1>2, <2>2 DEF Entries
<1>9. Once(q[k], q) => q[k] \notin Entries(r)
  <2> SUFFICES ASSUME Once(q[k], q), NEW i \in 1 .. n - 1, r[i] = q[k]
               PROVE  FALSE
    BY <1>2 DEF Entries
  <2>1. at(i) \in 1 .. n /\ q[at(i)] = q[k] /\ at(i) # k
    BY <1>1, <1>2
  <2> HIDE DEF at
  <2> QED BY <1>1, <2>1 DEF Once
<1>10. Head(q) # q[k] => r # << >> /\ Head(r) = Head(q)
  <2> HAVE Head(q) # q[k]
  <2>1. k # 1 /\ 1 \in 1 .. n - 1
    BY <1>1
  <2>2. r[1] = q[1] /\ r # << >>
    BY <1>1, <1>2, <2>1
  <2> QED BY <1>1, <1>4, <2>2
<1> QED BY <1>4, <1>5, <1>6, <1>8, <1>9, <1>10 DEF r

(* r has no more entries in q2 than in q, and if it was at the head of q   *)
(* it is at the head of q2, or gone: so do all three operations leave      *)
(* those they are not about.                                               *)
Keeps(r, q, q2) ==
    /\ r \in Entries(q2) => r \in Entries(q)
    /\ Once(r, q) => Once(r, q2)
    /\ r \in Entries(q2) /\ Once(r, q) /\ Head(q) = r => Head(q2) = r

LEMMA AppendKeeps ==
    ASSUME NEW T, NEW q \in Seq(T), NEW p \in T, NEW r, r # p
    PROVE  Keeps(r, q, Append(q, p)) /\ (r \in Entries(q) => r \in Entries(Append(q, p)))
<1>1. /\ Entries(Append(q, p)) = Entries(q) \union {p}
      /\ \A x : Once(x, q) /\ (x = p => p \notin Entries(q)) => Once(x, Append(q, p))
      /\ Head(Append(q, p)) = IF q = << >> THEN p ELSE Head(q)
  BY AppendEntries
<1>2. r \in Entries(q) => q # << >>
  BY EntryOfNonempty
<1> QED BY <1>1, <1>2 DEF Keeps

LEMMA TailKeeps ==
    ASSUME NEW T, NEW q \in Seq(T), q # << >>, NEW r
    PROVE  /\ Keeps(r, q, Tail(q))
           /\ r \in Entries(q) /\ r # Head(q) => r \in Entries(Tail(q))
<1>1. /\ Entries(Tail(q)) \subseteq Entries(q)
      /\ \A x : Once(x, q) => Once(x, Tail(q))
      /\ \A x \in Entries(q) : x # Head(q) => x \in Entries(Tail(q))
      /\ Once(Head(q), q) => Head(q) \notin Entries(Tail(q))
  BY TailEntries
<1> QED BY <1>1 DEF Keeps

LEMMA WithoutKeeps ==
    ASSUME NEW T, NEW q \in Seq(T), NEW k \in DOMAIN q, NEW r, r # q[k]
    PROVE  Keeps(r, q, Without(q, k)) /\ (r \in Entries(q) => r \in Entries(Without(q, k)))
<1>1. /\ Entries(Without(q, k)) \subseteq Entries(q)
      /\ \A x : Once(x, q) => Once(x, Without(q, k))
      /\ \A x \in Entries(q) : x # q[k] => x \in Entries(Without(q, k))
      /\ Head(q) # q[k] => Without(q, k) # << >> /\ Head(Without(q, k)) = Head(q)
  BY WithoutEntries
<1> QED BY <1>1 DEF Keeps

(* A queue in which nobody is twice is no longer than there are who could  *)
(* be in it.                                                               *)
LEMMA QueueFits ==
    ASSUME NEW T, IsFiniteSet(T), NEW q \in Seq(T), OnceEach(q)
    PROVE  Len(q) <= Cardinality(T)
<1>1. Len(q) \in Nat /\ DOMAIN q = 1 .. Len(q) /\ q \in [1 .. Len(q) -> T]
  OBVIOUS
<1>2. IsFiniteSet(1 .. Len(q)) /\ Cardinality(1 .. Len(q)) = Len(q)
  <2>1. Cardinality(1 .. Len(q)) = IF 1 > Len(q) THEN 0 ELSE Len(q) - 1 + 1
    BY <1>1, FS_Interval
  <2> QED BY <1>1, <2>1, FS_Interval
<1>3. Cardinality(T) \in Nat
  BY FS_CardinalityType
<1>4. SUFFICES ASSUME Cardinality(T) < Len(q) PROVE FALSE
  BY <1>1, <1>3
<1>5. \E i, j \in 1 .. Len(q) : i # j /\ q[i] = q[j]
  BY <1>1, <1>2, <1>4, FS_PigeonHole
<1> QED BY <1>1, <1>5 DEF OnceEach

(* ... so a queue with room for everybody has room for one who is not in   *)
(* it.                                                                     *)
LEMMA QueueTakesOneMore ==
    ASSUME NEW T, IsFiniteSet(T), NEW q \in Seq(T), OnceEach(q), NEW p \in T, p \notin Entries(q)
    PROVE  Len(q) < Cardinality(T)
<1>1. Len(q) \in Nat /\ DOMAIN q = 1 .. Len(q) /\ \A i \in 1 .. Len(q) : q[i] \in T
  OBVIOUS
<1>2. q \in Seq(T \ {p})
  <2>1. \A i \in 1 .. Len(q) : q[i] \in T \ {p}
    BY <1>1 DEF Entries
  <2>2. q \in [1 .. Len(q) -> T \ {p}]
    BY <1>1, <2>1
  <2> QED BY <1>1, <2>2
<1>3. /\ IsFiniteSet(T \ {p}) /\ Cardinality(T \ {p}) = Cardinality(T) - 1
      /\ Cardinality(T) \in Nat
  BY FS_RemoveElement, FS_CardinalityType
<1>4. Len(q) <= Cardinality(T \ {p})
  BY <1>2, <1>3, QueueFits
<1> QED BY <1>1, <1>3, <1>4

=============================================================================
