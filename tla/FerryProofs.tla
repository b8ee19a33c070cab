---------------------------- MODULE FerryProofs ----------------------------
(***************************************************************************)
(* What holds of the ferry for any parties and groups, any limit and any   *)
(* capacity of the queues, by day and when the night falls: the types, the *)
(* places, the captain, that a guide waits for its group, and that the     *)
(* queues hold exactly who waits in them.                                  *)
(***************************************************************************)
EXTENDS Ferry, QueueLemmas, FiniteSetTheorems, SequenceTheorems, TLAPS

----------------------------------------------------------------------------
(* Types *)

PcType ==
    /\ pc \in [Processes -> PartyStates \union MemberStates]
    /\ \A p \in Parties : pc[p] \in PartyStates
    /\ \A m \in Members : pc[m] \in MemberStates

LEMMA PartyGoes ==
    ASSUME PcType, NEW p \in Parties, NEW l \in PartyStates, Goto(p, l)
    PROVE  PcType'
BY FerryConstants DEF PcType, Goto, Processes

LEMMA MemberGoes ==
    ASSUME PcType, NEW m \in Members, NEW l \in MemberStates, Goto(m, l)
    PROVE  PcType'
BY FerryConstants DEF PcType, Goto, Processes

LEMMA FirstIsParty ==
    ASSUME NEW q \in Seq(Parties)
    PROVE  First(q) \subseteq Parties
<1>1. q # << >> => Head(q) \in Parties
  OBVIOUS
<1> QED BY <1>1 DEF First

LEMMA NextIsParty ==
    ASSUME NEW q \in [Lines -> Seq(Parties)], NEW d \in BOOLEAN
    PROVE  NextInLine(q, d) \subseteq Parties
<1>1. << TRUE, d >> \in Lines /\ << FALSE, d >> \in Lines
  BY DEF Lines
<1>2. q[<< TRUE, d >>] \in Seq(Parties) /\ q[<< FALSE, d >>] \in Seq(Parties)
  BY <1>1
<1> QED BY <1>2, FirstIsParty DEF NextInLine

LEMMA LineIsLine ==
    ASSUME track \in [Parties -> BOOLEAN], NEW p \in Parties
    PROVE  Line(p) \in Lines
<1>1. (p \in VIPs) \in BOOLEAN /\ track[p] \in BOOLEAN
  OBVIOUS
<1> QED BY <1>1 DEF Line, Lines

LEMMA EraseKeepsType ==
    ASSUME TypeOK, NEW p \in Parties, Erase(p)
    PROVE  queue' \in [Lines -> Seq(Parties)]
<1> DEFINE q == queue[Line(p)]
           n == Len(q)
<1>0. Line(p) \in Lines /\ q \in Seq(Parties)
  BY LineIsLine DEF TypeOK
<1>1. CASE UNCHANGED queue
  BY <1>1 DEF TypeOK
<1>2. ASSUME NEW i \in DOMAIN q,
             queue' = [queue EXCEPT ![Line(p)] =
                         [j \in 1 .. Len(q) - 1 |-> IF j < i THEN q[j] ELSE q[j + 1]]]
      PROVE  queue' \in [Lines -> Seq(Parties)]
  <2>1. n \in Nat /\ i \in 1 .. n
    BY <1>0, <1>2
  <2>2. n - 1 \in Nat
    BY <2>1
  <2>3. \A k \in 1 .. n : q[k] \in Parties
    BY <1>0
  <2>4. \A j \in 1 .. n - 1 : j \in 1 .. n /\ j + 1 \in 1 .. n
    BY <2>1
  <2>5. \A j \in 1 .. n - 1 : (IF j < i THEN q[j] ELSE q[j + 1]) \in Parties
    BY <2>3, <2>4
  <2>6. [j \in 1 .. n - 1 |-> IF j < i THEN q[j] ELSE q[j + 1]] \in Seq(Parties)
    <3> HIDE DEF q, n
    <3> QED BY <2>2, <2>5
  <2> HIDE DEF q
  <2> QED BY <1>0, <1>2, <2>6 DEF TypeOK
<1> QED BY <1>1, <1>2 DEF Erase

LEMMA FamiliesFinite == \A m \in Members : IsFiniteSet(Family[m]) /\ Cardinality(Family[m]) \in Nat
<1> TAKE m \in Members
<1>1. Family[m] \in SUBSET UNION {Family[n] : n \in Members}
  OBVIOUS
<1>2. IsFiniteSet(Family[m])
  BY <1>1, FS_Subset, FerryConstants
<1> QED BY <1>2, FS_CardinalityType

LEMMA GroupsFinite == \A p \in Parties : /\ IsFiniteSet(Visitors(p))
                                         /\ visitors_in_group(p) \in Nat /\ Places(p) \in Nat
<1> TAKE p \in Parties
<1>1. Visitors(p) \in SUBSET UNION {Family[n] : n \in Members}
  BY DEF Visitors, Group
<1>2. IsFiniteSet(Visitors(p))
  BY <1>1, FS_Subset, FerryConstants
<1>3. visitors_in_group(p) \in Nat
  BY <1>2, FS_CardinalityType DEF visitors_in_group
<1> QED BY <1>2, <1>3 DEF Places

LEMMA InitTypes == Init => TypeOK
<1> SUFFICES ASSUME Init PROVE TypeOK
  OBVIOUS
<1>1. PcType
  BY FerryConstants DEF Init, PcType, PartyStates, MemberStates, Processes
<1>2. \A l \in Lines : << >> \in Seq(Parties)
  OBVIOUS
<1> QED BY <1>1, <1>2, FerryConstants DEF Init, TypeOK, PcType

(* Who is in sigwaitinfo goes on where it belongs. *)
LEMMA WokenGoes ==
    ASSUME PcType, NEW p \in Processes, pc[p] \in Asleep, Goto(p, Woken(pc[p]))
    PROVE  PcType'
<1>1. CASE p \in Parties
  <2>1. Woken(pc[p]) \in PartyStates
    BY <1>1 DEF PcType, Asleep, Woken, PartyStates, Lined, Aboard, Boarding
  <2> QED BY <1>1, <2>1, PartyGoes
<1>2. CASE p \in Members
  <2>1. Woken(pc[p]) \in MemberStates
    BY <1>2 DEF PcType, Asleep, Woken, MemberStates
  <2> QED BY <1>2, <2>1, MemberGoes
<1> QED BY <1>1, <1>2 DEF Processes

LEMMA InterruptedGoes ==
    ASSUME PcType, NEW p \in Processes, Interrupted(p)
    PROVE  PcType'
<1>1. CASE pc[p] \in Asleep
  BY <1>1, WokenGoes DEF Interrupted
<1>2. CASE UNCHANGED pc
  BY <1>2 DEF PcType
<1> QED BY <1>1, <1>2 DEF Interrupted

LEMMA WakeUpTypes ==
    ASSUME TypeOK, NEW p \in Processes, WakeUp(p)
    PROVE  TypeOK'
<1>1. PcType'
  BY WokenGoes DEF WakeUp, TypeOK, PcType
<1> QED BY <1>1 DEF WakeUp, TypeOK, PcType, groupVars, ferryVars, nightVars

(* The steps of the queues. *)
LEMMA LineTypes ==
    ASSUME TypeOK, NEW p \in Parties, CheckFirst(p) \/ Recheck(p) \/ Retry(p)
    PROVE  TypeOK'
<1>0. PcType /\ Line(p) \in Lines /\ p \in Processes
  BY LineIsLine DEF TypeOK, PcType, Processes
<1> USE DEF groupVars, ferryVars, nightVars
<1>1. CASE CheckFirst(p)
  <2>1. PICK first \in IF queue[Line(p)] = << >> THEN Parties ELSE First(queue[Line(p)]) :
          \/ /\ first = p
             /\ Goto(p, IF p \in leave_park THEN "elsewhere" ELSE "trying")
             /\ UNCHANGED wake
          \/ first # p /\ wake' = wake \union {first} /\ Goto(p, "asleep1")
    BY <1>1 DEF CheckFirst
  <2>2. queue[Line(p)] \in Seq(Parties)
    BY <1>0 DEF TypeOK
  <2>3. first \in Processes
    BY <2>1, <2>2, FirstIsParty DEF Processes
  <2>4. wake' \subseteq Processes
    BY <2>1, <2>3 DEF TypeOK
  <2>5. PcType'
    BY <1>0, <2>1, PartyGoes DEF PartyStates, Lined
  <2> QED BY <1>1, <2>4, <2>5 DEF CheckFirst, TypeOK, PcType
<1>2. CASE Recheck(p)
  <2>1. queue' \in [Lines -> Seq(Parties)]
    BY <1>2, EraseKeepsType DEF Recheck, TypeOK
  <2>2. PcType'
    BY <1>0, <1>2, PartyGoes DEF Recheck, PartyStates, Lined
  <2> QED BY <1>2, <2>1, <2>2 DEF Recheck, TypeOK, PcType
<1>3. CASE Retry(p)
  <2>1. queue' \in [Lines -> Seq(Parties)]
    BY <1>3, EraseKeepsType DEF Retry, TypeOK
  <2>2. PcType'
    BY <1>0, <1>3, PartyGoes DEF Retry, PartyStates, Lined
  <2>3. First(queue'[Line(p)]) \subseteq Processes
    BY <1>0, <2>1, FirstIsParty DEF Processes
  <2>4. wake' \subseteq Processes
    BY <1>3, <2>3 DEF Retry, TypeOK
  <2> QED BY <1>3, <2>1, <2>2, <2>4 DEF Retry, TypeOK, PcType
<1> QED BY <1>1, <1>2, <1>3

(* The captain holds the first of the seats that are taken, and it alone   *)
(* waits for the others and sails.  The types rest on it: Sail reads the   *)
(* seats up to ferry_seats_taken.                                          *)
CaptainKnown ==
    /\ \A p \in ferry_leader : pc[p] \in Boarding
    /\ \A p \in Parties : pc[p] \in {"asleep3", "sailing"} => p \in ferry_leader
    /\ ferry_seats_taken = 0 => ferry_leader = {}
    /\ ferry_seats_taken # 0 =>
          /\ Len(ferry_seats) = ferry_seats_taken
          /\ ferry_leader = {ferry_seats[1]}
          /\ track[ferry_seats[1]] = ferry_side

(* The steps on board. *)
LEMMA BoardTypes ==
    ASSUME TypeOK, CaptainKnown, NEW p \in Parties,
           TryBoard(p) \/ PopEntry(p) \/ Depart(p) \/ Sail(p) \/ Release(p) \/ CallNext(p)
    PROVE  TypeOK'
<1>0. PcType /\ Line(p) \in Lines /\ p \in Processes /\ track[p] \in BOOLEAN /\ Places(p) \in Nat
  BY LineIsLine, GroupsFinite DEF TypeOK, PcType, Processes
<1>0a. First(ferry_seats) \subseteq Processes
  BY FirstIsParty DEF TypeOK, Processes
<1>0b. "popping" \in PartyStates /\ "boarding" \in PartyStates /\ "asleep2" \in PartyStates
  BY DEF PartyStates, Lined, Aboard, Boarding
<1> USE DEF groupVars, ferryVars, nightVars
<1>1. CASE TryBoard(p)
  <2>0. ferry_side' \in BOOLEAN
    BY <1>0, <1>1 DEF TryBoard, TypeOK
  <2>1. PcType'
    BY <1>0, <1>0b, <1>1, PartyGoes DEF TryBoard
  <2>2. wake' \subseteq Processes
    BY <1>0a, <1>1 DEF TryBoard, TypeOK
  <2>3. sem' \in Nat
    BY <1>0, <1>1 DEF TryBoard, TypeOK, Fits
  <2>4. << p >> \in Seq(Parties) /\ Append(ferry_seats, p) \in Seq(Parties)
    BY DEF TypeOK
  <2>5. ferry_seats' \in Seq(Parties)
    BY <1>1, <2>4 DEF TryBoard, TypeOK
  <2>6. ferry_leader' \subseteq Parties /\ ferry_seats_taken' \in Nat
    BY <1>1 DEF TryBoard, TypeOK
  <2> QED BY <1>1, <2>0, <2>1, <2>2, <2>3, <2>5, <2>6 DEF TryBoard, TypeOK, PcType
<1>2. CASE PopEntry(p)
  <2>1. queue' \in [Lines -> Seq(Parties)]
    <3>1. queue[Line(p)] \in Seq(Parties)
      BY <1>0 DEF TypeOK
    <3>2. queue[Line(p)] # << >> => Tail(queue[Line(p)]) \in Seq(Parties)
      BY <3>1
    <3> QED BY <1>0, <1>2, <3>1, <3>2 DEF PopEntry, TypeOK
  <2>2. NextInLine(queue', track[p]) \subseteq Processes
    BY <1>0, <2>1, NextIsParty DEF Processes
  <2>3. wake' \subseteq Processes
    BY <1>2, <2>2 DEF PopEntry, TypeOK, Group, Processes
  <2>4. PcType'
    BY <1>0, <1>0b, <1>2, PartyGoes DEF PopEntry
  <2> QED BY <1>2, <2>1, <2>3, <2>4 DEF PopEntry, TypeOK, PcType
<1>3. CASE Depart(p)
  <2>1. PcType'
    BY <1>0, <1>3, PartyGoes DEF Depart, PartyStates, Aboard, Boarding
  <2>2. wake' \subseteq Processes
    BY <1>0a, <1>3 DEF Depart, TypeOK
  <2> QED BY <1>3, <2>1, <2>2 DEF Depart, TypeOK, PcType
<1>4. CASE Sail(p)
  <2>1. PcType'
    BY <1>0, <1>4, PartyGoes DEF Sail, PartyStates, Aboard
  <2>2. Len(ferry_seats) = ferry_seats_taken /\ Len(ferry_seats) >= 1
    BY <1>4 DEF Sail, CaptainKnown, TypeOK
  <2>3. SubSeq(ferry_seats, 1, 1) \in Seq(Parties)
    <3>1. 1 \in 1 .. Len(ferry_seats) + 1 /\ 1 \in 0 .. Len(ferry_seats)
      BY <2>2 DEF TypeOK
    <3> QED BY <3>1, SubSeqProperties DEF TypeOK
  <2>4. \A i \in 2 .. ferry_seats_taken : ferry_seats[i] \in Processes
    BY <2>2 DEF TypeOK, Processes
  <2>5. wake' \subseteq Processes
    BY <1>4, <2>4 DEF Sail, TypeOK
  <2> QED BY <1>0, <1>4, <2>1, <2>3, <2>5 DEF Sail, TypeOK, PcType
<1>5. CASE Release(p)
  <2>1. PcType'
    BY <1>0, <1>5, PartyGoes DEF Release, PartyStates
  <2>2. sem' \in Nat
    BY <1>0, <1>5 DEF Release, TypeOK
  <2> QED BY <1>5, <2>1, <2>2 DEF Release, TypeOK, PcType
<1>6. CASE CallNext(p)
  <2>1. PcType'
    BY <1>0, <1>6, PartyGoes DEF CallNext, PartyStates
  <2>2. \A d \in BOOLEAN : NextInLine(queue, d) \subseteq Processes
    BY NextIsParty DEF TypeOK, Processes
  <2>3. wake' \subseteq Processes
    BY <1>6, <2>2 DEF CallNext, TypeOK
  <2> QED BY <1>6, <2>1, <2>3 DEF CallNext, TypeOK, PcType
<1> QED BY <1>1, <1>2, <1>3, <1>4, <1>5, <1>6

LEMMA PartyTypes ==
    ASSUME TypeOK, CaptainKnown, NEW p \in Parties, PartyStep(p)
    PROVE  TypeOK'
BY WakeUpTypes, LineTypes, BoardTypes DEF PartyStep, Processes

LEMMA GuideTypes ==
    ASSUME TypeOK, CaptainKnown, NEW g \in Guides, GuideStep(g)
    PROVE  TypeOK'
<1>0. PcType /\ g \in Parties
  BY DEF TypeOK, PcType, Parties
<1> USE DEF groupVars, ferryVars, nightVars
<1>1. CASE PartyStep(g)
  BY <1>0, <1>1, PartyTypes
<1>2. CASE GuideCount(g)
  <2>1. PICK m \in Group(g) :
          /\ inbox[m] > 0
          /\ inbox' = [inbox EXCEPT ![m] = @ - 1]
          /\ checkins' = [checkins EXCEPT ![g] = @ + Cardinality(Family[m])]
    BY <1>2 DEF GuideCount
  <2>2. m \in Members /\ Cardinality(Family[m]) \in Nat
    BY FamiliesFinite DEF Group
  <2>3. inbox' \in [Members -> Nat] /\ checkins' \in [Guides -> Nat]
    BY <2>1, <2>2 DEF TypeOK
  <2> QED BY <1>2, <2>3 DEF GuideCount, TypeOK
<1>3. CASE Alight(g)
  <2>1. PcType'
    BY <1>0, <1>3, PartyGoes DEF Alight, PartyStates, Aboard
  <2>2. wake' \subseteq Processes
    BY <1>3 DEF Alight, TypeOK, Group, Processes
  <2>3. checkins' \in [Guides -> Nat]
    BY <1>3 DEF Alight, TypeOK
  <2> QED BY <1>3, <2>1, <2>2, <2>3 DEF Alight, TypeOK, PcType
<1> QED BY <1>1, <1>2, <1>3 DEF GuideStep

LEMMA MemberTypes ==
    ASSUME TypeOK, NEW m \in Members, MemberStep(m)
    PROVE  TypeOK'
<1>0. PcType /\ m \in Processes
  BY DEF TypeOK, PcType, Processes
<1> USE DEF groupVars, ferryVars, nightVars
<1>1. CASE WakeUp(m)
  BY <1>0, <1>1, WakeUpTypes
<1>2. CASE Read(m)
  <2>1. PcType'
    BY <1>0, <1>2, MemberGoes DEF Read, MemberStates, PcType
  <2>2. inbox' \in [Members -> Nat]
    BY <1>2 DEF Read, TypeOK
  <2> QED BY <1>2, <2>1, <2>2 DEF Read, TypeOK, PcType
<1>3. CASE Land(m)
  <2>1. PcType'
    BY <1>0, <1>3, MemberGoes DEF Land, MemberStates
  <2>2. inbox' \in [Members -> Nat]
    BY <1>3 DEF Land, TypeOK
  <2> QED BY <1>3, <2>1, <2>2 DEF Land, TypeOK, PcType
<1>4. CASE MemberTold(m)
  <2>1. PcType'
    BY <1>0, <1>4, InterruptedGoes DEF MemberTold
  <2> QED BY <1>4, <2>1 DEF MemberTold, TypeOK, PcType
<1> QED BY <1>1, <1>2, <1>3, <1>4 DEF MemberStep

LEMMA OutsideTypes ==
    ASSUME TypeOK, Arrivals \/ Nightfall \/ CashierStep
    PROVE  TypeOK'
<1>0. PcType
  BY DEF TypeOK, PcType
<1> USE DEF groupVars, ferryVars, nightVars
<1>1. ASSUME NEW p \in Parties, NEW d \in BOOLEAN, Arrive(p, d) PROVE TypeOK'
  <2>1. PcType'
    BY <1>0, <1>1, PartyGoes DEF Arrive, PartyStates, Lined
  <2>2. wake' \subseteq Processes
    BY <1>1 DEF Arrive, TypeOK, Group, Processes
  <2>3. track' \in [Parties -> BOOLEAN]
    BY <1>1 DEF Arrive, TypeOK
  <2>4. queue' \in [Lines -> Seq(Parties)]
    <3> DEFINE l == << p \in VIPs, d >>
    <3>1. l \in Lines
      <4>1. (p \in VIPs) \in BOOLEAN
        OBVIOUS
      <4> QED BY <4>1 DEF Lines
    <3>2. queue[l] \in Seq(Parties) /\ Append(queue[l], p) \in Seq(Parties)
      BY <3>1 DEF TypeOK
    <3>3. queue' = [queue EXCEPT ![l] = IF Len(@) < Capacity THEN Append(@, p) ELSE @]
      BY <1>1 DEF Arrive
    <3> HIDE DEF l
    <3> QED BY <3>1, <3>2, <3>3 DEF TypeOK
  <2>5. visits' \in Nat
    BY <1>1 DEF Arrive, TypeOK
  <2> QED BY <1>1, <2>1, <2>2, <2>3, <2>4, <2>5 DEF Arrive, TypeOK, PcType
<1>2. CASE Nightfall
  BY <1>2 DEF Nightfall, TypeOK
<1>3. CASE Round
  <2>1. wake' \subseteq Processes
    BY <1>3 DEF Round, TypeOK, Processes, Parties
  <2> QED BY <1>3, <2>1 DEF Round, TypeOK
<1>4. ASSUME NEW g \in Guides, GuideTold(g) PROVE TypeOK'
  <2>1. g \in Processes
    BY DEF Processes, Parties
  <2>2. PcType'
    BY <1>0, <1>4, <2>1, InterruptedGoes DEF GuideTold
  <2> QED BY <1>4, <2>2 DEF GuideTold, TypeOK, PcType, Group
<1> QED BY <1>1, <1>2, <1>3, <1>4 DEF Arrivals, CashierStep

LEMMA NextTypes == TypeOK /\ CaptainKnown /\ [Next]_vars => TypeOK'
<1> SUFFICES ASSUME TypeOK, CaptainKnown, [Next]_vars PROVE TypeOK'
  OBVIOUS
<1>1. ASSUME NEW g \in Guides, GuideStep(g) PROVE TypeOK'
  BY <1>1, GuideTypes
<1>2. ASSUME NEW v \in VIPs, PartyStep(v) PROVE TypeOK'
  BY <1>2, PartyTypes DEF Parties
<1>3. ASSUME NEW m \in Members, MemberStep(m) PROVE TypeOK'
  BY <1>3, MemberTypes
<1>4. CASE Arrivals \/ Nightfall \/ CashierStep
  BY <1>4, OutsideTypes
<1>5. CASE UNCHANGED vars
  BY <1>5 DEF TypeOK, vars, groupVars, ferryVars, nightVars
<1> QED BY <1>1, <1>2, <1>3, <1>4, <1>5 DEF Next

(* What a step does to pc: one process moves, and a signal moves whoever   *)
(* waits in sigwaitinfo on to the next place.                              *)
LEMMA OthersStay ==
    ASSUME TypeOK, NEW p \in Processes, NEW l, Goto(p, l)
    PROVE  pc'[p] = l /\ \A r \in Processes : r # p => pc'[r] = pc[r]
BY DEF TypeOK, Goto

LEMMA PartiesAreProcesses ==
    /\ Guides \subseteq Parties /\ VIPs \subseteq Parties /\ Parties \subseteq Processes
    /\ Members \subseteq Processes
    /\ \A m \in Members : m \notin Parties
BY FerryConstants DEF Parties, Processes

(* Steps that are not about the seats. *)
LEMMA CaptainStays ==
    ASSUME TypeOK, CaptainKnown, UNCHANGED << ferry_side, ferry_seats, ferry_seats_taken, ferry_leader >>,
           \A p \in ferry_leader : track'[p] = track[p] /\ pc'[p] \in Boarding,
           \A p \in Parties : pc'[p] \in {"asleep3", "sailing"} =>
                                  p \in ferry_leader \/ pc[p] \in {"asleep3", "sailing"}
    PROVE  CaptainKnown'
BY DEF CaptainKnown

LEMMA WokenCaptain ==
    ASSUME TypeOK, CaptainKnown, NEW r \in Processes, Interrupted(r),
           UNCHANGED << track, ferry_side, ferry_seats, ferry_seats_taken, ferry_leader >>
    PROVE  CaptainKnown'
<1>1. \A p \in Parties : pc'[p] = pc[p] \/ (pc[p] \in Asleep /\ pc'[p] = Woken(pc[p]))
  BY OthersStay, PartiesAreProcesses DEF Interrupted
<1>2. \A p \in Parties : pc[p] \in Boarding => pc'[p] \in Boarding
  BY <1>1 DEF Asleep, Woken, Boarding
<1>3. \A p \in Parties : pc'[p] \in {"asleep3", "sailing"} => pc[p] \in {"asleep3", "sailing"}
  BY <1>1 DEF Asleep, Woken
<1> QED BY <1>2, <1>3, CaptainStays DEF CaptainKnown, TypeOK

LEMMA BoardCaptain ==
    ASSUME TypeOK, CaptainKnown, NEW p \in Parties, TryBoard(p) \/ Sail(p)
    PROVE  CaptainKnown'
<1>0. p \in Processes
  BY PartiesAreProcesses
<1>1. CASE TryBoard(p)
  <2>1. pc[p] = "trying" /\ p \notin ferry_leader /\ track' = track
    BY <1>1 DEF TryBoard, CaptainKnown, Boarding
  <2>2. CASE Goto(p, "asleep2") /\ UNCHANGED << ferry_seats, ferry_seats_taken, ferry_leader >>
    <3>1. \A r \in Parties : r # p => pc'[r] = pc[r]
      BY <1>0, <2>2, OthersStay, PartiesAreProcesses
    <3>2. pc'[p] = "asleep2"
      BY <1>0, <2>2, OthersStay
    <3>3. ferry_seats_taken # 0 => ferry_side' = ferry_side
      BY <1>1 DEF TryBoard
    <3> QED BY <2>1, <2>2, <3>1, <3>2, <3>3 DEF CaptainKnown, TypeOK
  <2>3. CASE /\ ferry_side' = track[p] /\ Goto(p, "popping")
             /\ ferry_seats' = IF ferry_seats_taken = 0 THEN << p >> ELSE Append(ferry_seats, p)
             /\ ferry_leader' = IF ferry_seats_taken = 0 THEN ferry_leader \union {p} ELSE ferry_leader \ {p}
             /\ ferry_seats_taken' = ferry_seats_taken + 1
    <3>1. \A r \in Parties : r # p => pc'[r] = pc[r]
      BY <1>0, <2>3, OthersStay, PartiesAreProcesses
    <3>2. pc'[p] = "popping"
      BY <1>0, <2>3, OthersStay
    <3>3. CASE ferry_seats_taken = 0
      <4>1. ferry_leader' = {p} /\ ferry_seats' = << p >> /\ ferry_seats_taken' = 1
        BY <2>3, <3>3 DEF CaptainKnown
      <4>2. Len(ferry_seats') = 1 /\ ferry_seats'[1] = p
        BY <4>1
      <4>3. \A r \in Parties : pc'[r] \notin {"asleep3", "sailing"}
        BY <3>1, <3>2, <3>3 DEF CaptainKnown
      <4> QED BY <2>1, <2>3, <3>2, <4>1, <4>2, <4>3 DEF CaptainKnown, Boarding
    <3>4. CASE ferry_seats_taken # 0
      <4>1. /\ ferry_leader' = ferry_leader /\ ferry_seats' = Append(ferry_seats, p)
            /\ ferry_side' = ferry_side
        BY <1>1, <2>1, <2>3, <3>4 DEF TryBoard
      <4>2. Len(ferry_seats) = ferry_seats_taken /\ Len(ferry_seats) >= 1
        BY <3>4 DEF CaptainKnown, TypeOK
      <4>3. Len(ferry_seats') = ferry_seats_taken + 1 /\ ferry_seats'[1] = ferry_seats[1]
        BY <4>1, <4>2 DEF TypeOK
      <4>4. ferry_seats_taken' # 0
        BY <2>3 DEF TypeOK
      <4>5. \A r \in ferry_leader : r # p /\ r \in Parties /\ pc'[r] \in Boarding
        BY <2>1, <3>1 DEF CaptainKnown, TypeOK
      <4>6. \A r \in Parties : pc'[r] \in {"asleep3", "sailing"} => r \in ferry_leader
        BY <3>1, <3>2 DEF CaptainKnown
      <4> QED BY <2>1, <2>3, <3>4, <4>1, <4>3, <4>4, <4>5, <4>6 DEF CaptainKnown
    <3> QED BY <3>3, <3>4
  <2> QED BY <1>1, <2>2, <2>3 DEF TryBoard
<1>2. CASE Sail(p)
  <2>1. p \in ferry_leader /\ ferry_leader = {p}
    BY <1>2 DEF Sail, CaptainKnown
  <2>2. ferry_leader' = {} /\ ferry_seats_taken' = 0
    BY <1>2, <2>1 DEF Sail
  <2>3. \A r \in Parties : pc'[r] \notin {"asleep3", "sailing"}
    BY <1>0, <1>2, <2>1, OthersStay, PartiesAreProcesses DEF Sail, CaptainKnown
  <2> QED BY <2>2, <2>3 DEF CaptainKnown
<1> QED BY <1>1, <1>2

LEMMA PartyCaptain ==
    ASSUME TypeOK, CaptainKnown, NEW p \in Parties, PartyStep(p)
    PROVE  CaptainKnown'
<1>0. p \in Processes
  BY PartiesAreProcesses
<1>1. CASE TryBoard(p) \/ Sail(p)
  BY <1>1, BoardCaptain
<1>2. CASE WakeUp(p)
  BY <1>0, <1>2, WokenCaptain DEF WakeUp, Interrupted, ferryVars
<1>3. CASE CheckFirst(p) \/ Recheck(p) \/ Retry(p) \/ Release(p) \/ CallNext(p)
  <2>1. pc[p] \in Lined \union {"landed", "gathering", "released"}
    BY <1>3 DEF CheckFirst, Recheck, Retry, Release, CallNext, Lined
  <2>2. p \notin ferry_leader
    BY <2>1 DEF CaptainKnown, Boarding, Lined
  <2>3. /\ \A r \in Parties : r # p => pc'[r] = pc[r]
        /\ pc'[p] \in {"elsewhere", "trying", "asleep1", "queued", "released"}
    BY <1>0, <1>3, OthersStay, PartiesAreProcesses DEF CheckFirst, Recheck, Retry, Release, CallNext
  <2>4. UNCHANGED << track, ferry_side, ferry_seats, ferry_seats_taken, ferry_leader >>
    BY <1>3 DEF CheckFirst, Recheck, Retry, Release, CallNext, ferryVars
  <2> QED BY <2>2, <2>3, <2>4, CaptainStays DEF CaptainKnown, TypeOK
<1>4. CASE PopEntry(p) \/ Depart(p)
  <2>1. /\ \A r \in Parties : r # p => pc'[r] = pc[r]
        /\ pc'[p] \in {"boarding", "asleep3", "sailing", "asleep4"}
        /\ p \in ferry_leader => pc'[p] \in Boarding
        /\ pc'[p] \in {"asleep3", "sailing"} => p \in ferry_leader
    BY <1>0, <1>4, OthersStay, PartiesAreProcesses DEF PopEntry, Depart, Boarding
  <2>2. UNCHANGED << track, ferry_side, ferry_seats, ferry_seats_taken, ferry_leader >>
    BY <1>4 DEF PopEntry, Depart, ferryVars
  <2> QED BY <2>1, <2>2, CaptainStays DEF CaptainKnown, TypeOK
<1> QED BY <1>1, <1>2, <1>3, <1>4 DEF PartyStep

LEMMA NextCaptain == TypeOK /\ CaptainKnown /\ [Next]_vars => CaptainKnown'
<1> SUFFICES ASSUME TypeOK, CaptainKnown, [Next]_vars PROVE CaptainKnown'
  OBVIOUS
<1>1. ASSUME NEW p \in Parties, PartyStep(p) PROVE CaptainKnown'
  BY <1>1, PartyCaptain
<1>2. ASSUME NEW g \in Guides, GuideCount(g) \/ Alight(g) PROVE CaptainKnown'
  <2>1. /\ \A r \in Parties : r # g => pc'[r] = pc[r]
        /\ pc'[g] = pc[g] \/ (pc[g] = "landed" /\ pc'[g] = "gathering")
    BY <1>2, OthersStay, PartiesAreProcesses DEF GuideCount, Alight
  <2>2. UNCHANGED << track, ferry_side, ferry_seats, ferry_seats_taken, ferry_leader >>
    BY <1>2 DEF GuideCount, Alight, ferryVars
  <2> QED BY <2>1, <2>2, CaptainStays DEF CaptainKnown, TypeOK, Boarding
<1>3. ASSUME NEW m \in Members, MemberStep(m) PROVE CaptainKnown'
  <2>1. \A r \in Parties : pc'[r] = pc[r]
    BY <1>3, OthersStay, PartiesAreProcesses
       DEF MemberStep, WakeUp, Read, Land, MemberTold, Interrupted
  <2>2. UNCHANGED << track, ferry_side, ferry_seats, ferry_seats_taken, ferry_leader >>
    BY <1>3 DEF MemberStep, WakeUp, Read, Land, MemberTold, ferryVars
  <2> QED BY <2>1, <2>2, CaptainStays DEF CaptainKnown, TypeOK
<1>4. ASSUME NEW p \in Parties, NEW d \in BOOLEAN, Arrive(p, d) PROVE CaptainKnown'
  <2>1. /\ \A r \in Parties : r # p => pc'[r] = pc[r] /\ track'[r] = track[r]
        /\ pc[p] = "elsewhere" /\ pc'[p] = "queued"
    BY <1>4, OthersStay, PartiesAreProcesses DEF Arrive, TypeOK
  <2>2. p \notin ferry_leader
    BY <2>1 DEF CaptainKnown, Boarding
  <2>3. UNCHANGED << ferry_side, ferry_seats, ferry_seats_taken, ferry_leader >>
    BY <1>4 DEF Arrive, ferryVars
  <2> QED BY <2>1, <2>2, <2>3, CaptainStays DEF CaptainKnown, TypeOK
<1>5. CASE Nightfall \/ Round \/ UNCHANGED vars
  <2>1. UNCHANGED << pc, track, ferry_side, ferry_seats, ferry_seats_taken, ferry_leader >>
    BY <1>5 DEF Nightfall, Round, vars, ferryVars
  <2> QED BY <2>1, CaptainStays DEF CaptainKnown, TypeOK
<1>6. ASSUME NEW g \in Guides, GuideTold(g) PROVE CaptainKnown'
  BY <1>6, WokenCaptain, PartiesAreProcesses DEF GuideTold, ferryVars
<1> QED BY <1>1, <1>2, <1>3, <1>4, <1>5, <1>6, PartiesAreProcesses
        DEF Next, GuideStep, Arrivals, CashierStep

TypesAndCaptain == TypeOK /\ CaptainKnown

LEMMA TypesAndCaptainHold == Spec => []TypesAndCaptain
<1>1. Init => TypesAndCaptain
  <2>1. Init => CaptainKnown
    <3>1. Init => \A p \in Parties : pc[p] = "elsewhere"
      BY PartiesAreProcesses DEF Init
    <3> QED BY <3>1 DEF Init, CaptainKnown
  <2> QED BY <2>1, InitTypes DEF TypesAndCaptain
<1>2. TypesAndCaptain /\ [Next]_vars => TypesAndCaptain'
  BY NextTypes, NextCaptain DEF TypesAndCaptain
<1> QED BY <1>1, <1>2, PTL DEF Spec

(* Every place in the code, every status and the four queues stay what     *)
(* they are meant to be; SEM_FERRY never falls below zero.                 *)
THEOREM FerryTypes == Spec => []TypeOK
<1>1. TypesAndCaptain => TypeOK
  BY DEF TypesAndCaptain
<1> QED BY <1>1, TypesAndCaptainHold, PTL

(* A ferry with seats taken has one captain, in the first seat and on its  *)
(* shore, however the parties come, board and are told to leave.           *)
THEOREM FerryHasOneCaptain == Spec => []OneCaptain
<1>1. TypesAndCaptain => OneCaptain
  BY DEF TypesAndCaptain, CaptainKnown, OneCaptain, Captains
<1> QED BY <1>1, TypesAndCaptainHold, PTL

----------------------------------------------------------------------------
(* The places *)

PeopleOf(A) == A \union UNION {Visitors(p) : p \in A}

LEMMA PeopleFinite == \A A \in SUBSET Parties :
                         IsFiniteSet(PeopleOf(A)) /\ Cardinality(PeopleOf(A)) \in Nat
<1> TAKE A \in SUBSET Parties
<1>1. IsFiniteSet(Parties)
  BY FS_Union, FerryConstants DEF Parties
<1>2. IsFiniteSet(A)
  BY <1>1, FS_Subset
<1>3. UNION {Visitors(p) : p \in A} \in SUBSET UNION {Family[m] : m \in Members}
  BY DEF Visitors, Group
<1>4. IsFiniteSet(UNION {Visitors(p) : p \in A})
  BY <1>3, FS_Subset, FerryConstants
<1>5. IsFiniteSet(PeopleOf(A))
  BY <1>2, <1>4, FS_Union DEF PeopleOf
<1> QED BY <1>5, FS_CardinalityType

LEMMA GroupsDisjoint ==
    ASSUME NEW p \in Parties, NEW r \in Parties, p # r
    PROVE  Visitors(p) \intersect Visitors(r) = {} /\ p \notin Visitors(r)
<1>1. p \notin Visitors(r)
  BY FerryConstants DEF Visitors, Group
<1>2. \A m \in Group(p), n \in Group(r) : m \in Members /\ n \in Members /\ m # n
  BY DEF Group
<1>3. \A m \in Group(p), n \in Group(r) : Family[m] \intersect Family[n] = {}
  BY <1>2, FerryConstants
<1> QED BY <1>1, <1>3 DEF Visitors

LEMMA PeopleAdd ==
    ASSUME NEW A \in SUBSET Parties, NEW p \in Parties, p \notin A
    PROVE  Cardinality(PeopleOf(A \union {p})) = Cardinality(PeopleOf(A)) + Places(p)
<1> DEFINE P == {p} \union Visitors(p)
<1>1. PeopleOf(A \union {p}) = PeopleOf(A) \union P
  BY DEF PeopleOf
<1>2. p \notin Visitors(p)
  BY FerryConstants DEF Visitors, Group
<1>3. PeopleOf(A) \intersect P = {}
  <2>1. \A r \in A : r \in Parties /\ r # p
    OBVIOUS
  <2>2. \A r \in A : /\ Visitors(r) \intersect Visitors(p) = {}
                     /\ p \notin Visitors(r) /\ r \notin Visitors(p)
    BY <2>1, GroupsDisjoint
  <2> QED BY <2>1, <2>2 DEF PeopleOf
<1>4. IsFiniteSet(PeopleOf(A)) /\ IsFiniteSet(Visitors(p)) /\ Cardinality(PeopleOf(A)) \in Nat
  BY PeopleFinite, GroupsFinite
<1>5. Cardinality(Visitors(p) \union {p}) = Cardinality(Visitors(p)) + 1
  BY <1>2, <1>4, FS_AddElement
<1>6. IsFiniteSet(Visitors(p) \union {p})
  BY <1>4, FS_AddElement
<1>7. P = Visitors(p) \union {p}
  OBVIOUS
<1>8. IsFiniteSet(P) /\ Cardinality(P) = Places(p) /\ Places(p) \in Nat
  BY <1>5, <1>6, <1>7, GroupsFinite DEF Places, visitors_in_group
<1> HIDE DEF P
<1>9. Cardinality(PeopleOf(A) \union P) =
        Cardinality(PeopleOf(A)) + Cardinality(P) - Cardinality(PeopleOf(A) \intersect P)
  BY <1>4, <1>8, FS_Union
<1>10. Cardinality(PeopleOf(A) \intersect P) = 0
  BY <1>3, FS_EmptySet
<1>11. Cardinality(PeopleOf(A) \union P) = Cardinality(PeopleOf(A)) + Places(p)
  BY <1>4, <1>8, <1>9, <1>10
<1> QED BY <1>1, <1>11

LEMMA PlacesAre == PlacesKept <=> sem + Cardinality(PeopleOf(OnFerry)) = FerryLimit
BY DEF PlacesKept, PeopleOf

LEMMA NobodyMoves ==
    ASSUME PlacesKept, sem' = sem, \A p \in Parties : pc'[p] \in Aboard <=> pc[p] \in Aboard
    PROVE  PlacesKept'
<1>1. OnFerry' = OnFerry
  BY DEF OnFerry
<1> QED BY <1>1 DEF PlacesKept

LEMMA InitPlaces == Init => PlacesKept
<1> SUFFICES ASSUME Init PROVE PlacesKept
  OBVIOUS
<1>1. OnFerry = {}
  BY PartiesAreProcesses DEF Init, OnFerry, Aboard, Boarding
<1>2. PeopleOf(OnFerry) = {}
  BY <1>1 DEF PeopleOf
<1>3. Cardinality(PeopleOf(OnFerry)) = 0
  BY <1>2, FS_EmptySet
<1> QED BY <1>3, PlacesAre, FerryConstants DEF Init

LEMMA BoardPlaces ==
    ASSUME TypeOK, PlacesKept, NEW p \in Parties, TryBoard(p)
    PROVE  PlacesKept'
<1>0. p \in Processes
  BY PartiesAreProcesses
<1>1. CASE Goto(p, "asleep2") /\ UNCHANGED sem
  <2>1. pc[p] = "trying" /\ pc'[p] = "asleep2" /\ \A r \in Parties : r # p => pc'[r] = pc[r]
    BY <1>0, <1>1, OthersStay, PartiesAreProcesses DEF TryBoard
  <2> QED BY <1>1, <2>1, NobodyMoves DEF Aboard, Boarding
<1>2. CASE Goto(p, "popping") /\ sem' = sem - Places(p)
  <2>1. pc[p] = "trying" /\ pc'[p] = "popping" /\ \A r \in Parties : r # p => pc'[r] = pc[r]
    BY <1>0, <1>2, OthersStay, PartiesAreProcesses DEF TryBoard
  <2>2. OnFerry' = OnFerry \union {p} /\ p \notin OnFerry /\ OnFerry \in SUBSET Parties
    BY <2>1 DEF OnFerry, Aboard, Boarding
  <2>3. Cardinality(PeopleOf(OnFerry \union {p})) = Cardinality(PeopleOf(OnFerry)) + Places(p)
    BY <2>2, PeopleAdd
  <2>4. PeopleOf(OnFerry)' = PeopleOf(OnFerry \union {p})
    BY <2>2 DEF PeopleOf
  <2>5. Cardinality(PeopleOf(OnFerry)') = Cardinality(PeopleOf(OnFerry)) + Places(p)
    BY <2>3, <2>4
  <2>6. Cardinality(PeopleOf(OnFerry)) \in Nat /\ Places(p) \in Nat /\ sem \in Nat
    BY <2>2, PeopleFinite, GroupsFinite DEF TypeOK
  <2>7. sem' + Cardinality(PeopleOf(OnFerry)') = FerryLimit
    BY <1>2, <2>5, <2>6, PlacesAre, FerryConstants
  <2> QED BY <2>7, PlacesAre DEF PlacesKept, PeopleOf
<1> QED BY <1>1, <1>2 DEF TryBoard

LEMMA ReleasePlaces ==
    ASSUME TypeOK, PlacesKept, NEW p \in Parties, Release(p)
    PROVE  PlacesKept'
<1>0. p \in Processes
  BY PartiesAreProcesses
<1>1. /\ pc[p] \in {"landed", "gathering"} /\ pc'[p] = "released"
      /\ \A r \in Parties : r # p => pc'[r] = pc[r]
  BY <1>0, OthersStay, PartiesAreProcesses DEF Release
<1>2. OnFerry = OnFerry' \union {p} /\ p \notin OnFerry' /\ OnFerry' \in SUBSET Parties
  BY <1>1 DEF OnFerry, Aboard, Boarding
<1>3. Cardinality(PeopleOf(OnFerry' \union {p})) = Cardinality(PeopleOf(OnFerry')) + Places(p)
  BY <1>2, PeopleAdd
<1>4. Cardinality(PeopleOf(OnFerry)) = Cardinality(PeopleOf(OnFerry')) + Places(p)
  BY <1>2, <1>3
<1>5. Cardinality(PeopleOf(OnFerry')) \in Nat /\ Places(p) \in Nat /\ sem \in Nat
  BY <1>2, PeopleFinite, GroupsFinite DEF TypeOK
<1>6. sem' = sem + Places(p)
  BY DEF Release
<1>7. sem' + Cardinality(PeopleOf(OnFerry')) = FerryLimit
  BY <1>4, <1>5, <1>6, PlacesAre, FerryConstants
<1> QED BY <1>7 DEF PlacesKept, PeopleOf

LEMMA NextPlaces == TypeOK /\ PlacesKept /\ [Next]_vars => PlacesKept'
<1> SUFFICES ASSUME TypeOK, PlacesKept, [Next]_vars PROVE PlacesKept'
  OBVIOUS
<1> USE DEF ferryVars
<1>1. ASSUME NEW r \in Processes, Interrupted(r), sem' = sem PROVE PlacesKept'
  <2>1. \A p \in Parties : pc'[p] = pc[p] \/ (pc[p] \in Asleep /\ pc'[p] = Woken(pc[p]))
    BY <1>1, OthersStay, PartiesAreProcesses DEF Interrupted
  <2>2. \A p \in Parties : pc'[p] \in Aboard <=> pc[p] \in Aboard
    BY <2>1 DEF Asleep, Woken, Aboard, Boarding
  <2> QED BY <1>1, <2>2, NobodyMoves
<1>2. ASSUME NEW p \in Parties, CheckFirst(p) \/ Recheck(p) \/ Retry(p) \/ CallNext(p)
      PROVE  PlacesKept'
  <2>1. /\ pc[p] \in {"queued", "awake1", "awake2", "released"}
        /\ pc'[p] \in {"elsewhere", "trying", "asleep1", "queued"}
        /\ \A r \in Parties : r # p => pc'[r] = pc[r]
    BY <1>2, OthersStay, PartiesAreProcesses DEF CheckFirst, Recheck, Retry, CallNext
  <2>2. sem' = sem
    BY <1>2 DEF CheckFirst, Recheck, Retry, CallNext
  <2> QED BY <2>1, <2>2, NobodyMoves DEF Aboard, Boarding
<1>3. ASSUME NEW p \in Parties, PopEntry(p) \/ Depart(p) \/ Sail(p) \/ Alight(p) PROVE PlacesKept'
  <2>1. /\ pc[p] \in Aboard /\ pc'[p] \in Aboard
        /\ \A r \in Parties : r # p => pc'[r] = pc[r]
    BY <1>3, OthersStay, PartiesAreProcesses DEF PopEntry, Depart, Sail, Alight, Aboard, Boarding
  <2>2. sem' = sem
    BY <1>3 DEF PopEntry, Depart, Sail, Alight
  <2> QED BY <2>1, <2>2, NobodyMoves
<1>4. ASSUME NEW p \in Parties, PartyStep(p) PROVE PlacesKept'
  BY <1>1, <1>2, <1>3, <1>4, BoardPlaces, ReleasePlaces, PartiesAreProcesses
     DEF PartyStep, WakeUp, Interrupted
<1>5. ASSUME NEW m \in Members, MemberStep(m) PROVE PlacesKept'
  <2>1. \A r \in Parties : pc'[r] = pc[r]
    BY <1>5, OthersStay, PartiesAreProcesses
       DEF MemberStep, WakeUp, Read, Land, MemberTold, Interrupted
  <2>2. sem' = sem
    BY <1>5 DEF MemberStep, WakeUp, Read, Land, MemberTold
  <2> QED BY <2>1, <2>2, NobodyMoves
<1>6. ASSUME NEW p \in Parties, NEW d \in BOOLEAN, Arrive(p, d) PROVE PlacesKept'
  <2>1. /\ pc[p] = "elsewhere" /\ pc'[p] = "queued"
        /\ \A r \in Parties : r # p => pc'[r] = pc[r]
    BY <1>6, OthersStay, PartiesAreProcesses DEF Arrive
  <2> QED BY <1>6, <2>1, NobodyMoves DEF Arrive, Aboard, Boarding
<1>7. ASSUME UNCHANGED << pc, sem >> PROVE PlacesKept'
  BY <1>7, NobodyMoves
<1>8. ASSUME NEW g \in Guides, GuideCount(g) PROVE PlacesKept'
  BY <1>7, <1>8 DEF GuideCount
<1>9. CASE Nightfall \/ Round \/ UNCHANGED vars
  BY <1>7, <1>9 DEF Nightfall, Round, vars
<1>10. ASSUME NEW g \in Guides, GuideTold(g) PROVE PlacesKept'
  BY <1>1, <1>10, PartiesAreProcesses DEF GuideTold
<1> QED BY <1>3, <1>4, <1>5, <1>6, <1>8, <1>9, <1>10, PartiesAreProcesses
        DEF Next, GuideStep, Arrivals, CashierStep

(* SEM_FERRY and the people on board always add up to FERRY_LIMIT, for any *)
(* groups and families, and whoever is told to leave on the way.           *)
THEOREM FerryKeepsItsPlaces == Spec => []PlacesKept
<1>1. PlacesKept /\ TypesAndCaptain /\ [Next]_vars => PlacesKept'
  BY NextPlaces DEF TypesAndCaptain
<1> QED BY <1>1, InitPlaces, TypesAndCaptainHold, PTL DEF Spec

----------------------------------------------------------------------------
(* The guide waits for its group *)

(* The check-ins a member still has to send for this crossing, and those   *)
(* it has sent that are not yet counted.                                   *)
Owed(m) ==
    inbox[m] + (IF status[m] = "AT_FERRY_BOARDING" THEN 2
                ELSE IF status[m] = "AWAITING_FERRY_START" THEN 1 ELSE 0)
Share(m) == Family[m] \X (1 .. Owed(m))
Due(g) == UNION {Share(m) : m \in Group(g)}

(* Everybody checks in twice on a crossing, and a check-in is counted      *)
(* before the voyage or after it.  A member may land early and check in    *)
(* for the landing while its guide counts those who board; but when the    *)
(* guide has counted twice its group, no check-in is outstanding.          *)
CrossingStates == {"boarding", "asleep3", "sailing", "asleep4", "landed", "gathering"}
BooksKept ==
    \A g \in Guides :
        /\ pc[g] = "boarding" => Cardinality(Due(g)) + checkins[g] = 2 * visitors_in_group(g)
        /\ pc[g] \in {"asleep3", "sailing", "asleep4", "landed"} =>
               Cardinality(Due(g)) <= visitors_in_group(g)
        /\ pc[g] = "gathering" => Cardinality(Due(g)) + checkins[g] <= visitors_in_group(g)
        /\ pc[g] \notin CrossingStates => Due(g) = {}

(* Who sits on the ferry has checked in once. *)
SeatedOwe == \A m \in Members : pc[m] \in {"seated", "landing"} => status[m] = "AWAITING_FERRY_START"

LEMMA OwedType == TypeOK => \A m \in Members : Owed(m) \in Nat
BY DEF TypeOK, Owed

LEMMA DueFinite ==
    ASSUME TypeOK, NEW g \in Guides
    PROVE  /\ IsFiniteSet(Due(g)) /\ Cardinality(Due(g)) \in Nat
           /\ \A m \in Group(g) : IsFiniteSet(Share(m)) /\ Share(m) \subseteq Due(g)
<1>1. \A m \in Group(g) : IsFiniteSet(Share(m))
  <2> TAKE m \in Group(g)
  <2>1. m \in Members /\ Owed(m) \in Nat
    BY OwedType DEF Group
  <2>2. IsFiniteSet(1 .. Owed(m))
    BY <2>1, FS_Interval
  <2> QED BY <2>1, <2>2, FamiliesFinite, FS_Product DEF Share
<1>2. IsFiniteSet(Group(g))
  BY FS_Subset, FerryConstants DEF Group
<1>3. IsFiniteSet({Share(m) : m \in Group(g)})
  <2> DEFINE T == {Share(m) : m \in Group(g)}
             f == [m \in Group(g) |-> Share(m)]
  <2>1. f \in Surjection(Group(g), T)
    BY DEF Surjection
  <2> HIDE DEF f, T
  <2>2. IsFiniteSet(T)
    BY <1>2, <2>1, FS_Surjection
  <2> QED BY <2>2 DEF T
<1>4. \A S \in {Share(m) : m \in Group(g)} : IsFiniteSet(S)
  BY <1>1
<1>5. IsFiniteSet(Due(g))
  BY <1>3, <1>4, FS_UNION DEF Due
<1>6. \A m \in Group(g) : Share(m) \subseteq Due(g)
  BY DEF Due
<1> QED BY <1>1, <1>5, <1>6, FS_CardinalityType

LEMMA NothingDue ==
    ASSUME TypeOK, NEW g \in Guides, Due(g) = {}
    PROVE  \A m \in Group(g) : inbox[m] = 0 /\ status[m] = "FOLLOWING_GUIDE"
<1> TAKE m \in Group(g)
<1>1. m \in Members /\ m \in Family[m] /\ Owed(m) \in Nat
  BY OwedType, FerryConstants DEF Group
<1>2. Owed(m) = 0
  <2>1. Owed(m) # 0 => << m, 1 >> \in Share(m)
    BY <1>1 DEF Share
  <2> QED BY <2>1 DEF Due
<1> QED BY <1>1, <1>2 DEF Owed, TypeOK

LEMMA NobodyOwesNothingDue ==
    ASSUME TypeOK, NEW g \in Guides, \A m \in Group(g) : Owed(m) = 0
    PROVE  Due(g) = {}
BY DEF Due, Share

(* Nobody sends or is told anything: the books change with pc alone. *)
LEMMA SameDue ==
    ASSUME UNCHANGED << inbox, status >>
    PROVE  \A g \in Guides : Due(g)' = Due(g)
BY DEF Due, Share, Owed

LEMMA SameOwed ==
    ASSUME \A m \in Members : Owed(m)' = Owed(m)
    PROVE  \A g \in Guides : Due(g)' = Due(g)
<1>1. \A g \in Guides : \A m \in Group(g) : Share(m)' = Share(m)
  BY DEF Share, Group
<1>2. \A g \in Guides : {Share(m) : m \in Group(g)}' = {Share(m) : m \in Group(g)}
  BY <1>1
<1> QED BY <1>2 DEF Due

LEMMA SameBooks ==
    ASSUME BooksKept, \A g \in Guides : Due(g)' = Due(g), checkins' = checkins,
           \A g \in Guides :
              /\ pc'[g] \in {"asleep3", "sailing", "asleep4", "landed"} =>
                     pc[g] \in {"asleep3", "sailing", "asleep4", "landed"}
              /\ pc'[g] \in {"boarding", "gathering"} => pc'[g] = pc[g]
              /\ pc[g] \in CrossingStates => pc'[g] \in CrossingStates
    PROVE  BooksKept'
BY DEF BooksKept, CrossingStates

(* A check-in that is counted is no longer due. *)
LEMMA CountBooks ==
    ASSUME TypeOK, BooksKept, NEW g \in Guides, GuideCount(g)
    PROVE  BooksKept'
<1>1. PICK m \in Group(g) :
        /\ inbox[m] > 0
        /\ inbox' = [inbox EXCEPT ![m] = @ - 1]
        /\ checkins' = [checkins EXCEPT ![g] = @ + Cardinality(Family[m])]
  BY DEF GuideCount
<1>2. m \in Members /\ GuideOf[m] = g
  BY <1>1 DEF Group
<1>3. status' = status /\ pc' = pc
  BY DEF GuideCount
<1>4. Owed(m) \in Nat /\ Owed(m)' = Owed(m) - 1 /\ Owed(m) >= 1
  BY <1>1, <1>2, <1>3, OwedType DEF TypeOK, Owed
<1>5. \A n \in Members : n # m => Owed(n)' = Owed(n)
  BY <1>1, <1>3 DEF TypeOK, Owed
<1> DEFINE Last == Family[m] \X {Owed(m)}
           Rest == UNION {Share(n) : n \in Group(g) \ {m}}
<1>6. Share(m) = Share(m)' \union Last
  BY <1>4 DEF Share
<1>7. \A n \in Group(g) \ {m} : Share(n)' = Share(n)
  BY <1>5 DEF Share, Group
<1>8. Rest' = Rest
  <2>1. {Share(n) : n \in Group(g) \ {m}}' = {Share(n) : n \in Group(g) \ {m}}
    BY <1>7
  <2> QED BY <2>1
<1>9. Due(g) = Share(m) \union Rest /\ Due(g)' = Share(m)' \union Rest'
  BY <1>1 DEF Due
<1>10. Due(g) = Due(g)' \union Last
  BY <1>6, <1>8, <1>9
<1>11. Due(g)' \intersect Last = {}
  <2>1. Share(m)' \intersect Last = {}
    BY <1>4 DEF Share
  <2>2. \A n \in Group(g) \ {m} : Family[n] \intersect Family[m] = {}
    BY <1>2, FerryConstants DEF Group
  <2>3. Rest \intersect Last = {}
    BY <2>2 DEF Share
  <2> QED BY <1>8, <1>9, <2>1, <2>3
<1>12. IsFiniteSet(Due(g)) /\ Cardinality(Due(g)) \in Nat
  BY DueFinite
<1>13. Due(g)' \in SUBSET Due(g) /\ Last \in SUBSET Due(g)
  BY <1>10
<1>14. IsFiniteSet(Due(g)') /\ IsFiniteSet(Last)
  BY <1>12, <1>13, FS_Subset
<1>15. Cardinality(Due(g)') \in Nat
  BY <1>14, FS_CardinalityType
<1>16. Cardinality(Last) = Cardinality(Family[m])
  <2>1. IsFiniteSet({Owed(m)}) /\ Cardinality({Owed(m)}) = 1
    BY FS_Singleton
  <2>2. IsFiniteSet(Family[m]) /\ Cardinality(Family[m]) \in Nat
    BY <1>2, FamiliesFinite
  <2>3. Cardinality(Last) = Cardinality(Family[m]) * Cardinality({Owed(m)})
    BY <2>1, <2>2, FS_Product
  <2> QED BY <2>1, <2>2, <2>3
<1> HIDE DEF Last, Rest
<1>17. Cardinality(Due(g)' \union Last) =
         Cardinality(Due(g)') + Cardinality(Last) - Cardinality(Due(g)' \intersect Last)
  BY <1>14, FS_Union
<1>18. Cardinality(Due(g)' \intersect Last) = 0
  BY <1>11, FS_EmptySet
<1>19. Cardinality(Family[m]) \in Nat
  BY <1>2, FamiliesFinite
<1>20. Cardinality(Due(g)) = Cardinality(Due(g)') + Cardinality(Family[m])
  BY <1>10, <1>15, <1>16, <1>17, <1>18, <1>19
<1>21. checkins'[g] = checkins[g] + Cardinality(Family[m]) /\ checkins[g] \in Nat
  BY <1>1 DEF TypeOK
<1>22. pc[g] \in {"boarding", "gathering"}
  BY DEF GuideCount
<1>23. \A h \in Guides \ {g} : Due(h)' = Due(h) /\ checkins'[h] = checkins[h]
  <2> TAKE h \in Guides \ {g}
  <2>1. \A n \in Group(h) : n \in Members /\ n # m
    BY <1>2 DEF Group
  <2>2. \A n \in Group(h) : Share(n)' = Share(n)
    BY <1>5, <2>1 DEF Share
  <2>3. {Share(n) : n \in Group(h)}' = {Share(n) : n \in Group(h)}
    BY <2>2
  <2> QED BY <1>1, <2>3 DEF Due, TypeOK
<1>24. visitors_in_group(g) \in Nat
  BY GroupsFinite, PartiesAreProcesses
<1> QED BY <1>3, <1>12, <1>15, <1>19, <1>20, <1>21, <1>22, <1>23, <1>24 DEF BooksKept, CrossingStates

(* The group is told to board: everybody owes two check-ins. *)
LEMMA PopBooks ==
    ASSUME TypeOK, BooksKept, NEW p \in Parties, PopEntry(p)
    PROVE  BooksKept'
<1>0. p \in Processes
  BY PartiesAreProcesses
<1>1. /\ pc[p] = "popping" /\ pc'[p] = "boarding"
      /\ \A r \in Parties : r # p => pc'[r] = pc[r]
  BY <1>0, OthersStay, PartiesAreProcesses DEF PopEntry
<1>2. /\ status' = [m \in Members |-> IF m \in Group(p) THEN "AT_FERRY_BOARDING" ELSE status[m]]
      /\ checkins' = [g \in Guides |-> IF g = p THEN 0 ELSE checkins[g]]
      /\ inbox' = inbox
  BY DEF PopEntry
<1>3. \A h \in Guides \ {p} : /\ Due(h)' = Due(h) /\ checkins'[h] = checkins[h]
                              /\ pc'[h] = pc[h]
  <2> TAKE h \in Guides \ {p}
  <2>1. \A n \in Group(h) : status'[n] = status[n]
    BY <1>2 DEF Group
  <2>2. \A n \in Group(h) : Share(n)' = Share(n)
    BY <1>2, <2>1 DEF Share, Owed
  <2>3. {Share(n) : n \in Group(h)}' = {Share(n) : n \in Group(h)}
    BY <2>2
  <2> QED BY <1>1, <1>2, <2>3, PartiesAreProcesses DEF Due
<1>4. CASE p \in VIPs
  <2>1. p \notin Guides
    BY <1>4, FerryConstants
  <2> QED BY <1>3, <2>1 DEF BooksKept
<1>5. CASE p \in Guides
  <2>1. Due(p) = {}
    BY <1>1, <1>5 DEF BooksKept, CrossingStates
  <2>2. \A m \in Group(p) : Owed(m)' = 2
    <3>1. \A m \in Group(p) : inbox[m] = 0
      BY <1>5, <2>1, NothingDue
    <3> QED BY <1>2, <3>1 DEF Owed, Group
  <2>3. Due(p)' = Visitors(p) \X (1 .. 2)
    BY <2>2 DEF Due, Share, Visitors
  <2>4. IsFiniteSet(1 .. 2) /\ Cardinality(1 .. 2) = 2
    <3>1. 1 \in Int /\ 2 \in Int
      OBVIOUS
    <3>2. IsFiniteSet(1 .. 2) /\ Cardinality(1 .. 2) = IF 1 > 2 THEN 0 ELSE 2 - 1 + 1
      BY <3>1, FS_Interval
    <3> QED BY <3>2
  <2>5. IsFiniteSet(Visitors(p)) /\ visitors_in_group(p) \in Nat
    BY GroupsFinite
  <2>6. Cardinality(Visitors(p) \X (1 .. 2)) = Cardinality(Visitors(p)) * Cardinality(1 .. 2)
    BY <2>4, <2>5, FS_Product
  <2>7. Cardinality(Due(p)') = 2 * visitors_in_group(p)
    BY <2>3, <2>4, <2>5, <2>6 DEF visitors_in_group
  <2>8. checkins'[p] = 0
    BY <1>2, <1>5
  <2> QED BY <1>1, <1>3, <2>5, <2>7, <2>8 DEF BooksKept, CrossingStates
<1> QED BY <1>4, <1>5 DEF Parties

(* The guide has counted its group, before the voyage or after it. *)
LEMMA GuideBooks ==
    ASSUME TypeOK, BooksKept, NEW p \in Parties, Depart(p) \/ Alight(p) \/ Release(p)
    PROVE  BooksKept'
<1>0. p \in Processes
  BY PartiesAreProcesses
<1>1. \A r \in Parties : r # p => pc'[r] = pc[r]
  BY <1>0, OthersStay, PartiesAreProcesses DEF Depart, Alight, Release
<1>2. UNCHANGED << inbox, status >>
  BY DEF Depart, Alight, Release, groupVars
<1>3. \A g \in Guides : Due(g)' = Due(g)
  BY <1>2, SameDue
<1>4. \A g \in Guides \ {p} : checkins'[g] = checkins[g] /\ pc'[g] = pc[g]
  BY <1>1, PartiesAreProcesses DEF Depart, Alight, Release, groupVars, TypeOK
<1>5. CASE p \notin Guides
  BY <1>3, <1>4, <1>5 DEF BooksKept
<1>6. ASSUME p \in Guides PROVE BooksKept'
  <2>0. /\ IsFiniteSet(Due(p)) /\ Cardinality(Due(p)) \in Nat /\ checkins[p] \in Nat
        /\ visitors_in_group(p) \in Nat /\ p \notin VIPs
    BY <1>6, DueFinite, GroupsFinite, FerryConstants DEF TypeOK
  <2>1. CASE Depart(p)
    <3>1. /\ pc[p] = "boarding" /\ pc'[p] \in {"asleep3", "sailing", "asleep4"}
          /\ checkins[p] >= visitors_in_group(p)
      BY <1>0, <1>6, <2>1, OthersStay DEF Depart, AllCheckedIn
    <3>2. Cardinality(Due(p)) <= visitors_in_group(p)
      BY <1>6, <2>0, <3>1 DEF BooksKept
    <3> QED BY <1>3, <1>4, <3>1, <3>2 DEF BooksKept, CrossingStates
  <2>2. CASE Alight(p)
    <3>1. pc[p] = "landed" /\ pc'[p] = "gathering" /\ checkins'[p] = 0
      BY <1>0, <1>6, <2>2, OthersStay DEF Alight, TypeOK
    <3>2. Cardinality(Due(p)) <= visitors_in_group(p)
      BY <1>6, <3>1 DEF BooksKept
    <3> QED BY <1>3, <1>4, <2>0, <3>1, <3>2 DEF BooksKept, CrossingStates
  <2>3. CASE Release(p)
    <3>1. /\ pc[p] = "gathering" /\ pc'[p] = "released"
          /\ checkins[p] >= visitors_in_group(p)
      BY <1>0, <1>6, <2>0, <2>3, OthersStay DEF Release, AllCheckedIn
    <3>2. Cardinality(Due(p)) = 0
      BY <1>6, <2>0, <3>1 DEF BooksKept
    <3>3. Due(p) = {}
      BY <2>0, <3>2, FS_EmptySet
    <3> QED BY <1>3, <1>4, <3>1, <3>3 DEF BooksKept, CrossingStates
  <2> QED BY <2>1, <2>2, <2>3
<1> QED BY <1>5, <1>6

(* A member writes its status before or after its check-in, never so that  *)
(* it owes more or less.                                                   *)
LEMMA MemberBooks ==
    ASSUME TypeOK, BooksKept, SeatedOwe, NEW m \in Members, MemberStep(m)
    PROVE  BooksKept'
<1>0. m \in Processes
  BY PartiesAreProcesses
<1>1. \A g \in Guides : pc'[g] = pc[g]
  BY <1>0, OthersStay, PartiesAreProcesses
     DEF MemberStep, WakeUp, Read, Land, MemberTold, Interrupted
<1>2. checkins' = checkins
  BY DEF MemberStep, WakeUp, Read, Land, MemberTold, groupVars
<1>3. \A n \in Members : Owed(n)' = Owed(n)
  <2>1. CASE Read(m)
    BY <2>1 DEF Read, Owed, TypeOK
  <2>2. CASE Land(m)
    <3>1. status[m] = "AWAITING_FERRY_START"
      BY <2>2 DEF Land, SeatedOwe
    <3> QED BY <2>2, <3>1 DEF Land, Owed, TypeOK
  <2>3. CASE WakeUp(m) \/ MemberTold(m)
    BY <2>3 DEF WakeUp, MemberTold, Owed, groupVars
  <2> QED BY <2>1, <2>2, <2>3 DEF MemberStep
<1>4. \A g \in Guides : Due(g)' = Due(g)
  BY <1>3, SameOwed
<1> QED BY <1>1, <1>2, <1>4, SameBooks

LEMMA MemberSits ==
    ASSUME TypeOK, SeatedOwe, NEW m \in Members, MemberStep(m)
    PROVE  SeatedOwe'
<1>0. m \in Processes /\ pc[m] \in MemberStates
  BY PartiesAreProcesses DEF TypeOK
<1>1. \A n \in Members : n # m => pc'[n] = pc[n] /\ status'[n] = status[n]
  BY <1>0, OthersStay, PartiesAreProcesses
     DEF MemberStep, WakeUp, Read, Land, MemberTold, Interrupted, groupVars, TypeOK
<1>2. pc'[m] \in {"seated", "landing"} => status'[m] = "AWAITING_FERRY_START"
  <2>1. CASE WakeUp(m) \/ MemberTold(m)
    <3>1. pc'[m] = pc[m] \/ (pc[m] \in Asleep /\ pc'[m] = Woken(pc[m]))
      BY <1>0, <2>1, OthersStay DEF WakeUp, MemberTold, Interrupted
    <3>2. pc'[m] \in {"seated", "landing"} => pc[m] \in {"seated", "landing"}
      BY <1>0, <3>1 DEF Woken, MemberStates, Asleep
    <3> QED BY <2>1, <3>2 DEF WakeUp, MemberTold, groupVars, SeatedOwe
  <2>2. CASE Read(m)
    BY <1>0, <2>2, OthersStay DEF Read, TypeOK
  <2>3. CASE Land(m)
    BY <1>0, <2>3, OthersStay DEF Land
  <2> QED BY <2>1, <2>2, <2>3 DEF MemberStep
<1> QED BY <1>1, <1>2 DEF SeatedOwe

LEMMA NextBooks == TypeOK /\ BooksKept /\ SeatedOwe /\ [Next]_vars => BooksKept' /\ SeatedOwe'
<1> SUFFICES ASSUME TypeOK, BooksKept, SeatedOwe, [Next]_vars
             PROVE  BooksKept' /\ SeatedOwe'
  OBVIOUS
<1> USE DEF groupVars
(* Steps that leave the members' records alone. *)
<1>1. ASSUME UNCHANGED groupVars,
             \A m \in Members : pc'[m] = pc[m],
             \A g \in Guides :
                /\ pc'[g] \in {"asleep3", "sailing", "asleep4", "landed"} =>
                       pc[g] \in {"asleep3", "sailing", "asleep4", "landed"}
                /\ pc'[g] \in {"boarding", "gathering"} => pc'[g] = pc[g]
                /\ pc[g] \in CrossingStates => pc'[g] \in CrossingStates
      PROVE  BooksKept' /\ SeatedOwe'
  <2>1. \A g \in Guides : Due(g)' = Due(g)
    BY <1>1, SameDue
  <2> QED BY <1>1, <2>1, SameBooks DEF SeatedOwe
<1>2. ASSUME NEW p \in Parties, Interrupted(p), UNCHANGED groupVars PROVE BooksKept' /\ SeatedOwe'
  <2>1. \A r \in Parties : pc'[r] = pc[r] \/ (pc[r] \in Asleep /\ pc'[r] = Woken(pc[r]))
    BY <1>2, OthersStay, PartiesAreProcesses DEF Interrupted
  <2>2. \A m \in Members : pc'[m] = pc[m]
    BY <1>2, OthersStay, PartiesAreProcesses DEF Interrupted
  <2>3. \A g \in Guides :
           /\ pc'[g] \in {"asleep3", "sailing", "asleep4", "landed"} =>
                  pc[g] \in {"asleep3", "sailing", "asleep4", "landed"}
           /\ pc'[g] \in {"boarding", "gathering"} => pc'[g] = pc[g]
           /\ pc[g] \in CrossingStates => pc'[g] \in CrossingStates
    BY <2>1, PartiesAreProcesses DEF Asleep, Woken, CrossingStates
  <2> QED BY <1>1, <1>2, <2>2, <2>3
<1>3. ASSUME NEW p \in Parties,
             \/ CheckFirst(p) \/ Recheck(p) \/ Retry(p) \/ TryBoard(p) \/ Sail(p) \/ CallNext(p)
      PROVE  BooksKept' /\ SeatedOwe'
  <2>1. /\ pc[p] \in {"queued", "awake1", "awake2", "trying", "sailing", "released"}
        /\ pc[p] # "sailing" => pc'[p] \notin CrossingStates
        /\ pc[p] = "sailing" => pc'[p] = "landed"
        /\ \A r \in Parties : r # p => pc'[r] = pc[r]
        /\ \A m \in Members : pc'[m] = pc[m]
    BY <1>3, OthersStay, PartiesAreProcesses
       DEF CheckFirst, Recheck, Retry, TryBoard, Sail, CallNext, CrossingStates
  <2>2. UNCHANGED groupVars
    BY <1>3 DEF CheckFirst, Recheck, Retry, TryBoard, Sail, CallNext
  <2> QED BY <1>1, <2>1, <2>2, PartiesAreProcesses DEF CrossingStates
<1>4. ASSUME NEW p \in Parties, PopEntry(p) PROVE BooksKept' /\ SeatedOwe'
  <2>1. \A m \in Members : pc'[m] = pc[m]
    BY <1>4, OthersStay, PartiesAreProcesses DEF PopEntry
  <2>2. \A m \in Members : pc[m] \in {"seated", "landing"} => m \notin Group(p)
    <3>1. SUFFICES ASSUME NEW m \in Members, pc[m] \in {"seated", "landing"}, m \in Group(p)
                   PROVE  FALSE
      OBVIOUS
    <3>2. p \in Guides
      BY <3>1, FerryConstants DEF Group
    <3>3. Due(p) = {}
      BY <1>4, <3>2 DEF PopEntry, BooksKept, CrossingStates
    <3> QED BY <3>1, <3>2, <3>3, NothingDue DEF SeatedOwe
  <2>3. SeatedOwe'
    BY <1>4, <2>1, <2>2 DEF PopEntry, SeatedOwe
  <2> QED BY <1>4, <2>3, PopBooks
<1>5. ASSUME NEW p \in Parties, Depart(p) \/ Alight(p) \/ Release(p) PROVE BooksKept' /\ SeatedOwe'
  <2>1. \A m \in Members : pc'[m] = pc[m] /\ status'[m] = status[m]
    BY <1>5, OthersStay, PartiesAreProcesses DEF Depart, Alight, Release
  <2> QED BY <1>5, <2>1, GuideBooks DEF SeatedOwe
<1>6. ASSUME NEW p \in Parties, PartyStep(p) PROVE BooksKept' /\ SeatedOwe'
  BY <1>2, <1>3, <1>4, <1>5, <1>6 DEF PartyStep, WakeUp, Interrupted
<1>7. ASSUME NEW g \in Guides, GuideCount(g) PROVE BooksKept' /\ SeatedOwe'
  <2>1. pc' = pc /\ status' = status
    BY <1>7 DEF GuideCount
  <2> QED BY <1>7, <2>1, CountBooks DEF SeatedOwe
<1>8. ASSUME NEW m \in Members, MemberStep(m) PROVE BooksKept' /\ SeatedOwe'
  BY <1>8, MemberBooks, MemberSits
<1>9. ASSUME NEW p \in Parties, NEW d \in BOOLEAN, Arrive(p, d) PROVE BooksKept' /\ SeatedOwe'
  <2>1. /\ pc[p] = "elsewhere" /\ pc'[p] = "queued"
        /\ \A r \in Parties : r # p => pc'[r] = pc[r]
        /\ \A m \in Members : pc'[m] = pc[m]
    BY <1>9, OthersStay, PartiesAreProcesses DEF Arrive
  <2> QED BY <1>1, <1>9, <2>1, PartiesAreProcesses DEF Arrive, CrossingStates
<1>10. CASE Nightfall \/ Round \/ UNCHANGED vars
  <2>1. UNCHANGED << pc, groupVars >>
    BY <1>10 DEF Nightfall, Round, vars
  <2> QED BY <1>1, <2>1
<1>11. ASSUME NEW g \in Guides, GuideTold(g) PROVE BooksKept' /\ SeatedOwe'
  BY <1>2, <1>11, PartiesAreProcesses DEF GuideTold
<1> QED BY <1>5, <1>6, <1>7, <1>8, <1>9, <1>10, <1>11, PartiesAreProcesses
        DEF Next, GuideStep, Arrivals, CashierStep

(* A guide goes on only with its whole group and with no check-in left     *)
(* over, even when signals let members land before the voyage: for any     *)
(* groups and families.                                                    *)
THEOREM FerryGuideWaits == Spec => []GuideWaits
<1> DEFINE Books == BooksKept /\ SeatedOwe
<1>1. Init => Books
  <2> SUFFICES ASSUME Init PROVE Books
    OBVIOUS
  <2>1. \A m \in Members : pc[m] = "reading" /\ Owed(m) = 0
    BY PartiesAreProcesses DEF Init, Owed
  <2>2. \A g \in Guides : pc[g] = "elsewhere" /\ Due(g) = {}
    BY <2>1, InitTypes, NobodyOwesNothingDue, PartiesAreProcesses DEF Init, Group
  <2> QED BY <2>1, <2>2 DEF BooksKept, SeatedOwe
<1>2. TypesAndCaptain /\ Books /\ [Next]_vars => Books'
  BY NextBooks DEF TypesAndCaptain
<1>3. TypesAndCaptain /\ Books => GuideWaits
  <2> SUFFICES ASSUME TypeOK, Books, NEW m \in Members, pc[GuideOf[m]] \notin Aboard
               PROVE  status[m] = "FOLLOWING_GUIDE" /\ pc[m] \in {"reading", "waiting"} /\ inbox[m] = 0
    BY DEF TypesAndCaptain, GuideWaits
  <2>1. GuideOf[m] \in Guides /\ m \in Group(GuideOf[m])
    BY FerryConstants DEF Group
  <2>2. Due(GuideOf[m]) = {}
    BY <2>1 DEF BooksKept, CrossingStates, Aboard, Boarding
  <2>3. status[m] = "FOLLOWING_GUIDE" /\ inbox[m] = 0
    BY <2>1, <2>2, NothingDue
  <2> QED BY <2>3 DEF SeatedOwe, TypeOK, MemberStates
<1> HIDE DEF Books
<1> QED BY <1>1, <1>2, <1>3, TypesAndCaptainHold, PTL DEF Spec

----------------------------------------------------------------------------
(* The queues *)

(* The queues of VISITORS_LIMIT places have one for every party: a VIP is  *)
(* one of as many visitors, and a guide does not set out without one.      *)
QueueHasRoom == Cardinality(Parties) <= Capacity

InQueue == Lined \union {"popping"}
Near == {"trying", "asleep2", "awake2", "popping"}

(* VIPs and guides have lines of their own.                                *)
Apart(p) == \A l \in Lines : p \in Entries(queue[l]) => (l[1] <=> p \in VIPs)

(* A party that waits has one entry, in the line of its kind and its       *)
(* direction, and past check_if_first_secure that entry is the first.      *)
Placed(p) ==
    /\ pc[p] \in InQueue <=> p \in Entries(queue[Line(p)])
    /\ Once(p, queue[Line(p)])
    /\ \A l \in Lines : l # Line(p) => p \notin Entries(queue[l])
    /\ pc[p] \in Near => Head(queue[Line(p)]) = p

(* Of guides that is true until one of them is told to leave.              *)
Orderly(p) == p \in VIPs \/ leave_park = {}

QueuesKept == \A p \in Parties : Apart(p) /\ (Orderly(p) => Placed(p))

(* What becomes of the entries of r. *)
Undisturbed(r) ==
    \A l \in Lines : /\ Keeps(r, queue[l], queue'[l])
                     /\ r \in Entries(queue[l]) => r \in Entries(queue'[l])

LEMMA StaysPlaced ==
    ASSUME TypeOK, NEW r \in Parties, Placed(r), Undisturbed(r),
           track'[r] = track[r], pc'[r] \in InQueue <=> pc[r] \in InQueue,
           pc'[r] \in Near => pc[r] \in Near \/ Head(queue[Line(r)]) = r
    PROVE  Placed(r)'
<1>1. Line(r)' = Line(r) /\ Line(r) \in Lines
  BY LineIsLine DEF Line, TypeOK
<1>2. pc'[r] \in Near => pc'[r] \in InQueue
  BY DEF Near, InQueue, Lined
<1> QED BY <1>1, <1>2 DEF Placed, Undisturbed, Keeps

(* A step that only takes entries away, and none of an orderly party but   *)
(* the one that acts.                                                      *)
LEMMA QueuesFrame ==
    ASSUME TypeOK, QueuesKept, NEW p \in Parties,
           track' = track, leave_park \subseteq leave_park',
           \A r \in Parties : r # p => pc'[r] = pc[r],
           \A r \in Parties, l \in Lines : r \in Entries(queue'[l]) => r \in Entries(queue[l]),
           \A r \in Parties : r # p /\ Orderly(r) /\ Orderly(r)' => Undisturbed(r),
           Orderly(p) /\ Orderly(p)' => Placed(p)'
    PROVE  QueuesKept'
<1> SUFFICES ASSUME NEW r \in Parties PROVE Apart(r)' /\ (Orderly(r)' => Placed(r)')
  BY DEF QueuesKept
<1>1. Apart(r)'
  BY DEF QueuesKept, Apart
<1>2. Orderly(r)' => Orderly(r)
  BY DEF Orderly
<1>3. r # p /\ Orderly(r)' => Placed(r)'
  BY <1>2, StaysPlaced DEF QueuesKept
<1> QED BY <1>1, <1>2, <1>3

(* A party that does not touch the queues. *)
LEMMA MovesOn ==
    ASSUME TypeOK, QueuesKept, NEW p \in Parties, UNCHANGED << track, queue >>,
           leave_park \subseteq leave_park',
           \A r \in Parties : r # p => pc'[r] = pc[r],
           Orderly(p) /\ Orderly(p)' =>
              /\ pc'[p] \in InQueue <=> pc[p] \in InQueue
              /\ pc'[p] \in Near => pc[p] \in Near \/ Head(queue[Line(p)]) = p
    PROVE  QueuesKept'
<1>1. \A r \in Parties : Undisturbed(r)
  BY DEF Undisturbed, Keeps
<1>2. Orderly(p) /\ Orderly(p)' => Placed(p)'
  BY <1>1, StaysPlaced DEF QueuesKept
<1> QED BY <1>1, <1>2, QueuesFrame

LEMMA LineEntries ==
    ASSUME TypeOK, QueuesKept, NEW p \in Parties, Orderly(p)
    PROVE  OnceEach(queue[Line(p)])
<1>1. Line(p) \in Lines /\ queue[Line(p)] \in Seq(Parties) /\ (Line(p)[1] <=> p \in VIPs)
  BY LineIsLine DEF TypeOK, Line
<1>2. \A x \in Entries(queue[Line(p)]) : x \in Parties
  BY <1>1 DEF Entries
<1>3. \A x \in Entries(queue[Line(p)]) : x \in VIPs <=> p \in VIPs
  BY <1>1, <1>2 DEF QueuesKept, Apart
<1>4. \A x \in Entries(queue[Line(p)]) : Placed(x)
  BY <1>2, <1>3 DEF Orderly, QueuesKept
<1>5. \A x \in Entries(queue[Line(p)]) : Once(x, queue[Line(p)])
  BY <1>1, <1>4 DEF Placed
<1> QED BY <1>5, OnceEachIsOnce

LEMMA ArriveQueues ==
    ASSUME TypeOK, QueueHasRoom, QueuesKept, NEW p \in Parties, NEW d \in BOOLEAN, Arrive(p, d)
    PROVE  QueuesKept'
<1> DEFINE k == << p \in VIPs, d >>
           q == queue[k]
<1>1. k \in Lines /\ q \in Seq(Parties) /\ (k[1] <=> p \in VIPs)
  <2>1. (p \in VIPs) \in BOOLEAN
    OBVIOUS
  <2> QED BY <2>1 DEF Lines, TypeOK
<1>2. /\ pc[p] = "elsewhere" /\ pc'[p] = "queued" /\ leave_park' = leave_park
      /\ \A r \in Parties : r # p => pc'[r] = pc[r] /\ track'[r] = track[r]
      /\ track'[p] = d
      /\ queue' = [queue EXCEPT ![k] = IF Len(@) < Capacity THEN Append(@, p) ELSE @]
  BY OthersStay, PartiesAreProcesses DEF Arrive, TypeOK, nightVars
<1>3. /\ \A l \in Lines : l # k => queue'[l] = queue[l]
      /\ queue'[k] = IF Len(q) < Capacity THEN Append(q, p) ELSE q
  BY <1>1, <1>2 DEF TypeOK
<1>4. Line(p)' = k
  BY <1>2 DEF Line
<1> HIDE DEF k, q
<1>5. ASSUME NEW r \in Parties, r # p PROVE Undisturbed(r)
  <2> SUFFICES ASSUME NEW l \in Lines
               PROVE  /\ Keeps(r, queue[l], queue'[l])
                      /\ r \in Entries(queue[l]) => r \in Entries(queue'[l])
    BY DEF Undisturbed
  <2>1. CASE queue'[l] = queue[l]
    BY <2>1 DEF Keeps
  <2>2. CASE l = k /\ queue'[k] = Append(q, p)
    BY <1>1, <1>5, <2>2, AppendKeeps DEF q
  <2> QED BY <1>3, <2>1, <2>2 DEF q
<1>6. /\ Entries(Append(q, p)) = Entries(q) \union {p}
      /\ \A x : Once(x, q) /\ (x = p => p \notin Entries(q)) => Once(x, Append(q, p))
  BY <1>1, AppendEntries
<1>7. ASSUME NEW r \in Parties PROVE Apart(r)'
  <2>1. CASE r # p
    BY <1>5, <2>1 DEF Apart, QueuesKept, Undisturbed, Keeps
  <2>2. CASE r = p
    BY <1>1, <1>3, <2>2 DEF Apart, QueuesKept
  <2> QED BY <2>1, <2>2
<1>8. ASSUME Orderly(p) PROVE Placed(p)'
  <2>1. Placed(p) /\ Line(p) \in Lines
    BY <1>8, LineIsLine DEF QueuesKept, TypeOK
  <2>2. \A l \in Lines : p \notin Entries(queue[l])
    BY <1>2, <2>1 DEF Placed, InQueue, Lined
  <2>3. \A x \in Entries(q) : x \in Parties /\ (x \in VIPs <=> p \in VIPs)
    BY <1>1 DEF QueuesKept, Apart, Entries, q
  <2>4. \A x \in Entries(q) : Once(x, q)
    BY <1>1, <1>8, <2>3 DEF QueuesKept, Orderly, Placed, q
  <2>5. OnceEach(q)
    BY <2>4, OnceEachIsOnce
  <2>6. IsFiniteSet(Parties) /\ Cardinality(Parties) \in Nat
    BY FerryConstants, FS_Union, FS_CardinalityType DEF Parties
  <2>7. Len(q) < Capacity
    <3>1. Len(q) < Cardinality(Parties) /\ Len(q) \in Nat
      BY <1>1, <2>2, <2>5, <2>6, QueueTakesOneMore DEF q
    <3> QED BY <2>6, <3>1, FerryConstants DEF QueueHasRoom
  <2>8. p \in Entries(queue'[k]) /\ Once(p, queue'[k])
    <3>1. Once(p, q)
      BY <1>1, <2>2 DEF Once, Entries, q
    <3> QED BY <1>1, <1>3, <1>6, <2>2, <2>7, <3>1 DEF q
  <2>9. \A l \in Lines : l # k => p \notin Entries(queue'[l])
    BY <1>3, <2>2
  <2> QED BY <1>2, <1>4, <2>8, <2>9 DEF Placed, InQueue, Near, Lined
<1>9. ASSUME NEW r \in Parties, r # p, Orderly(r) PROVE Placed(r)'
  BY <1>2, <1>5, <1>9, StaysPlaced DEF QueuesKept
<1>10. \A r \in Parties : Orderly(r)' <=> Orderly(r)
  BY <1>2 DEF Orderly
<1> QED BY <1>7, <1>8, <1>9, <1>10 DEF QueuesKept

LEMMA CheckFirstQueues ==
    ASSUME TypeOK, QueuesKept, NEW p \in Parties, CheckFirst(p)
    PROVE  QueuesKept'
<1>1. /\ pc[p] = "queued" /\ UNCHANGED << track, queue, leave_park >>
      /\ \A r \in Parties : r # p => pc'[r] = pc[r]
  BY OthersStay, PartiesAreProcesses DEF CheckFirst, nightVars
<1>2. ASSUME Orderly(p)
      PROVE  /\ pc'[p] \in InQueue
             /\ pc'[p] \in Near => Head(queue[Line(p)]) = p
  <2>1. /\ Line(p) \in Lines /\ queue[Line(p)] \in Seq(Parties)
        /\ p \in Entries(queue[Line(p)]) /\ p \notin leave_park
    BY <1>1, <1>2, LineIsLine, FerryConstants DEF QueuesKept, Placed, InQueue, Lined, Orderly, TypeOK
  <2>2. queue[Line(p)] # << >>
    BY <2>1, EntryOfNonempty
  <2>3. \/ Head(queue[Line(p)]) = p /\ Goto(p, "trying")
        \/ Goto(p, "asleep1")
    BY <2>1, <2>2 DEF CheckFirst, First
  <2>4. \A l : Goto(p, l) => pc'[p] = l
    BY PartiesAreProcesses DEF Goto, TypeOK
  <2> QED BY <2>3, <2>4 DEF InQueue, Lined, Near
<1> QED BY <1>1, <1>2, MovesOn DEF InQueue, Lined

(* Called away while it waits: its entry goes, the others stay. *)
LEMMA EraseQueues ==
    ASSUME TypeOK, QueuesKept, NEW p \in Parties, Erase(p), UNCHANGED << track, leave_park >>,
           pc'[p] = "elsewhere", \A r \in Parties : r # p => pc'[r] = pc[r]
    PROVE  QueuesKept'
<1> DEFINE k == Line(p)
           q == queue[k]
<1>1. k \in Lines /\ q \in Seq(Parties)
  BY LineIsLine DEF TypeOK
<1>2. CASE UNCHANGED queue /\ p \notin Entries(q)
  BY <1>2, MovesOn DEF QueuesKept, Placed, InQueue, Near, Lined
<1>3. ASSUME NEW i \in DOMAIN q, q[i] = p,
             queue' = [queue EXCEPT ![k] =
                         [j \in 1 .. Len(q) - 1 |-> IF j < i THEN q[j] ELSE q[j + 1]]]
      PROVE  QueuesKept'
  <2>1. /\ \A l \in Lines : l # k => queue'[l] = queue[l]
        /\ queue'[k] = Without(q, i)
    BY <1>1, <1>3 DEF TypeOK, Without
  <2>2. /\ \A r : r # p => Keeps(r, q, Without(q, i)) /\ (r \in Entries(q) => r \in Entries(Without(q, i)))
        /\ Entries(Without(q, i)) \subseteq Entries(q)
        /\ Once(p, q) => Once(p, Without(q, i)) /\ p \notin Entries(Without(q, i))
    BY <1>1, <1>3, WithoutKeeps, WithoutEntries
  <2> HIDE DEF k, q
  <2>3. \A r \in Parties : r # p => Undisturbed(r)
    <3> SUFFICES ASSUME NEW r \in Parties, r # p, NEW l \in Lines
                 PROVE  /\ Keeps(r, queue[l], queue'[l])
                        /\ r \in Entries(queue[l]) => r \in Entries(queue'[l])
      BY DEF Undisturbed
    <3>1. CASE l = k
      BY <2>1, <2>2, <3>1 DEF q
    <3>2. CASE l # k
      BY <2>1, <3>2 DEF Keeps
    <3> QED BY <3>1, <3>2
  <2>4. \A r \in Parties, l \in Lines : r \in Entries(queue'[l]) => r \in Entries(queue[l])
    BY <2>1, <2>2 DEF q
  <2>5. Orderly(p) => Placed(p)'
    <3> HAVE Orderly(p)
    <3>1. Placed(p)
      BY DEF QueuesKept
    <3>2. Line(p)' = k
      BY DEF Line, k
    <3> QED BY <2>1, <2>2, <3>1, <3>2 DEF Placed, InQueue, Near, Lined, k, q
  <2> QED BY <2>3, <2>4, <2>5, QueuesFrame
<1> QED BY <1>2, <1>3 DEF Erase, Entries

(* ringbuffer_pop_front takes the party's own entry. *)
LEMMA PopQueues ==
    ASSUME TypeOK, QueuesKept, NEW p \in Parties, PopEntry(p)
    PROVE  QueuesKept'
<1> DEFINE k == Line(p)
           q == queue[k]
<1>1. k \in Lines /\ q \in Seq(Parties) /\ (k[1] <=> p \in VIPs)
  BY LineIsLine DEF TypeOK, Line
<1>2. /\ pc[p] = "popping" /\ pc'[p] = "boarding" /\ UNCHANGED << track, leave_park >>
      /\ \A r \in Parties : r # p => pc'[r] = pc[r]
      /\ queue' = [queue EXCEPT ![k] = IF @ = << >> THEN @ ELSE Tail(@)]
  BY OthersStay, PartiesAreProcesses DEF PopEntry, nightVars
<1>3. /\ \A l \in Lines : l # k => queue'[l] = queue[l]
      /\ queue'[k] = IF q = << >> THEN q ELSE Tail(q)
  BY <1>1, <1>2 DEF TypeOK
<1>4. ASSUME q # << >>
      PROVE  /\ \A r : Keeps(r, q, Tail(q)) /\ (r \in Entries(q) /\ r # Head(q) => r \in Entries(Tail(q)))
             /\ Entries(Tail(q)) \subseteq Entries(q)
             /\ Once(Head(q), q) => Head(q) \notin Entries(Tail(q))
  BY <1>1, <1>4, TailKeeps, TailEntries
<1> HIDE DEF k, q
<1>5. Orderly(p) => /\ Placed(p) /\ p \in Entries(q) /\ Head(q) = p /\ Once(p, q) /\ q # << >>
  BY <1>1, <1>2, EntryOfNonempty DEF QueuesKept, Placed, InQueue, Near, k, q
<1>6. ASSUME NEW r \in Parties, r # p, Orderly(r) PROVE Undisturbed(r)
  <2> SUFFICES ASSUME NEW l \in Lines
               PROVE  /\ Keeps(r, queue[l], queue'[l])
                      /\ r \in Entries(queue[l]) => r \in Entries(queue'[l])
    BY DEF Undisturbed
  <2>1. CASE queue'[l] = queue[l]
    BY <2>1 DEF Keeps
  <2>2. CASE l = k /\ q # << >>
    <3>1. r \in Entries(q) => r # Head(q)
      <4> SUFFICES ASSUME r \in Entries(q) PROVE Orderly(p)
        BY <1>5, <1>6
      <4>1. k[1] <=> r \in VIPs
        BY <1>1 DEF QueuesKept, Apart, q
      <4> QED BY <1>1, <1>6, <4>1 DEF Orderly
    <3> QED BY <1>3, <1>4, <2>2, <3>1 DEF q
  <2> QED BY <1>3, <2>1, <2>2 DEF q
<1>7. \A r \in Parties, l \in Lines : r \in Entries(queue'[l]) => r \in Entries(queue[l])
  BY <1>3, <1>4 DEF q
<1>8. Orderly(p) => Placed(p)'
  <2> HAVE Orderly(p)
  <2>1. p \notin Entries(queue'[k]) /\ Once(p, queue'[k])
    BY <1>3, <1>4, <1>5 DEF Keeps
  <2>2. Line(p)' = k
    BY <1>2 DEF Line, k
  <2> QED BY <1>2, <1>3, <1>5, <2>1, <2>2 DEF Placed, InQueue, Near, Lined, k
<1> QED BY <1>2, <1>6, <1>7, <1>8, QueuesFrame

LEMMA WokenPlace ==
    ASSUME TypeOK, NEW p \in Parties, Interrupted(p)
    PROVE  /\ pc'[p] \in InQueue <=> pc[p] \in InQueue
           /\ pc'[p] \in Near => pc[p] \in Near
           /\ \A r \in Processes : r # p => pc'[r] = pc[r]
<1>1. CASE UNCHANGED pc
  BY <1>1
<1>2. CASE pc[p] \in Asleep /\ Goto(p, Woken(pc[p]))
  <2>1. pc'[p] = Woken(pc[p]) /\ \A r \in Processes : r # p => pc'[r] = pc[r]
    BY <1>2, OthersStay, PartiesAreProcesses
  <2>2. /\ Woken(pc[p]) \in InQueue <=> pc[p] \in InQueue
        /\ Woken(pc[p]) \in Near => pc[p] \in Near
    BY <1>2 DEF Woken, Asleep, InQueue, Near, Lined
  <2> QED BY <2>1, <2>2
<1> QED BY <1>1, <1>2 DEF Interrupted

LEMMA PartyQueues ==
    ASSUME TypeOK, QueuesKept, NEW p \in Parties, PartyStep(p) \/ GuideCount(p) \/ Alight(p)
    PROVE  QueuesKept'
<1>0. /\ p \in Processes /\ Parties \subseteq Processes
      /\ \A l : Goto(p, l) => pc'[p] = l /\ \A r \in Parties : r # p => pc'[r] = pc[r]
  BY OthersStay, PartiesAreProcesses DEF Processes
<1>1. CASE CheckFirst(p)
  BY <1>1, CheckFirstQueues
<1>2. CASE PopEntry(p)
  BY <1>2, PopQueues
<1>3. CASE Recheck(p) \/ Retry(p)
  <2>1. UNCHANGED << track, leave_park >>
    BY <1>3 DEF Recheck, Retry, nightVars
  <2>2. CASE Erase(p) /\ Goto(p, "elsewhere")
    BY <1>0, <2>1, <2>2, EraseQueues
  <2>3. CASE pc[p] = "awake1" /\ Goto(p, "queued") /\ UNCHANGED queue
    BY <1>0, <2>1, <2>3, MovesOn DEF InQueue, Near, Lined
  <2>4. CASE pc[p] = "awake2" /\ Goto(p, "trying") /\ UNCHANGED queue
    BY <1>0, <2>1, <2>4, MovesOn DEF InQueue, Near, Lined
  <2> QED BY <1>3, <2>2, <2>3, <2>4 DEF Recheck, Retry
<1>4. CASE TryBoard(p)
  <2>1. pc[p] = "trying" /\ UNCHANGED << track, leave_park, queue >>
    BY <1>4 DEF TryBoard, nightVars
  <2>2. \E l \in {"asleep2", "popping"} : Goto(p, l)
    BY <1>4 DEF TryBoard
  <2> QED BY <1>0, <2>1, <2>2, MovesOn DEF InQueue, Near, Lined
<1>5. CASE Depart(p) \/ Sail(p) \/ Release(p) \/ CallNext(p) \/ Alight(p)
  <2>1. UNCHANGED << track, leave_park, queue >>
    BY <1>5 DEF Depart, Sail, Release, CallNext, Alight, nightVars
  <2>2. /\ pc[p] \in {"boarding", "sailing", "landed", "gathering", "released"}
        /\ \E l \in {"asleep3", "sailing", "asleep4", "landed", "released", "elsewhere", "gathering"} :
              Goto(p, l)
    BY <1>5 DEF Depart, Sail, Release, CallNext, Alight
  <2> QED BY <1>0, <2>1, <2>2, MovesOn DEF InQueue, Near, Lined
<1>6. CASE WakeUp(p)
  <2>1. Interrupted(p) /\ UNCHANGED << track, leave_park, queue >>
    BY <1>6 DEF WakeUp, Interrupted, nightVars
  <2> QED BY <1>0, <2>1, WokenPlace, MovesOn
<1>7. CASE GuideCount(p)
  <2>1. UNCHANGED << pc, track, leave_park, queue >>
    BY <1>7 DEF GuideCount, nightVars
  <2> QED BY <2>1, MovesOn
<1> QED BY <1>1, <1>2, <1>3, <1>4, <1>5, <1>6, <1>7 DEF PartyStep

LEMMA NextQueues == TypeOK /\ QueueHasRoom /\ QueuesKept /\ [Next]_vars => QueuesKept'
<1> SUFFICES ASSUME TypeOK, QueueHasRoom, QueuesKept, [Next]_vars PROVE QueuesKept'
  OBVIOUS
<1>1. ASSUME \A p \in Parties : pc'[p] = pc[p], UNCHANGED << track, leave_park, queue >>
      PROVE  QueuesKept'
  BY <1>1 DEF QueuesKept, Apart, Orderly, Placed, Line
<1>2. ASSUME NEW m \in Members, MemberStep(m) PROVE QueuesKept'
  <2>1. UNCHANGED << track, leave_park, queue >> /\ ((\E l : Goto(m, l)) \/ UNCHANGED pc)
    BY <1>2 DEF MemberStep, WakeUp, Read, Land, MemberTold, Interrupted, nightVars
  <2>2. \A p \in Parties : pc'[p] = pc[p]
    BY <2>1, FerryConstants DEF Goto, TypeOK, Processes
  <2> QED BY <1>1, <2>1, <2>2
<1>3. ASSUME NEW g \in Guides, GuideTold(g) PROVE QueuesKept'
  <2>1. g \in Parties /\ Parties \subseteq Processes
    BY DEF Parties, Processes
  <2>2. /\ Interrupted(g) /\ UNCHANGED << track, queue >>
        /\ leave_park \subseteq leave_park'
    BY <1>3 DEF GuideTold
  <2> QED BY <2>1, <2>2, WokenPlace, MovesOn
<1>4. CASE Nightfall \/ Round \/ UNCHANGED vars
  <2>1. UNCHANGED << pc, track, leave_park, queue >>
    BY <1>4 DEF Nightfall, Round, vars, nightVars
  <2> QED BY <1>1, <2>1
<1> QED BY <1>2, <1>3, <1>4, PartyQueues, ArriveQueues
        DEF Next, GuideStep, Arrivals, CashierStep, Parties

(* The four queues hold exactly the parties that wait there, each of them  *)
(* once: of VIPs also while they withdraw after dark, of guides until one  *)
(* is told to leave; for any parties, in queues with room for all of them. *)
THEOREM FerryQueueIsHonest == ASSUME QueueHasRoom PROVE Spec => []QueueHonest
<1>1. Init => QueuesKept
  <2> SUFFICES ASSUME Init, NEW p \in Parties PROVE Apart(p) /\ Placed(p)
    BY DEF QueuesKept
  <2>1. \A l \in Lines : queue[l] = << >>
    BY DEF Init
  <2>2. \A x : x \notin Entries(<< >>) /\ Once(x, << >>)
    BY EmptyEntries DEF Once
  <2>3. pc[p] = "elsewhere" /\ Line(p) \in Lines
    BY InitTypes, LineIsLine, PartiesAreProcesses DEF Init, TypeOK
  <2> QED BY <2>1, <2>2, <2>3 DEF Apart, Placed, InQueue, Near, Lined
<1>2. TypesAndCaptain /\ QueuesKept /\ [Next]_vars => QueuesKept'
  BY NextQueues DEF TypesAndCaptain
<1>3. TypesAndCaptain /\ QueuesKept => QueueHonest
  <2> SUFFICES ASSUME TypeOK, QueuesKept, NEW l \in Lines, l[1] \/ leave_park = {}
               PROVE  /\ Entries(queue[l]) = {p \in Parties : Line(p) = l /\ pc[p] \in InQueue}
                      /\ OnceEach(queue[l])
    BY DEF TypesAndCaptain, QueueHonest, Entries, OnceEach, InQueue
  <2>1. Entries(queue[l]) \subseteq Parties
    BY DEF TypeOK, Entries
  <2>2. ASSUME NEW p \in Parties, p \in Entries(queue[l]) \/ Line(p) = l
        PROVE  Placed(p)
    <3>1. Orderly(p)
      <4>1. CASE p \in Entries(queue[l])
        BY <4>1 DEF QueuesKept, Apart, Orderly
      <4>2. CASE Line(p) = l
        <5>1. Line(p)[1] <=> p \in VIPs
          BY DEF Line
        <5> QED BY <4>2, <5>1 DEF Orderly
      <4> QED BY <2>2, <4>1, <4>2
    <3> QED BY <3>1 DEF QueuesKept
  <2>3. \A p \in Parties : p \in Entries(queue[l]) <=> Line(p) = l /\ pc[p] \in InQueue
    BY <2>2 DEF Placed
  <2>4. \A p \in Entries(queue[l]) : Once(p, queue[l])
    BY <2>1, <2>2, <2>3 DEF Placed
  <2> QED BY <2>1, <2>3, <2>4, OnceEachIsOnce
<1> HIDE DEF QueueHasRoom
<1> QED BY <1>1, <1>2, <1>3, TypesAndCaptainHold, PTL DEF Spec

=============================================================================
