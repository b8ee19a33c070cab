---------------------------- MODULE TowerProofs ----------------------------
(***************************************************************************)
(* What holds of the tower for any guides, groups and VIPs, any limit:     *)
(*   - however often groups are called down: the types, and the limit;     *)
(*   - where no group is called down: that guide and group keep together,  *)
(*     that no place is lost, and that the queue and its wake-ups are      *)
(*     right.                                                              *)
(***************************************************************************)
EXTENDS Tower, QueueLemmas, FiniteSetTheorems, TLAPS

----------------------------------------------------------------------------
(* Types *)

PcType ==
    /\ pc \in [Guides \union Visitors -> GuideStates \union VisitorStates]
    /\ \A g \in Guides : pc[g] \in GuideStates
    /\ \A x \in Visitors : pc[x] \in VisitorStates

LEMMA VisitorGoes ==
    ASSUME PcType, NEW x \in Visitors, NEW l \in VisitorStates, Goto(x, l)
    PROVE  PcType'
BY TowerConstants DEF PcType, Goto

LEMMA GuideGoes ==
    ASSUME PcType, NEW g \in Guides, NEW l \in GuideStates, Goto(g, l)
    PROVE  PcType'
BY TowerConstants DEF PcType, Goto

LEMMA FirstIsMember ==
    ASSUME NEW q \in Seq(Members)
    PROVE  First(q) \subseteq Members
<1>1. q # << >> => Head(q) \in Members
  OBVIOUS
<1> QED BY <1>1 DEF First

LEMMA EraseIsWithout ==
    ASSUME NEW m \in Members, Erase(m)
    PROVE  \/ m \notin Entries(tower_queue) /\ UNCHANGED tower_queue
           \/ \E i \in DOMAIN tower_queue :
                 tower_queue[i] = m /\ tower_queue' = Without(tower_queue, i)
BY DEF Erase, Entries, Without

LEMMA EraseKeepsType ==
    ASSUME tower_queue \in Seq(Members), NEW m \in Members, Erase(m)
    PROVE  tower_queue' \in Seq(Members)
BY EraseIsWithout, WithoutEntries

LEMMA FamiliesFinite == \A x \in Visitors : IsFiniteSet(Family[x]) /\ Seats(x) \in Nat
<1> TAKE x \in Visitors
<1>1. Family[x] \in SUBSET UNION {Family[y] : y \in Visitors}
  OBVIOUS
<1>2. IsFiniteSet(Family[x])
  BY <1>1, FS_Subset, TowerConstants
<1> QED BY <1>2, FS_CardinalityType DEF Seats

LEMMA InitTypes == Init => TypeOK
<1> SUFFICES ASSUME Init PROVE TypeOK
  OBVIOUS
<1>1. PcType
  BY TowerConstants DEF Init, PcType, GuideStates, VisitorStates, AtRest, Visitors
<1>2. status \in [Visitors -> Statuses]
  BY DEF Init, Statuses
<1> QED BY <1>1, <1>2, TowerConstants DEF Init, TypeOK, PcType

LEMMA WriteTypes ==
    ASSUME status \in [Visitors -> Statuses], NEW x \in Visitors, NEW s \in Statuses, Write(x, s)
    PROVE  status' \in [Visitors -> Statuses]
BY DEF Write

LEMMA SendTypes ==
    ASSUME TypeOK, NEW g \in Guides, NEW s \in Statuses, Send(g, s)
    PROVE  status' \in [Visitors -> Statuses] /\ wake' \subseteq Members
BY DEF TypeOK, Send, Group

(* The steps of members and VIPs. *)
LEMMA VisitorTypes ==
    ASSUME TypeOK, NEW x \in Visitors,
           Read(x) \/ Climb(x) \/ Arrive(x) \/ Descend(x)
    PROVE  TypeOK'
<1>0. PcType /\ Seats(x) \in Nat
  BY FamiliesFinite DEF TypeOK, PcType
<1>1. CASE Read(x)
  <2>1. status[x] \in Statuses
    BY DEF TypeOK
  <2>2. PcType'
    BY <1>0, <1>1, <2>1, VisitorGoes DEF Read, Statuses, VisitorStates, AtRest, InLine, Aloft
  <2> QED BY <1>1, <2>2 DEF Read, TypeOK, PcType, tourVars
<1>2. CASE Climb(x)
  <2>1. PcType'
    BY <1>0, <1>2, VisitorGoes DEF Climb, VisitorStates, Aloft
  <2>2. sem' \in Nat
    BY <1>0, <1>2 DEF Climb, TypeOK
  <2> QED BY <1>2, <2>1, <2>2 DEF Climb, TypeOK, PcType, tourVars, callVars
<1>3. CASE Arrive(x)
  <2>1. PcType'
    BY <1>0, <1>3, VisitorGoes DEF Arrive, VisitorStates, AtRest
  <2>2. status' \in [Visitors -> Statuses]
    BY <1>3, WriteTypes DEF Arrive, TypeOK, Statuses
  <2> QED BY <1>3, <2>1, <2>2 DEF Arrive, TypeOK, PcType, tourVars, callVars
<1>4. CASE Descend(x)
  <2>1. PcType'
    BY <1>0, <1>4, VisitorGoes DEF Descend, VisitorStates
  <2>2. status' \in [Visitors -> Statuses]
    BY <1>4, WriteTypes DEF Descend, TypeOK, Statuses
  <2>3. sem' \in Nat
    BY <1>0, <1>4 DEF Descend, TypeOK
  <2> QED BY <1>4, <2>1, <2>2, <2>3 DEF Descend, TypeOK, PcType, tourVars, callVars
<1> QED BY <1>1, <1>2, <1>3, <1>4

(* The steps of members alone. *)
LEMMA MemberTypes ==
    ASSUME TypeOK, NEW m \in Members,
           \/ WakeUp(m) \/ Join(m) \/ Joined(m) \/ CheckFirst(m) \/ Awake(m) \/ Pop(m)
           \/ Return(m) \/ CheckIn(m)
    PROVE  TypeOK'
<1>0. PcType /\ m \in Visitors /\ "FOLLOWING_GUIDE" \in Statuses /\ "GOING_UP_TOWER" \in Statuses
  BY DEF TypeOK, PcType, Visitors, Statuses
<1>1. CASE WakeUp(m)
  <2>1. PcType'
    BY <1>0, <1>1, VisitorGoes DEF WakeUp, VisitorStates, AtRest, InLine
  <2> QED BY <1>1, <2>1 DEF WakeUp, TypeOK, PcType, tourVars, callVars
<1>2. CASE Join(m)
  <2>1. PcType'
    BY <1>0, <1>2, VisitorGoes DEF Join, VisitorStates, InLine
  <2>2. tower_queue' \in Seq(Members)
    BY <1>2 DEF Join, TypeOK
  <2> QED BY <1>2, <2>1, <2>2 DEF Join, TypeOK, PcType, tourVars, callVars
<1>3. CASE Joined(m)
  <2>1. PcType'
    BY <1>0, <1>3, VisitorGoes DEF Joined, VisitorStates, InLine
  <2>2. tower_queue' \in Seq(Members)
    BY <1>3, EraseKeepsType DEF Joined, TypeOK
  <2>3. status' \in [Visitors -> Statuses]
    BY <1>0, <1>3, WriteTypes DEF Joined, TypeOK
  <2> QED BY <1>3, <2>1, <2>2, <2>3 DEF Joined, TypeOK, PcType, tourVars, callVars
<1>4. CASE CheckFirst(m)
  <2>1. PICK first \in IF tower_queue = << >> THEN Members ELSE First(tower_queue) :
           IF first = m THEN Goto(m, "popping") /\ UNCHANGED wake
                        ELSE Goto(m, "asleep") /\ wake' = wake \union {first}
    BY <1>4 DEF CheckFirst
  <2>2. first \in Members
    BY <2>1, FirstIsMember DEF TypeOK
  <2>3. PcType'
    BY <1>0, <2>1, VisitorGoes DEF VisitorStates, InLine
  <2>4. wake' \subseteq Members
    BY <2>1, <2>2 DEF TypeOK
  <2> QED BY <1>4, <2>3, <2>4 DEF CheckFirst, TypeOK, PcType, tourVars, callVars
<1>5. CASE Awake(m)
  <2>1. PcType'
    BY <1>0, <1>5, VisitorGoes DEF Awake, VisitorStates, InLine
  <2>2. tower_queue' \in Seq(Members)
    BY <1>5, EraseKeepsType DEF Awake, TypeOK
  <2>3. status' \in [Visitors -> Statuses]
    BY <1>0, <1>5, WriteTypes DEF Awake, TypeOK
  <2> QED BY <1>5, <2>1, <2>2, <2>3 DEF Awake, TypeOK, PcType, tourVars, callVars
<1>6. CASE Pop(m)
  <2>1. PcType'
    BY <1>0, <1>6, VisitorGoes DEF Pop, VisitorStates, AtRest
  <2>2. tower_queue' \in Seq(Members)
    <3>1. tower_queue # << >> => Tail(tower_queue) \in Seq(Members)
      BY DEF TypeOK
    <3> QED BY <1>6, <3>1 DEF Pop, TypeOK
  <2>3. wake' \subseteq Members
    BY <1>6, <2>2, FirstIsMember DEF Pop, TypeOK
  <2>4. status' \in [Visitors -> Statuses]
    BY <1>0, <1>6, WriteTypes DEF Pop, TypeOK
  <2> QED BY <1>6, <2>1, <2>2, <2>3, <2>4 DEF Pop, TypeOK, PcType, tourVars, callVars
<1>7. CASE Return(m)
  <2>1. PcType'
    BY <1>0, <1>7, VisitorGoes DEF Return, VisitorStates
  <2>2. status' \in [Visitors -> Statuses]
    BY <1>0, <1>7, WriteTypes DEF Return, TypeOK
  <2> QED BY <1>7, <2>1, <2>2 DEF Return, TypeOK, PcType, tourVars, callVars
<1>8. CASE CheckIn(m)
  <2>1. PcType'
    BY <1>0, <1>8, VisitorGoes DEF CheckIn, VisitorStates, AtRest, InLine
  <2>2. inbox' \in [Members -> Nat]
    BY <1>8 DEF CheckIn, TypeOK
  <2> QED BY <1>8, <2>1, <2>2 DEF CheckIn, TypeOK, PcType, callVars
<1> QED BY <1>1, <1>2, <1>3, <1>4, <1>5, <1>6, <1>7, <1>8

LEMMA GuideTypes ==
    ASSUME TypeOK, NEW g \in Guides, GuideStep(g)
    PROVE  TypeOK'
<1>0. PcType
  BY DEF TypeOK, PcType
<1>1. CASE GuideCount(g)
  <2>1. PICK m \in Group(g) :
           /\ inbox[m] > 0
           /\ inbox' = [inbox EXCEPT ![m] = @ - 1]
           /\ checkins' = [checkins EXCEPT ![g] = @ + Seats(m)]
    BY <1>1 DEF GuideCount
  <2>2. m \in Members /\ Seats(m) \in Nat
    BY FamiliesFinite DEF Group, Visitors
  <2>3. inbox' \in [Members -> Nat] /\ checkins' \in [Guides -> Nat]
    BY <2>1, <2>2 DEF TypeOK
  <2> QED BY <1>1, <2>3 DEF GuideCount, TypeOK, callVars
<1>2. CASE GuideLeaveTower(g)
  <2>1. PcType'
    BY <1>0, <1>2, GuideGoes DEF GuideLeaveTower, GuideStates
  <2> QED BY <1>2, <2>1 DEF GuideLeaveTower, TypeOK, PcType, tourVars, callVars
<1>3. CASE GuideNext(g)
  <2>1. PcType'
    BY <1>0, <1>3, GuideGoes DEF GuideNext, GuideStates
  <2>2. status' \in [Visitors -> Statuses] /\ wake' \subseteq Members
    BY <1>3, SendTypes DEF GuideNext, Statuses
  <2>3. checkins' \in [Guides -> Nat]
    BY <1>3 DEF GuideNext, TypeOK
  <2> QED BY <1>3, <2>1, <2>2, <2>3 DEF GuideNext, TypeOK, PcType, callVars
<1>4. CASE GuideLeaveNext(g)
  <2>1. PcType'
    BY <1>0, <1>4, GuideGoes DEF GuideLeaveNext, GuideStates
  <2> QED BY <1>4, <2>1 DEF GuideLeaveNext, TypeOK, PcType, tourVars, callVars
<1> QED BY <1>1, <1>2, <1>3, <1>4 DEF GuideStep

LEMMA ArrivalTypes ==
    ASSUME TypeOK, Arrivals
    PROVE  TypeOK'
<1>0. PcType
  BY DEF TypeOK, PcType
<1>1. ASSUME NEW g \in Guides, GuideArrive(g)
      PROVE  TypeOK'
  <2>1. PcType'
    <3>1. "at tower" \in GuideStates /\ "reading" \in VisitorStates
      BY DEF GuideStates, VisitorStates, AtRest
    <3>2. pc' = [p \in Guides \union Visitors |->
                    IF p = g THEN "at tower" ELSE IF p \in Group(g) THEN "reading" ELSE pc[p]]
      BY <1>1 DEF GuideArrive
    <3>3. Group(g) \subseteq Visitors /\ Guides \intersect Visitors = {}
      BY TowerConstants DEF Group, Visitors
    <3>4. \A h \in Guides : pc'[h] \in GuideStates
      BY <1>0, <3>1, <3>2, <3>3 DEF PcType
    <3>5. \A x \in Visitors : pc'[x] \in VisitorStates
      BY <1>0, <3>1, <3>2, <3>3 DEF PcType
    <3> QED BY <3>2, <3>4, <3>5 DEF PcType
  <2>2. status' \in [Visitors -> Statuses] /\ wake' \subseteq Members
    BY <1>1, SendTypes DEF GuideArrive, Statuses
  <2>3. checkins' \in [Guides -> Nat]
    BY <1>1 DEF GuideArrive, TypeOK
  <2> QED BY <1>1, <2>1, <2>2, <2>3 DEF GuideArrive, TypeOK, PcType
<1>2. ASSUME NEW v \in VIPs, VipArrive(v)
      PROVE  TypeOK'
  <2>0. v \in Visitors
    BY DEF Visitors
  <2>1. PcType'
    BY <1>0, <1>2, <2>0, VisitorGoes DEF VipArrive, VisitorStates, AtRest
  <2>2. status' \in [Visitors -> Statuses]
    BY <1>2, <2>0, WriteTypes DEF VipArrive, TypeOK, Statuses
  <2> QED BY <1>2, <2>1, <2>2 DEF VipArrive, TypeOK, PcType, tourVars, callVars
<1> QED BY <1>1, <1>2 DEF Arrivals

LEMMA CallTypes ==
    ASSUME TypeOK, Calls
    PROVE  TypeOK'
<1>0. PcType
  BY DEF TypeOK, PcType
<1>1. ASSUME NEW g \in Guides, GuideTold(g)
      PROVE  TypeOK'
  <2>1. commands' \in 0 .. Commands
    BY <1>1, TowerConstants DEF GuideTold, TypeOK
  <2> QED BY <1>1, <2>1 DEF GuideTold, TypeOK, Group, tourVars
<1>2. ASSUME NEW m \in Members, MemberTold(m)
      PROVE  TypeOK'
  <2>0. m \in Visitors
    BY DEF Visitors
  <2>1. PcType'
    <3>1. CASE Goto(m, "awake")
      BY <1>0, <2>0, <3>1, VisitorGoes DEF VisitorStates, InLine
    <3>2. CASE Goto(m, "reading")
      BY <1>0, <2>0, <3>2, VisitorGoes DEF VisitorStates, AtRest
    <3>3. CASE UNCHANGED pc
      BY <1>0, <3>3 DEF PcType
    <3> QED BY <1>2, <3>1, <3>2, <3>3 DEF MemberTold
  <2> QED BY <1>2, <2>1 DEF MemberTold, TypeOK, PcType, tourVars
<1>3. CASE Round
  <2>1. nights' \in 0 .. Nights
    BY <1>3, TowerConstants DEF Round, TypeOK
  <2> QED BY <1>3, <2>1 DEF Round, TypeOK, tourVars
<1> QED BY <1>1, <1>2, <1>3 DEF Calls

LEMMA NextTypes == TypeOK /\ [Next]_vars => TypeOK'
<1> SUFFICES ASSUME TypeOK, [Next]_vars PROVE TypeOK'
  OBVIOUS
<1>1. ASSUME NEW g \in Guides, GuideStep(g) PROVE TypeOK'
  BY <1>1, GuideTypes
<1>2. ASSUME NEW m \in Members, MemberStep(m) PROVE TypeOK'
  BY <1>2, VisitorTypes, MemberTypes DEF MemberStep, Visitors
<1>3. ASSUME NEW v \in VIPs, VipStep(v) PROVE TypeOK'
  BY <1>3, VisitorTypes DEF VipStep, Visitors
<1>4. CASE Arrivals \/ Calls
  BY <1>4, ArrivalTypes, CallTypes
<1>5. CASE UNCHANGED vars
  BY <1>5 DEF TypeOK, vars, tourVars, callVars
<1> QED BY <1>1, <1>2, <1>3, <1>4, <1>5 DEF Next

(* Every status, every place in the code and the queue stay what they are  *)
(* meant to be; SEM_TOWER never falls below zero.                          *)
THEOREM TowerTypes == Spec => []TypeOK
<1> QED BY InitTypes, NextTypes, PTL DEF Spec

----------------------------------------------------------------------------
(* The limit *)

PeopleOf(A) == UNION {Family[x] : x \in A}

(* Nobody goes up without places, and no place is given back twice.  It is *)
(* not an equation: a guide that left early may write over the status of a *)
(* member on the tower, which then never gives its places back.            *)
PlacesTaken == sem + Cardinality(PeopleOf(OnTower)) <= TowerLimit

LEMMA PeopleFinite == \A A \in SUBSET Visitors :
                         IsFiniteSet(PeopleOf(A)) /\ Cardinality(PeopleOf(A)) \in Nat
<1> TAKE A \in SUBSET Visitors
<1>1. PeopleOf(A) \in SUBSET UNION {Family[x] : x \in Visitors}
  BY DEF PeopleOf
<1>2. IsFiniteSet(PeopleOf(A))
  BY <1>1, FS_Subset, TowerConstants
<1> QED BY <1>2, FS_CardinalityType

LEMMA PeopleAdd ==
    ASSUME NEW A \in SUBSET Visitors, NEW x \in Visitors, x \notin A
    PROVE  Cardinality(PeopleOf(A \union {x})) = Cardinality(PeopleOf(A)) + Seats(x)
<1>1. PeopleOf(A \union {x}) = PeopleOf(A) \union Family[x]
  BY DEF PeopleOf
<1>2. PeopleOf(A) \intersect Family[x] = {}
  BY TowerConstants DEF PeopleOf
<1>3. IsFiniteSet(PeopleOf(A)) /\ IsFiniteSet(Family[x])
  BY PeopleFinite, FamiliesFinite
<1>4. Cardinality(PeopleOf(A) \union Family[x]) =
        Cardinality(PeopleOf(A)) + Cardinality(Family[x])
          - Cardinality(PeopleOf(A) \intersect Family[x])
  BY <1>3, FS_Union
<1>5. Cardinality(PeopleOf(A) \intersect Family[x]) = 0
  BY <1>2, FS_EmptySet
<1>6. Cardinality(PeopleOf(A)) \in Nat /\ Cardinality(Family[x]) \in Nat
  BY <1>3, FS_CardinalityType
<1>7. Cardinality(PeopleOf(A) \union Family[x]) = Cardinality(PeopleOf(A)) + Cardinality(Family[x])
  BY <1>4, <1>5, <1>6
<1> QED BY <1>1, <1>7 DEF Seats

LEMMA NobodyNew ==
    ASSUME TypeOK, PlacesTaken, sem' = sem, OnTower' \subseteq OnTower
    PROVE  PlacesTaken'
<1>1. OnTower \in SUBSET Visitors /\ OnTower' \in SUBSET Visitors
  BY DEF OnTower
<1>2. PeopleOf(OnTower)' = PeopleOf(OnTower')
  BY DEF PeopleOf
<1>3. PeopleOf(OnTower') \in SUBSET PeopleOf(OnTower)
  BY DEF PeopleOf
<1>4. Cardinality(PeopleOf(OnTower')) <= Cardinality(PeopleOf(OnTower))
  <2>1. IsFiniteSet(PeopleOf(OnTower))
    BY <1>1, PeopleFinite
  <2> QED BY <1>3, <2>1, FS_Subset
<1>5. /\ Cardinality(PeopleOf(OnTower)) \in Nat
      /\ Cardinality(PeopleOf(OnTower')) \in Nat
  BY <1>1, PeopleFinite
<1> QED BY <1>2, <1>4, <1>5, TowerConstants DEF PlacesTaken, TypeOK

LEMMA InitPlaces == Init => PlacesTaken
<1> SUFFICES ASSUME Init PROVE PlacesTaken
  OBVIOUS
<1>1. OnTower = {}
  BY TowerConstants DEF Init, OnTower, Aloft, Visitors
<1>2. PeopleOf(OnTower) = {}
  BY <1>1 DEF PeopleOf
<1>3. Cardinality(PeopleOf(OnTower)) = 0
  BY <1>2, FS_EmptySet
<1> QED BY <1>3, TowerConstants DEF Init, PlacesTaken

(* Whoever is neither on the tower nor about to read its status has a      *)
(* status that does not put it there.                                      *)
Grounded ==
    \A x \in Visitors : pc[x] \notin Aloft \union {"reading", "elsewhere"} =>
                            status[x] \notin {"AT_TOWER", "GOING_DOWN_TOWER"}

LEMMA InitGrounded == Init => Grounded
BY DEF Init, Grounded

LEMMA SendGrounds ==
    ASSUME TypeOK, Grounded, NEW g \in Guides, NEW s \in {"AT_TOWER_QUEUE", "AT_BRIDGE"}, Send(g, s),
           \A x \in Visitors : pc'[x] = pc[x] \/ pc'[x] = "reading"
    PROVE  Grounded'
BY DEF Send, Grounded

LEMMA NextGrounded == TypeOK /\ Grounded /\ [Next]_vars => Grounded'
<1> SUFFICES ASSUME TypeOK, Grounded, [Next]_vars PROVE Grounded'
  OBVIOUS
<1>0. \A x \in Visitors : x \in Guides \union Visitors /\ x \notin Guides
  BY TowerConstants
<1>1. ASSUME NEW g \in Guides, GuideStep(g) PROVE Grounded'
  <2>1. \A x \in Visitors : pc'[x] = pc[x]
    BY <1>0, <1>1
       DEF GuideStep, GuideCount, GuideLeaveTower, GuideNext, GuideLeaveNext, Goto, TypeOK
  <2>2. CASE GuideNext(g)
    BY <2>1, <2>2, SendGrounds DEF GuideNext
  <2>3. CASE GuideCount(g) \/ GuideLeaveTower(g) \/ GuideLeaveNext(g)
    BY <2>1, <2>3 DEF GuideCount, GuideLeaveTower, GuideLeaveNext, Grounded
  <2> QED BY <1>1, <2>2, <2>3 DEF GuideStep
<1>2. ASSUME NEW x \in Visitors, MemberStep(x) \/ VipStep(x) PROVE Grounded'
  <2>1. \A y \in Visitors : y # x => pc'[y] = pc[y] /\ status'[y] = status[y]
    BY <1>0, <1>2
       DEF MemberStep, VipStep, Read, WakeUp, Join, Joined, CheckFirst, Awake, Pop, Climb, Arrive,
           Descend, Return, CheckIn, Goto, Write, TypeOK
  <2>2. pc'[x] \notin Aloft \union {"reading", "elsewhere"} =>
            status'[x] \notin {"AT_TOWER", "GOING_DOWN_TOWER"}
    <3>1. CASE Read(x)
      BY <1>0, <3>1 DEF Read, Goto, TypeOK, Aloft, Statuses
    <3>2. CASE WakeUp(x) \/ Join(x) \/ CheckFirst(x) \/ CheckIn(x)
      BY <1>0, <3>2 DEF WakeUp, Join, CheckFirst, CheckIn, Goto, TypeOK, Aloft, Grounded
    <3>3. CASE Joined(x) \/ Awake(x)
      BY <1>0, <3>3 DEF Joined, Awake, Goto, Write, TypeOK, Aloft, Grounded
    <3>4. CASE Pop(x) \/ Climb(x) \/ Arrive(x)
      BY <1>0, <3>4 DEF Pop, Climb, Arrive, Goto, TypeOK, Aloft
    <3>5. CASE Descend(x) \/ Return(x)
      BY <1>0, <3>5 DEF Descend, Return, Goto, Write, TypeOK
    <3> QED BY <1>2, <3>1, <3>2, <3>3, <3>4, <3>5 DEF MemberStep, VipStep
  <2> QED BY <2>1, <2>2 DEF Grounded
<1>3. CASE Arrivals
  <2>1. ASSUME NEW g \in Guides, GuideArrive(g) PROVE Grounded'
    <3>1. \A x \in Visitors : pc'[x] = pc[x] \/ pc'[x] = "reading"
      BY <1>0, <2>1 DEF GuideArrive
    <3> QED BY <2>1, <3>1, SendGrounds DEF GuideArrive
  <2>2. ASSUME NEW v \in VIPs, VipArrive(v) PROVE Grounded'
    BY <1>0, <2>2 DEF VipArrive, Goto, Write, TypeOK, Grounded, Visitors
  <2> QED BY <1>3, <2>1, <2>2 DEF Arrivals
<1>4. CASE Calls
  <2>1. status' = status
    BY <1>4 DEF Calls, GuideTold, MemberTold, Round
  <2>2. \A x \in Visitors : pc'[x] = pc[x] \/ pc'[x] = "reading" \/ pc[x] = "asleep"
    BY <1>0, <1>4 DEF Calls, GuideTold, MemberTold, Round, Goto, TypeOK
  <2> QED BY <2>1, <2>2 DEF Grounded, Aloft
<1>5. CASE UNCHANGED vars
  BY <1>5 DEF Grounded, vars
<1> QED BY <1>1, <1>2, <1>3, <1>4, <1>5 DEF Next, Visitors

(* Who climbs brings its family onto the tower ... *)
LEMMA ClimbAdds ==
    ASSUME TypeOK, NEW x \in Visitors, Climb(x)
    PROVE  /\ Cardinality(PeopleOf(OnTower)') = Cardinality(PeopleOf(OnTower)) + Seats(x)
           /\ Cardinality(PeopleOf(OnTower)) \in Nat /\ Seats(x) \in Nat /\ sem' = sem - Seats(x)
<1>0. x \in Guides \union Visitors
  OBVIOUS
<1>1. OnTower' = OnTower \union {x} /\ x \notin OnTower
  BY <1>0 DEF Climb, Goto, TypeOK, OnTower, Aloft
<1>2. OnTower \in SUBSET Visitors
  BY DEF OnTower
<1>3. PeopleOf(OnTower)' = PeopleOf(OnTower \union {x})
  BY <1>1 DEF PeopleOf
<1>4. Cardinality(PeopleOf(OnTower)') = Cardinality(PeopleOf(OnTower)) + Seats(x)
  BY <1>1, <1>2, <1>3, PeopleAdd
<1>5. sem' = sem - Seats(x)
  BY DEF Climb
<1> QED BY <1>2, <1>4, <1>5, PeopleFinite, FamiliesFinite

(* ... and who descends takes it off again. *)
LEMMA DescendRemoves ==
    ASSUME TypeOK, NEW x \in Visitors, Descend(x)
    PROVE  /\ Cardinality(PeopleOf(OnTower)) = Cardinality(PeopleOf(OnTower)') + Seats(x)
           /\ Cardinality(PeopleOf(OnTower)') \in Nat /\ Seats(x) \in Nat /\ sem' = sem + Seats(x)
<1>0. x \in Guides \union Visitors
  OBVIOUS
<1>1. /\ \A y \in Visitors : y # x => pc'[y] = pc[y] /\ status'[y] = status[y]
      /\ pc[x] = "descending" /\ pc'[x] \in {"elsewhere", "reporting"}
  BY <1>0 DEF Descend, Goto, Write, TypeOK
<1>2. OnTower = OnTower' \union {x} /\ x \notin OnTower'
  BY <1>1 DEF OnTower, Aloft
<1>3. OnTower' \in SUBSET Visitors
  BY DEF OnTower
<1>4. PeopleOf(OnTower)' = PeopleOf(OnTower')
  BY DEF PeopleOf
<1>5. Cardinality(PeopleOf(OnTower)) = Cardinality(PeopleOf(OnTower')) + Seats(x)
  BY <1>2, <1>3, PeopleAdd
<1>6. sem' = sem + Seats(x)
  BY DEF Descend
<1> QED BY <1>3, <1>4, <1>5, <1>6, PeopleFinite, FamiliesFinite

LEMMA VisitorPlaces ==
    ASSUME TypeOK, PlacesTaken, NEW x \in Visitors,
           Read(x) \/ Climb(x) \/ Arrive(x) \/ Descend(x)
    PROVE  PlacesTaken'
<1>0. x \in Guides \union Visitors /\ status[x] \in Statuses
  BY DEF TypeOK
<1>1. CASE Read(x)
  <2>1. \A y \in Visitors : y # x => pc'[y] = pc[y]
    BY <1>1 DEF Read, Goto, TypeOK
  <2>2. pc'[x] \in Aloft => x \in OnTower
    BY <1>0, <1>1 DEF Read, Goto, TypeOK, OnTower, Aloft, Statuses
  <2>3. pc'[x] # "reading"
    BY <1>0, <1>1 DEF Read, Goto, TypeOK, Statuses
  <2>4. status' = status /\ sem' = sem
    BY <1>1 DEF Read
  <2>5. OnTower' \subseteq OnTower
    BY <2>1, <2>2, <2>3, <2>4 DEF OnTower
  <2> QED BY <2>4, <2>5, NobodyNew
<1>2. CASE Climb(x)
  <2>1. /\ Cardinality(PeopleOf(OnTower)') = Cardinality(PeopleOf(OnTower)) + Seats(x)
        /\ Cardinality(PeopleOf(OnTower)) \in Nat /\ Seats(x) \in Nat /\ sem' = sem - Seats(x)
    BY <1>2, ClimbAdds
  <2> QED BY <2>1, TowerConstants DEF PlacesTaken, TypeOK
<1>3. CASE Arrive(x)
  <2>1. x \in OnTower /\ \A y \in Visitors : y # x => pc'[y] = pc[y] /\ status'[y] = status[y]
    BY <1>0, <1>3 DEF Arrive, Goto, Write, TypeOK, OnTower, Aloft
  <2>2. OnTower' \subseteq OnTower /\ sem' = sem
    BY <1>3, <2>1 DEF Arrive, OnTower
  <2> QED BY <2>2, NobodyNew
<1>4. CASE Descend(x)
  <2>1. /\ Cardinality(PeopleOf(OnTower)) = Cardinality(PeopleOf(OnTower)') + Seats(x)
        /\ Cardinality(PeopleOf(OnTower)') \in Nat /\ Seats(x) \in Nat /\ sem' = sem + Seats(x)
    BY <1>4, DescendRemoves
  <2> QED BY <2>1, TowerConstants DEF PlacesTaken, TypeOK
<1> QED BY <1>1, <1>2, <1>3, <1>4

LEMMA MemberPlaces ==
    ASSUME TypeOK, PlacesTaken, Grounded, NEW m \in Members,
           \/ WakeUp(m) \/ Join(m) \/ Joined(m) \/ CheckFirst(m) \/ Awake(m) \/ Pop(m)
           \/ Return(m) \/ CheckIn(m)
    PROVE  PlacesTaken'
<1>0. m \in Visitors /\ m \in Guides \union Visitors
  BY DEF Visitors
<1>1. sem' = sem /\ \A y \in Visitors : y # m => status'[y] = status[y]
  BY DEF WakeUp, Join, Joined, CheckFirst, Awake, Pop, Return, CheckIn, Write, TypeOK
<1>2. CASE WakeUp(m) \/ CheckIn(m)
  <2>1. /\ \A y \in Visitors : y # m => pc'[y] = pc[y]
        /\ status' = status
        /\ pc[m] \in {"waiting", "asleep", "reporting", "quitting"}
        /\ pc'[m] \in {"reading", "awake", "popping"}
    BY <1>0, <1>2 DEF WakeUp, CheckIn, Goto, TypeOK
  <2>2. OnTower' \subseteq OnTower
    BY <1>0, <2>1 DEF OnTower, Grounded, Aloft
  <2> QED BY <1>1, <2>2, NobodyNew
<1>3. CASE Join(m) \/ Joined(m) \/ CheckFirst(m) \/ Awake(m) \/ Pop(m) \/ Return(m)
  <2>1. \A y \in Visitors : y # m => pc'[y] = pc[y]
    BY <1>0, <1>3 DEF Join, Joined, CheckFirst, Awake, Pop, Return, Goto, TypeOK
  <2>2. pc'[m] \notin Aloft
    BY <1>0, <1>3 DEF Join, Joined, CheckFirst, Awake, Pop, Return, Goto, TypeOK, Aloft
  <2>3. pc'[m] = "reading" => status'[m] = "GOING_UP_TOWER"
    BY <1>0, <1>3 DEF Join, Joined, CheckFirst, Awake, Pop, Return, Goto, Write, TypeOK
  <2>4. OnTower' \subseteq OnTower
    BY <1>1, <2>1, <2>2, <2>3 DEF OnTower
  <2> QED BY <1>1, <2>4, NobodyNew
<1> QED BY <1>2, <1>3

LEMMA NextPlaces == TypeOK /\ PlacesTaken /\ Grounded /\ [Next]_vars => PlacesTaken'
<1> SUFFICES ASSUME TypeOK, PlacesTaken, Grounded, [Next]_vars PROVE PlacesTaken'
  OBVIOUS
<1>0. \A x \in Visitors : x \in Guides \union Visitors /\ x \notin Guides
  BY TowerConstants
<1>1. ASSUME NEW g \in Guides, GuideStep(g) PROVE PlacesTaken'
  <2>1. sem' = sem /\ \A x \in Visitors : pc'[x] = pc[x]
    BY <1>0, <1>1
       DEF GuideStep, GuideCount, GuideLeaveTower, GuideNext, GuideLeaveNext, Goto, TypeOK
  <2>2. \A x \in Visitors : status'[x] = status[x] \/ status'[x] = "AT_BRIDGE"
    BY <1>1 DEF GuideStep, GuideCount, GuideLeaveTower, GuideNext, GuideLeaveNext, Send, TypeOK
  <2>3. OnTower' \subseteq OnTower
    BY <2>1, <2>2 DEF OnTower
  <2> QED BY <2>1, <2>3, NobodyNew
<1>2. ASSUME NEW m \in Members, MemberStep(m) PROVE PlacesTaken'
  BY <1>2, VisitorPlaces, MemberPlaces DEF MemberStep, Visitors
<1>3. ASSUME NEW v \in VIPs, VipStep(v) PROVE PlacesTaken'
  BY <1>3, VisitorPlaces DEF VipStep, Visitors
<1>4. ASSUME NEW g \in Guides, GuideArrive(g) PROVE PlacesTaken'
  <2>1. sem' = sem
    BY <1>4 DEF GuideArrive
  <2>2. \A x \in Visitors : \/ pc'[x] = pc[x] /\ status'[x] = status[x]
                            \/ pc'[x] = "reading" /\ status'[x] = "AT_TOWER_QUEUE"
    BY <1>0, <1>4 DEF GuideArrive, Send
  <2>3. OnTower' \subseteq OnTower
    BY <2>2 DEF OnTower, Aloft
  <2> QED BY <2>1, <2>3, NobodyNew
<1>5. ASSUME NEW v \in VIPs, VipArrive(v) PROVE PlacesTaken'
  <2>1. sem' = sem /\ v \in Visitors
    BY <1>5 DEF VipArrive, Visitors
  <2>2. \A x \in Visitors : \/ pc'[x] = pc[x] /\ status'[x] = status[x]
                            \/ pc'[x] = "reading" /\ status'[x] = "GOING_UP_TOWER"
    BY <1>0, <1>5, <2>1 DEF VipArrive, Goto, Write, TypeOK
  <2>3. OnTower' \subseteq OnTower
    BY <2>2 DEF OnTower, Aloft
  <2> QED BY <2>1, <2>3, NobodyNew
<1>6. CASE Calls
  <2>1. sem' = sem /\ status' = status
    BY <1>6 DEF Calls, GuideTold, MemberTold, Round
  <2>2. \A x \in Visitors : \/ pc'[x] = pc[x]
                            \/ pc[x] = "waiting" /\ pc'[x] = "reading"
                            \/ pc[x] = "asleep" /\ pc'[x] = "awake"
    BY <1>0, <1>6 DEF Calls, GuideTold, MemberTold, Round, Goto, TypeOK
  <2>3. OnTower' \subseteq OnTower
    BY <2>1, <2>2 DEF OnTower, Grounded, Aloft
  <2> QED BY <2>1, <2>3, NobodyNew
<1>7. CASE UNCHANGED vars
  <2>1. sem' = sem /\ OnTower' = OnTower
    BY <1>7 DEF vars, OnTower
  <2> QED BY <2>1, NobodyNew
<1> QED BY <1>1, <1>2, <1>3, <1>4, <1>5, <1>6, <1>7 DEF Next, Arrivals

(* There are never more people on the tower than TOWER_LIMIT, kids         *)
(* counted, whoever is called down and whenever.                           *)
THEOREM TowerIsNotOverloaded == Spec => []WithinTowerLimit
<1> DEFINE Inv == TypeOK /\ PlacesTaken /\ Grounded
<1>1. Init => Inv
  BY InitGrounded, InitTypes, InitPlaces
<1>2. Inv /\ [Next]_vars => Inv'
  BY NextTypes, NextGrounded, NextPlaces
<1>3. Inv => WithinTowerLimit
  <2> SUFFICES ASSUME Inv PROVE WithinTowerLimit
    OBVIOUS
  <2>1. OnTower \in SUBSET Visitors
    BY DEF OnTower
  <2>2. Cardinality(PeopleOf(OnTower)) \in Nat /\ sem \in Nat
    BY <2>1, PeopleFinite DEF TypeOK
  <2> QED BY <2>2, TowerConstants DEF PlacesTaken, WithinTowerLimit, PeopleOf
<1> HIDE DEF Inv
<1> QED BY <1>1, <1>2, <1>3, PTL DEF Spec

----------------------------------------------------------------------------
(* Where no group is called down *)

(* No guide is told to leave.  Night may fall and the cashier make its     *)
(* round: a member that it wakes reads its status or looks at the queue    *)
(* again.                                                                  *)
NobodyCalled == Commands = 0
NobodyTold == told = {} /\ signals = {} /\ leave_park = {}

LEMMA NextTold == TypeOK /\ NobodyCalled /\ NobodyTold /\ [Next]_vars => NobodyTold'
<1> SUFFICES ASSUME TypeOK, NobodyCalled, NobodyTold, [Next]_vars PROVE NobodyTold'
  OBVIOUS
<1> USE DEF NobodyTold, callVars, tourVars
<1>1. ASSUME NEW g \in Guides, GuideStep(g) PROVE NobodyTold'
  BY <1>1 DEF GuideStep, GuideCount, GuideLeaveTower, GuideNext, GuideLeaveNext
<1>2. ASSUME NEW x \in Visitors, MemberStep(x) \/ VipStep(x) PROVE NobodyTold'
  BY <1>2 DEF MemberStep, VipStep, Read, WakeUp, Join, Joined, CheckFirst, Awake, Pop, Climb,
              Arrive, Descend, Return, CheckIn
<1>3. CASE Arrivals
  BY <1>3 DEF Arrivals, GuideArrive, VipArrive
<1>4. CASE Calls
  <2>1. ~\E g \in Guides : GuideTold(g)
    BY DEF GuideTold, TypeOK, NobodyCalled
  <2>2. ~\E m \in Members : MemberTold(m)
    BY DEF MemberTold
  <2> QED BY <1>4, <2>1, <2>2 DEF Calls, Round
<1>5. CASE UNCHANGED vars
  BY <1>5 DEF vars
<1> QED BY <1>1, <1>2, <1>3, <1>4, <1>5 DEF Next, Visitors

LEMMA OnlyRoundCalls ==
    ASSUME TypeOK, NobodyCalled, NobodyTold, Calls
    PROVE  Round
BY DEF Calls, GuideTold, MemberTold, TypeOK, NobodyCalled, NobodyTold

(* A step of one visitor leaves everybody else's records alone. *)
LEMMA OthersStay ==
    ASSUME TypeOK, NEW x \in Visitors, MemberStep(x) \/ VipStep(x)
    PROVE  /\ \A y \in Guides \union Visitors : y # x => pc'[y] = pc[y]
           /\ \A y \in Visitors : y # x => status'[y] = status[y]
           /\ \A m \in Members : m # x => inbox'[m] = inbox[m]
           /\ checkins' = checkins
<1> USE DEF tourVars, Goto, Write, TypeOK
<1>1. CASE Read(x) \/ Climb(x) \/ Arrive(x) \/ Descend(x)
  BY <1>1 DEF Read, Climb, Arrive, Descend
<1>2. CASE WakeUp(x) \/ Join(x) \/ Joined(x) \/ CheckFirst(x) \/ Awake(x) \/ Pop(x)
  BY <1>2 DEF WakeUp, Join, Joined, CheckFirst, Awake, Pop
<1>3. CASE Return(x) \/ CheckIn(x)
  BY <1>3 DEF Return, CheckIn
<1> QED BY <1>1, <1>2, <1>3 DEF MemberStep, VipStep

----------------------------------------------------------------------------
(* The guide and its group *)

(* A member's place in its code, its status, its check-in and the place of *)
(* its guide go together.                                                  *)
InStep(m) ==
    /\ pc[m] \in InLine \union {"queueing", "excused"} => status[m] = "AT_TOWER_QUEUE"
    /\ pc[m] \in {"climbing", "up"} => status[m] = "GOING_UP_TOWER"
    /\ pc[m] = "watching" => status[m] = "AT_TOWER"
    /\ pc[m] = "descending" => status[m] = "GOING_DOWN_TOWER"
    /\ pc[m] = "crossing" => status[m] = "AT_BRIDGE"
    /\ pc[m] = "reporting" => status[m] = "FOLLOWING_GUIDE"
    /\ pc[m] = "waiting" => status[m] \in {"FOLLOWING_GUIDE", "AT_TOWER_QUEUE", "AT_BRIDGE"}
    /\ pc[m] \notin {"quitting", "elsewhere"}
    /\ inbox[m] = 0 \/ (inbox[m] = 1 /\ pc[m] \in AtRest /\ status[m] = "FOLLOWING_GUIDE")
    /\ pc[GuideOf[m]] \in {"home", "moving"} => Home(m)
    /\ pc[GuideOf[m]] = "at tower" => status[m] # "AT_BRIDGE"
    /\ pc[GuideOf[m]] = "at bridge" => status[m] \in {"AT_BRIDGE", "FOLLOWING_GUIDE"}

(* What a guide has counted at an attraction are the people that are back. *)
Back(g) == {m \in Group(g) : Home(m)}
CountExact ==
    \A g \in Guides : pc[g] \in {"at tower", "at bridge"} =>
        checkins[g] = Cardinality(PeopleOf(Back(g)))

GroupInv == (\A m \in Members : InStep(m)) /\ CountExact

LEMMA GuidesAndMembers ==
    /\ \A m \in Members : m \in Visitors /\ m \notin Guides /\ m \in Group(GuideOf[m])
                          /\ GuideOf[m] \in Guides /\ GuideOf[m] # m
    /\ \A g \in Guides : Group(g) \subseteq Members /\ \A m \in Group(g) : GuideOf[m] = g
    /\ \A v \in VIPs : v \in Visitors /\ v \notin Members /\ v \notin Guides
BY TowerConstants DEF Visitors, Group

(* As many check-ins as the group has people are the check-ins of all. *)
LEMMA AllBack ==
    ASSUME NEW g \in Guides, Cardinality(PeopleOf(Back(g))) >= visitors_in_group(g)
    PROVE  \A m \in Group(g) : Home(m)
<1>1. Back(g) \subseteq Group(g) /\ Group(g) \in SUBSET Visitors /\ Back(g) \in SUBSET Visitors
  BY DEF Back, Group, Visitors
<1>2. visitors_in_group(g) = Cardinality(PeopleOf(Group(g)))
  BY DEF visitors_in_group, PeopleOf
<1>3. PeopleOf(Back(g)) \in SUBSET PeopleOf(Group(g))
  BY <1>1 DEF PeopleOf
<1>4. /\ IsFiniteSet(PeopleOf(Group(g))) /\ Cardinality(PeopleOf(Group(g))) \in Nat
      /\ Cardinality(PeopleOf(Back(g))) \in Nat
  BY <1>1, PeopleFinite
<1>5. Cardinality(PeopleOf(Back(g))) <= Cardinality(PeopleOf(Group(g)))
  BY <1>3, <1>4, FS_Subset
<1>6. PeopleOf(Back(g)) = PeopleOf(Group(g))
  <2>1. Cardinality(PeopleOf(Group(g))) = Cardinality(PeopleOf(Back(g)))
    BY <1>2, <1>4, <1>5
  <2> QED BY <1>3, <1>4, <2>1, FS_Subset
<1> TAKE m \in Group(g)
<1>7. m \in Visitors /\ m \in PeopleOf(Group(g))
  BY <1>1, TowerConstants DEF PeopleOf
<1>8. PICK n \in Back(g) : m \in Family[n]
  BY <1>6, <1>7 DEF PeopleOf
<1>9. n = m
  BY <1>1, <1>7, <1>8, TowerConstants
<1> QED BY <1>8, <1>9 DEF Back

(* A step that leaves guides and members where they are. *)
LEMMA GroupFrame ==
    ASSUME GroupInv, UNCHANGED tourVars,
           \A g \in Guides : pc'[g] = pc[g],
           \A m \in Members : pc'[m] = pc[m] /\ status'[m] = status[m]
    PROVE  GroupInv'
<1> USE DEF tourVars
<1>1. \A m \in Members : (Home(m)' <=> Home(m)) /\ InStep(m)'
  <2> TAKE m \in Members
  <2>1. /\ pc'[m] = pc[m] /\ status'[m] = status[m] /\ inbox'[m] = inbox[m]
        /\ pc'[GuideOf[m]] = pc[GuideOf[m]] /\ InStep(m)
    BY GuidesAndMembers DEF GroupInv
  <2> QED BY <2>1 DEF InStep, Home
<1>2. \A g \in Guides : Back(g)' = Back(g)
  BY <1>1, GuidesAndMembers DEF Back
<1>3. CountExact'
  BY <1>2 DEF GroupInv, CountExact
<1> QED BY <1>1, <1>3 DEF GroupInv

LEMMA InitGroup == Init => GroupInv
<1> SUFFICES ASSUME Init PROVE GroupInv
  OBVIOUS
<1>1. \A g \in Guides : pc[g] = "home"
  BY DEF Init
<1>2. \A m \in Members : pc[m] = "reading" /\ status[m] = "FOLLOWING_GUIDE" /\ inbox[m] = 0
  BY GuidesAndMembers, TowerConstants DEF Init
<1> QED BY <1>1, <1>2, GuidesAndMembers DEF GroupInv, CountExact, InStep, Home, AtRest, InLine

LEMMA MemberGroup ==
    ASSUME TypeOK, NobodyTold, GroupInv, NEW m \in Members, MemberStep(m)
    PROVE  GroupInv'
<1> DEFINE g == GuideOf[m]
<1>0. /\ m \in Visitors /\ m \in Guides \union Visitors /\ g \in Guides /\ g # m
      /\ pc[m] \in VisitorStates /\ status[m] \in Statuses /\ inbox[m] \in Nat /\ InStep(m)
  BY GuidesAndMembers DEF TypeOK, GroupInv
<1>1. /\ \A h \in Guides : pc'[h] = pc[h]
      /\ \A n \in Members : n # m =>
            pc'[n] = pc[n] /\ status'[n] = status[n] /\ inbox'[n] = inbox[n]
      /\ checkins' = checkins
  BY <1>0, OthersStay, GuidesAndMembers
<1>2. InStep(m)' /\ (Home(m)' <=> Home(m))
  <2>0. pc'[g] = pc[g]
    BY <1>0, <1>1
  <2> HIDE DEF g
  <2> USE DEF Goto, Write, TypeOK, Home, AtRest, InLine, tourVars
  <2>1. CASE Read(m)
    BY <1>0, <2>0, <2>1 DEF Read, InStep, Statuses, g
  <2>2. CASE WakeUp(m) \/ Join(m) \/ CheckFirst(m)
    BY <1>0, <2>0, <2>2 DEF WakeUp, Join, CheckFirst, InStep, g
  <2>3. CASE Joined(m) \/ Awake(m)
    BY <1>0, <2>0, <2>3 DEF Joined, Awake, NobodyTold, InStep, g
  <2>4. CASE Pop(m)
    BY <1>0, <2>0, <2>4 DEF Pop, InStep, g
  <2>5. CASE Climb(m) \/ Arrive(m)
    BY <1>0, <2>0, <2>5 DEF Climb, Arrive, InStep, g
  <2>6. CASE Descend(m) \/ Return(m)
    <3>1. /\ pc[m] \in {"descending", "excused", "crossing"} /\ pc'[m] = "reporting"
          /\ status'[m] = "FOLLOWING_GUIDE" /\ inbox'[m] = inbox[m]
      BY <1>0, <2>6, GuidesAndMembers DEF Descend, Return
    <3> QED BY <1>0, <2>0, <3>1 DEF InStep, g
  <2>7. CASE CheckIn(m)
    <3>1. /\ pc[m] \in {"reporting", "quitting"} /\ status'[m] = status[m]
          /\ inbox'[m] = inbox[m] + 1
          /\ pc'[m] = IF pc[m] = "reporting" THEN "reading" ELSE "popping"
      BY <1>0, <2>7 DEF CheckIn
    <3>2. /\ pc[m] = "reporting" /\ status[m] = "FOLLOWING_GUIDE" /\ inbox[m] = 0
          /\ pc[g] \notin {"home", "moving"}
      BY <1>0, <3>1 DEF InStep, g
    <3>3. inbox'[m] = 1 /\ pc'[m] = "reading" /\ status'[m] = "FOLLOWING_GUIDE"
      BY <3>1, <3>2
    <3> QED BY <2>0, <3>2, <3>3 DEF InStep, g
  <2> QED BY <2>1, <2>2, <2>3, <2>4, <2>5, <2>6, <2>7 DEF MemberStep
<1>3. \A n \in Members : InStep(n)' /\ (Home(n)' <=> Home(n))
  <2> TAKE n \in Members
  <2>1. CASE n # m
    <3>1. InStep(n) /\ pc'[GuideOf[n]] = pc[GuideOf[n]]
      BY <1>1, GuidesAndMembers DEF GroupInv
    <3> QED BY <1>1, <2>1, <3>1 DEF InStep, Home
  <2> QED BY <1>2, <2>1
<1>4. \A h \in Guides : Back(h)' = Back(h)
  BY <1>3, GuidesAndMembers DEF Back
<1>5. CountExact'
  BY <1>1, <1>4 DEF GroupInv, CountExact
<1> QED BY <1>3, <1>5 DEF GroupInv
(* A guide writes the status of its group once everybody is back. *)
LEMMA SendGroup ==
    ASSUME TypeOK, GroupInv, NEW g \in Guides, NEW s \in {"AT_TOWER_QUEUE", "AT_BRIDGE"}, Send(g, s),
           \A m \in Group(g) : Home(m) /\ pc'[m] \in AtRest,
           \A m \in Members : m \notin Group(g) => pc'[m] = pc[m],
           pc'[g] = IF s = "AT_BRIDGE" THEN "at bridge" ELSE "at tower",
           \A h \in Guides : h # g => pc'[h] = pc[h],
           inbox' = inbox, checkins' = [checkins EXCEPT ![g] = 0]
    PROVE  GroupInv'
<1>1. \A m \in Members : status'[m] = IF m \in Group(g) THEN s ELSE status[m]
  BY GuidesAndMembers DEF Send
<1>2. \A m \in Members : m \in Group(g) => InStep(m)' /\ ~Home(m)'
  <2> SUFFICES ASSUME NEW m \in Members, m \in Group(g) PROVE InStep(m)' /\ ~Home(m)'
    OBVIOUS
  <2>1. /\ pc'[m] \in AtRest /\ status'[m] = s /\ inbox'[m] = 0 /\ GuideOf[m] = g
    BY <1>1, GuidesAndMembers DEF Home
  <2> QED BY <2>1 DEF InStep, Home, AtRest, InLine
<1>3. \A m \in Members : m \notin Group(g) => InStep(m)' /\ (Home(m)' <=> Home(m))
  <2> SUFFICES ASSUME NEW m \in Members, m \notin Group(g) PROVE InStep(m)' /\ (Home(m)' <=> Home(m))
    OBVIOUS
  <2>1. /\ pc'[m] = pc[m] /\ status'[m] = status[m] /\ inbox'[m] = inbox[m]
        /\ pc'[GuideOf[m]] = pc[GuideOf[m]] /\ InStep(m)
    BY <1>1, GuidesAndMembers DEF GroupInv, Group
  <2> QED BY <2>1 DEF InStep, Home
<1>4. Back(g)' = {}
  BY <1>2, GuidesAndMembers DEF Back
<1>5. Cardinality(PeopleOf(Back(g)')) = 0
  BY <1>4, FS_EmptySet DEF PeopleOf
<1>6. \A h \in Guides : h # g => Back(h)' = Back(h)
  <2> SUFFICES ASSUME NEW h \in Guides, h # g PROVE Back(h)' = Back(h)
    OBVIOUS
  <2>1. \A m \in Group(h) : m \in Members /\ m \notin Group(g)
    BY DEF Group
  <2>2. \A m \in Group(h) : Home(m)' <=> Home(m)
    BY <1>3, <2>1
  <2> QED BY <2>2 DEF Back
<1>7. \A h \in Guides : checkins'[h] = IF h = g THEN 0 ELSE checkins[h]
  BY DEF TypeOK
<1>8. CountExact'
  <2> SUFFICES ASSUME NEW h \in Guides, pc'[h] \in {"at tower", "at bridge"}
               PROVE  checkins'[h] = Cardinality(PeopleOf(Back(h)'))
    BY DEF CountExact
  <2>1. CASE h = g
    BY <1>5, <1>7, <2>1
  <2>2. CASE h # g
    <3>1. checkins[h] = Cardinality(PeopleOf(Back(h)))
      BY <2>2 DEF GroupInv, CountExact
    <3> QED BY <1>6, <1>7, <2>2, <3>1
  <2> QED BY <2>1, <2>2
<1> QED BY <1>2, <1>3, <1>8 DEF GroupInv

LEMMA GuideGroup ==
    ASSUME TypeOK, NobodyTold, GroupInv, NEW g \in Guides, GuideStep(g)
    PROVE  GroupInv'
<1>0. g \in Guides \union Visitors /\ \A m \in Members : m \in Guides \union Visitors /\ m # g
  BY GuidesAndMembers
<1>1. CASE GuideCount(g)
  <2>1. PICK m \in Group(g) :
           /\ inbox[m] > 0
           /\ inbox' = [inbox EXCEPT ![m] = @ - 1]
           /\ checkins' = [checkins EXCEPT ![g] = @ + Seats(m)]
    BY <1>1 DEF GuideCount
  <2>0. m \in Members /\ m \in Visitors
    BY <2>1, GuidesAndMembers
  <2>2. /\ pc' = pc /\ status' = status
        /\ pc[g] \in {"at tower", "at bridge"}
        /\ \A n \in Members : n # m => inbox'[n] = inbox[n]
        /\ \A h \in Guides : checkins'[h] = IF h = g THEN checkins[h] + Seats(m) ELSE checkins[h]
    BY <1>1, <2>0, <2>1 DEF GuideCount, TypeOK
  <2>3. inbox[m] = 1 /\ inbox'[m] = 0 /\ pc[m] \in AtRest /\ status[m] = "FOLLOWING_GUIDE"
    <3>1. InStep(m) /\ inbox[m] \in Nat /\ inbox'[m] = inbox[m] - 1
      BY <2>0, <2>1 DEF GroupInv, TypeOK
    <3>2. inbox[m] # 0
      BY <2>1
    <3>3. inbox[m] = 1 /\ pc[m] \in AtRest /\ status[m] = "FOLLOWING_GUIDE"
      BY <3>1, <3>2 DEF InStep
    <3> QED BY <3>1, <3>3
  <2>4. ~Home(m) /\ Home(m)' /\ \A n \in Members : n # m => (Home(n)' <=> Home(n))
    <3>1. ~Home(m)
      BY <2>3 DEF Home
    <3> QED BY <2>2, <2>3, <3>1 DEF Home
  <2>5. \A n \in Members : InStep(n)'
    <3> TAKE n \in Members
    <3>1. InStep(n)
      BY DEF GroupInv
    <3>2. CASE n = m
      BY <2>2, <2>3, <2>4, <3>1, <3>2 DEF InStep
    <3>3. CASE n # m
      BY <2>2, <2>4, <3>1, <3>3 DEF InStep
    <3> QED BY <3>2, <3>3
  <2>6. Back(g)' = Back(g) \union {m} /\ m \notin Back(g) /\ Back(g) \in SUBSET Visitors
    <3>1. Group(g) \subseteq Members /\ Members \subseteq Visitors
      BY GuidesAndMembers
    <3> QED BY <2>1, <2>4, <3>1 DEF Back
  <2>7. \A h \in Guides : h # g => Back(h)' = Back(h)
    <3> SUFFICES ASSUME NEW h \in Guides, h # g PROVE Back(h)' = Back(h)
      OBVIOUS
    <3>1. Group(h) \subseteq Members /\ m \notin Group(h)
      BY <2>1, GuidesAndMembers
    <3> QED BY <2>4, <3>1 DEF Back
  <2>8. Cardinality(PeopleOf(Back(g)')) = Cardinality(PeopleOf(Back(g))) + Seats(m)
    BY <2>0, <2>6, PeopleAdd
  <2>9. CountExact'
    <3> SUFFICES ASSUME NEW h \in Guides, pc'[h] \in {"at tower", "at bridge"}
                 PROVE  checkins'[h] = Cardinality(PeopleOf(Back(h)'))
      BY DEF CountExact
    <3>1. checkins[h] = Cardinality(PeopleOf(Back(h)))
      BY <2>2 DEF GroupInv, CountExact
    <3> QED BY <2>2, <2>7, <2>8, <3>1
  <2> QED BY <2>5, <2>9 DEF GroupInv
<1>2. CASE GuideLeaveTower(g) \/ GuideLeaveNext(g)
  <2>1. /\ pc[g] \in {"at tower", "at bridge"} /\ pc'[g] \in {"moving", "home"}
        /\ \A h \in Guides : h # g => pc'[h] = pc[h]
        /\ \A m \in Members : pc'[m] = pc[m]
        /\ checkins[g] >= visitors_in_group(g)
        /\ UNCHANGED << status, tourVars >>
    BY <1>0, <1>2 DEF GuideLeaveTower, GuideLeaveNext, NobodyTold, Goto, TypeOK
  <2>2. \A m \in Group(g) : Home(m)
    BY <2>1, AllBack DEF GroupInv, CountExact
  <2>3. \A m \in Members : Home(m)' <=> Home(m)
    BY <2>1 DEF Home, tourVars
  <2>4. \A m \in Members : InStep(m)'
    <3> TAKE m \in Members
    <3>1. InStep(m) /\ pc'[m] = pc[m] /\ status'[m] = status[m] /\ inbox'[m] = inbox[m]
      BY <2>1 DEF GroupInv, tourVars
    <3>2. CASE GuideOf[m] = g
      <4>1. Home(m)
        BY <2>2, <3>2, GuidesAndMembers
      <4> QED BY <2>1, <2>3, <3>1, <3>2, <4>1 DEF InStep
    <3>3. CASE GuideOf[m] # g
      <4>1. pc'[GuideOf[m]] = pc[GuideOf[m]]
        BY <2>1, <3>3, GuidesAndMembers
      <4> QED BY <2>3, <3>1, <4>1 DEF InStep
    <3> QED BY <3>2, <3>3
  <2>5. \A h \in Guides : Back(h)' = Back(h)
    BY <2>3, GuidesAndMembers DEF Back
  <2>6. CountExact'
    BY <2>1, <2>5 DEF GroupInv, CountExact, tourVars
  <2> QED BY <2>4, <2>6 DEF GroupInv
<1>3. CASE GuideNext(g)
  <2>1. /\ pc[g] = "moving" /\ pc'[g] = "at bridge"
        /\ \A h \in Guides : h # g => pc'[h] = pc[h]
        /\ \A m \in Members : pc'[m] = pc[m]
    BY <1>0, <1>3 DEF GuideNext, Goto, TypeOK
  <2>2. \A m \in Group(g) : Home(m) /\ pc'[m] \in AtRest
    <3> TAKE m \in Group(g)
    <3>1. m \in Members /\ GuideOf[m] = g
      BY GuidesAndMembers
    <3>2. InStep(m) /\ pc'[m] = pc[m]
      BY <2>1, <3>1 DEF GroupInv
    <3> QED BY <2>1, <3>1, <3>2 DEF InStep, Home
  <2>3. /\ Send(g, "AT_BRIDGE") /\ inbox' = inbox
        /\ checkins' = [checkins EXCEPT ![g] = 0]
    BY <1>3 DEF GuideNext
  <2> QED BY <2>1, <2>2, <2>3, SendGroup
<1> QED BY <1>1, <1>2, <1>3 DEF GuideStep

LEMMA NextGroup == TypeOK /\ NobodyCalled /\ NobodyTold /\ GroupInv /\ [Next]_vars => GroupInv'
<1> SUFFICES ASSUME TypeOK, NobodyCalled, NobodyTold, GroupInv, [Next]_vars PROVE GroupInv'
  OBVIOUS
<1>1. ASSUME NEW v \in VIPs, VipStep(v) PROVE GroupInv'
  <2>1. /\ \A g \in Guides : pc'[g] = pc[g]
        /\ \A m \in Members : pc'[m] = pc[m] /\ status'[m] = status[m]
    BY <1>1, OthersStay, GuidesAndMembers
  <2>2. UNCHANGED tourVars
    BY <1>1 DEF VipStep, Read, Climb, Arrive, Descend
  <2> QED BY <2>1, <2>2, GroupFrame
<1>2. ASSUME NEW g \in Guides, GuideArrive(g) PROVE GroupInv'
  <2>1. /\ \A m \in Group(g) : m \in Visitors /\ m # g
        /\ \A m \in Members : m \in Visitors /\ m # g
        /\ \A h \in Guides : h \notin Group(g)
    BY GuidesAndMembers
  <2>2. /\ \A m \in Group(g) : Home(m) /\ pc'[m] \in AtRest
        /\ \A m \in Members : m \notin Group(g) => pc'[m] = pc[m]
        /\ pc'[g] = "at tower"
        /\ \A h \in Guides : h # g => pc'[h] = pc[h]
    BY <1>2, <2>1 DEF GuideArrive, AtRest
  <2>3. /\ Send(g, "AT_TOWER_QUEUE") /\ inbox' = inbox
        /\ checkins' = [checkins EXCEPT ![g] = 0]
    BY <1>2 DEF GuideArrive
  <2> QED BY <2>2, <2>3, SendGroup
<1>3. ASSUME NEW v \in VIPs, VipArrive(v) PROVE GroupInv'
  <2>1. /\ \A g \in Guides : pc'[g] = pc[g]
        /\ \A m \in Members : pc'[m] = pc[m] /\ status'[m] = status[m]
    BY <1>3, GuidesAndMembers DEF VipArrive, Goto, Write, TypeOK
  <2> QED BY <1>3, <2>1, GroupFrame DEF VipArrive
<1>4. CASE Calls \/ UNCHANGED vars
  BY <1>4, OnlyRoundCalls, GroupFrame DEF Round, vars
<1> QED BY <1>1, <1>2, <1>3, <1>4, GuideGroup, MemberGroup DEF Next, Arrivals

GroupKept == TypeOK /\ NobodyTold /\ GroupInv

LEMMA GroupHolds == ASSUME NobodyCalled PROVE Spec => []GroupKept
<1>1. Init => GroupKept
  <2>1. Init => NobodyTold
    BY DEF Init, NobodyTold
  <2> QED BY <2>1, InitTypes, InitGroup DEF GroupKept
<1>2. GroupKept /\ [Next]_vars => GroupKept'
  BY NextTypes, NextTold, NextGroup DEF GroupKept
<1> QED BY <1>1, <1>2, PTL DEF Spec

(* Where no group is called down, a guide stays at the tower while a       *)
(* member of its group queues, climbs, watches or comes down: for any      *)
(* groups and families.                                                    *)
THEOREM TowerGuideWaits == ASSUME NobodyCalled PROVE Spec => []GuideWaits
<1>1. GroupKept => GuideWaits
  <2> SUFFICES ASSUME GroupKept, NEW m \in Members,
                      m \in OnTower \/ pc[m] \in InLine \union {"climbing", "quitting"}
               PROVE  pc[GuideOf[m]] = "at tower"
    BY DEF GuideWaits
  <2>1. InStep(m) /\ pc[GuideOf[m]] \in GuideStates
    BY GuidesAndMembers DEF GroupKept, GroupInv, TypeOK
  <2>2. status[m] \in {"AT_TOWER_QUEUE", "GOING_UP_TOWER", "AT_TOWER", "GOING_DOWN_TOWER"}
    BY <2>1 DEF InStep, OnTower, Aloft
  <2> QED BY <2>1, <2>2 DEF InStep, Home, GuideStates
<1> QED BY <1>1, GroupHolds, PTL

LEMMA KeptCheckedIn == GroupKept => CheckedInOnce
<1> HAVE GroupKept
<1>1. \A m \in Members : inbox[m] <= 1
  <2> TAKE m \in Members
  <2>1. InStep(m)
    BY DEF GroupKept, GroupInv
  <2>2. inbox[m] \in {0, 1}
    BY <2>1 DEF InStep
  <2> QED BY <2>2
<1>2. \A g \in Guides : Group(g) \subseteq Members
  BY GuidesAndMembers
<1>3. \A g \in Guides : pc[g] = "at tower" => checkins[g] = Cardinality(PeopleOf(Back(g)))
  BY DEF GroupKept, GroupInv, CountExact
<1> QED BY <1>1, <1>2, <1>3 DEF CheckedInOnce, PeopleOf, Back

(* Where no group is called down, each member checks in once and the guide *)
(* counts it once, with its kids: a guide at the tower has counted exactly *)
(* the people that are back, for any groups and families.                  *)
THEOREM TowerCheckedInOnce == ASSUME NobodyCalled PROVE Spec => []CheckedInOnce
BY KeptCheckedIn, GroupHolds, PTL

----------------------------------------------------------------------------
(* No place is lost *)

LEMMA InitNoPlaceLost == Init => NoPlaceLost
<1> SUFFICES ASSUME Init PROVE NoPlaceLost
  OBVIOUS
<1>1. OnTower = {}
  BY TowerConstants DEF Init, OnTower, Aloft, Visitors
<1>2. Cardinality(PeopleOf(OnTower)) = 0
  BY <1>1, FS_EmptySet DEF PeopleOf
<1> QED BY <1>2, TowerConstants DEF Init, NoPlaceLost, PeopleOf

LEMMA SamePlaces ==
    ASSUME NoPlaceLost, sem' = sem, OnTower' = OnTower
    PROVE  NoPlaceLost'
BY DEF NoPlaceLost

LEMMA VisitorLosesNone ==
    ASSUME TypeOK, Grounded, NoPlaceLost, NEW x \in Visitors, MemberStep(x) \/ VipStep(x)
    PROVE  NoPlaceLost'
<1>0. x \in Guides \union Visitors /\ status[x] \in Statuses
  BY DEF TypeOK
<1>1. CASE Climb(x)
  <2>1. /\ Cardinality(PeopleOf(OnTower)') = Cardinality(PeopleOf(OnTower)) + Seats(x)
        /\ Cardinality(PeopleOf(OnTower)) \in Nat /\ Seats(x) \in Nat /\ sem' = sem - Seats(x)
    BY <1>1, ClimbAdds
  <2>2. sem + Cardinality(PeopleOf(OnTower)) = TowerLimit
    BY DEF NoPlaceLost, PeopleOf
  <2>3. sem' + Cardinality(PeopleOf(OnTower)') = TowerLimit
    BY <2>1, <2>2, TowerConstants DEF TypeOK
  <2> QED BY <2>3 DEF NoPlaceLost, PeopleOf
<1>2. CASE Descend(x)
  <2>1. /\ Cardinality(PeopleOf(OnTower)) = Cardinality(PeopleOf(OnTower)') + Seats(x)
        /\ Cardinality(PeopleOf(OnTower)') \in Nat /\ Seats(x) \in Nat /\ sem' = sem + Seats(x)
    BY <1>2, DescendRemoves
  <2>2. sem + Cardinality(PeopleOf(OnTower)) = TowerLimit
    BY DEF NoPlaceLost, PeopleOf
  <2>3. sem' + Cardinality(PeopleOf(OnTower)') = TowerLimit
    BY <2>1, <2>2, TowerConstants DEF TypeOK
  <2> QED BY <2>3 DEF NoPlaceLost, PeopleOf
<1>3. CASE ~Climb(x) /\ ~Descend(x)
  <2>1. /\ sem' = sem
        /\ \A y \in Visitors : y # x => pc'[y] = pc[y] /\ status'[y] = status[y]
    <3>1. sem' = sem
      BY <1>3 DEF MemberStep, VipStep, Read, WakeUp, Join, Joined, CheckFirst, Awake, Pop,
                  Arrive, Return, CheckIn
    <3> QED BY <3>1, OthersStay
  <2>2. x \in OnTower' <=> x \in OnTower
    <3> USE DEF Goto, Write, TypeOK, OnTower, Aloft
    <3>1. CASE Read(x)
      BY <1>0, <3>1 DEF Read, Statuses
    <3>2. CASE Arrive(x)
      BY <1>0, <3>2 DEF Arrive
    <3>3. CASE WakeUp(x) \/ CheckIn(x)
      <4>1. /\ status' = status
            /\ pc[x] \in {"waiting", "asleep", "reporting", "quitting"}
            /\ pc'[x] \in {"reading", "awake", "popping"}
        BY <1>0, <3>3 DEF WakeUp, CheckIn
      <4> QED BY <4>1 DEF Grounded
    <3>4. CASE Join(x) \/ Joined(x) \/ CheckFirst(x) \/ Awake(x) \/ Pop(x) \/ Return(x)
      <4>1. /\ pc[x] \notin Aloft \union {"reading"}
            /\ pc'[x] \notin Aloft
        BY <1>0, <3>4 DEF Join, Joined, CheckFirst, Awake, Pop, Return
      <4>2. pc'[x] = "reading" => status'[x] = "GOING_UP_TOWER"
        BY <1>0, <3>4 DEF Join, Joined, CheckFirst, Awake, Pop, Return
      <4> QED BY <4>1, <4>2
    <3> QED BY <1>3, <3>1, <3>2, <3>3, <3>4 DEF MemberStep, VipStep
  <2>3. OnTower' = OnTower
    BY <2>1, <2>2 DEF OnTower
  <2> QED BY <2>1, <2>3, SamePlaces
<1> QED BY <1>1, <1>2, <1>3

(* A guide writes the status of its group when everybody in it is home. *)
LEMMA SendKeepsPlaces ==
    ASSUME NEW g \in Guides, NEW s \in {"AT_TOWER_QUEUE", "AT_BRIDGE"}, Send(g, s),
           \A m \in Group(g) : Home(m) /\ pc'[m] \in AtRest,
           \A x \in Visitors : x \notin Group(g) => pc'[x] = pc[x]
    PROVE  OnTower' = OnTower
<1>1. \A x \in Visitors : status'[x] = IF x \in Group(g) THEN s ELSE status[x]
  BY DEF Send
<1>2. \A x \in Visitors : x \in OnTower' <=> x \in OnTower
  <2> TAKE x \in Visitors
  <2>1. CASE x \in Group(g)
    <3>1. /\ pc[x] \in AtRest /\ status[x] = "FOLLOWING_GUIDE"
          /\ pc'[x] \in AtRest /\ status'[x] = s
      BY <1>1, <2>1 DEF Home
    <3> QED BY <3>1 DEF OnTower, Aloft, AtRest
  <2>2. CASE x \notin Group(g)
    BY <1>1, <2>2 DEF OnTower
  <2> QED BY <2>1, <2>2
<1> QED BY <1>2 DEF OnTower

LEMMA NextNoPlaceLost ==
    TypeOK /\ NobodyCalled /\ NobodyTold /\ Grounded /\ GroupInv /\ NoPlaceLost /\ [Next]_vars
        => NoPlaceLost'
<1> SUFFICES ASSUME TypeOK, NobodyCalled, NobodyTold, Grounded, GroupInv, NoPlaceLost, [Next]_vars
             PROVE  NoPlaceLost'
  OBVIOUS
<1>0. \A x \in Visitors : x \in Guides \union Visitors /\ x \notin Guides
  BY TowerConstants
<1>1. ASSUME NEW x \in Visitors, MemberStep(x) \/ VipStep(x) PROVE NoPlaceLost'
  BY <1>1, VisitorLosesNone
<1>2. ASSUME NEW g \in Guides, GuideCount(g) \/ GuideLeaveTower(g) \/ GuideLeaveNext(g)
      PROVE  NoPlaceLost'
  <2>1. sem' = sem /\ status' = status /\ \A x \in Visitors : pc'[x] = pc[x]
    BY <1>0, <1>2 DEF GuideCount, GuideLeaveTower, GuideLeaveNext, Goto, TypeOK
  <2>2. OnTower' = OnTower
    BY <2>1 DEF OnTower
  <2> QED BY <2>1, <2>2, SamePlaces
<1>3. ASSUME NEW g \in Guides, GuideNext(g) PROVE NoPlaceLost'
  <2>1. pc[g] = "moving" /\ \A x \in Visitors : pc'[x] = pc[x]
    BY <1>0, <1>3 DEF GuideNext, Goto, TypeOK
  <2>2. \A m \in Group(g) : Home(m) /\ pc'[m] \in AtRest
    <3> TAKE m \in Group(g)
    <3>1. InStep(m) /\ pc[GuideOf[m]] = "moving" /\ pc'[m] = pc[m]
      BY <2>1, GuidesAndMembers DEF GroupInv
    <3> QED BY <3>1 DEF InStep, Home
  <2>3. Send(g, "AT_BRIDGE") /\ sem' = sem
    BY <1>3 DEF GuideNext
  <2> QED BY <2>1, <2>2, <2>3, SendKeepsPlaces, SamePlaces
<1>4. ASSUME NEW g \in Guides, GuideArrive(g) PROVE NoPlaceLost'
  <2>1. /\ \A m \in Group(g) : m \in Visitors /\ m \notin Guides
        /\ Send(g, "AT_TOWER_QUEUE") /\ sem' = sem
    BY <1>4, GuidesAndMembers DEF GuideArrive
  <2>2. /\ \A m \in Group(g) : Home(m) /\ pc'[m] \in AtRest
        /\ \A x \in Visitors : x \notin Group(g) => pc'[x] = pc[x]
    BY <1>0, <1>4, <2>1 DEF GuideArrive, AtRest
  <2> QED BY <2>1, <2>2, SendKeepsPlaces, SamePlaces
<1>5. ASSUME NEW v \in VIPs, VipArrive(v) PROVE NoPlaceLost'
  <2>1. /\ v \in Visitors /\ sem' = sem
        /\ \A y \in Visitors : y # v => pc'[y] = pc[y] /\ status'[y] = status[y]
        /\ pc[v] = "elsewhere" /\ pc'[v] = "reading" /\ status'[v] = "GOING_UP_TOWER"
    BY <1>0, <1>5, GuidesAndMembers DEF VipArrive, Goto, Write, TypeOK
  <2>2. OnTower' = OnTower
    BY <2>1 DEF OnTower, Aloft
  <2> QED BY <2>1, <2>2, SamePlaces
<1>6. CASE Calls \/ UNCHANGED vars
  <2>1. sem' = sem /\ OnTower' = OnTower
    BY <1>6, OnlyRoundCalls DEF Round, vars, OnTower
  <2> QED BY <2>1, SamePlaces
<1> QED BY <1>1, <1>2, <1>3, <1>4, <1>5, <1>6 DEF Next, GuideStep, Arrivals, Visitors

(* Where no group is called down, a place that is taken has somebody on    *)
(* it: SEM_TOWER and the people on the tower always make TOWER_LIMIT, for  *)
(* any families and any limit.                                             *)
THEOREM TowerLosesNoPlace == ASSUME NobodyCalled PROVE Spec => []NoPlaceLost
<1> DEFINE Inv == Grounded /\ NoPlaceLost
<1>1. Init => Inv
  BY InitGrounded, InitNoPlaceLost
<1>2. GroupKept /\ Inv /\ [Next]_vars => Inv'
  BY NextGrounded, NextNoPlaceLost DEF GroupKept
<1>3. Inv => NoPlaceLost
  OBVIOUS
<1> HIDE DEF Inv
<1> QED BY <1>1, <1>2, <1>3, GroupHolds, PTL DEF Spec

----------------------------------------------------------------------------
(* The queue and its wake-ups *)

(* The queue of VISITORS_LIMIT places has one for every member.            *)
QueueHasRoom == Cardinality(Members) <= Capacity

PoppingFirst ==
    \A m \in Members : pc[m] = "popping" => tower_queue # << >> /\ Head(tower_queue) = m

QueueInv ==
    /\ Entries(tower_queue) = {m \in Members : pc[m] \in InLine}
    /\ OnceEach(tower_queue)
    /\ PoppingFirst
    /\ NoLostWakeup

(* A step that leaves the queue, and who is in it, alone. *)
LEMMA QueueFrame ==
    ASSUME QueueInv, tower_queue' = tower_queue,
           \A m \in Members :
               /\ pc'[m] \in InLine <=> pc[m] \in InLine
               /\ pc'[m] = "popping" => pc[m] = "popping"
               /\ pc'[m] = "asleep" => pc[m] = "asleep" /\ (m \in wake => m \in wake'),
           TypeOK
    PROVE  QueueInv'
<1>1. Entries(tower_queue)' = {m \in Members : pc'[m] \in InLine} /\ OnceEach(tower_queue)'
  BY DEF QueueInv
<1>2. PoppingFirst'
  BY DEF QueueInv, PoppingFirst
<1>3. NoLostWakeup'
  <2>1. First(tower_queue) \subseteq Members /\ First(tower_queue)' = First(tower_queue)
    BY FirstIsMember DEF TypeOK, First
  <2> QED BY <2>1 DEF QueueInv, NoLostWakeup
<1> QED BY <1>1, <1>2, <1>3 DEF QueueInv

LEMMA JoinQueue ==
    ASSUME TypeOK, QueueHasRoom, QueueInv, NEW m \in Members, Join(m)
    PROVE  QueueInv'
<1>0. /\ m \in Guides \union Visitors /\ tower_queue \in Seq(Members)
      /\ pc[m] = "queueing" /\ pc'[m] = "joined" /\ wake' = wake
      /\ \A n \in Members : n # m => pc'[n] = pc[n]
  BY DEF Join, Goto, TypeOK, Visitors
<1>1. m \notin Entries(tower_queue)
  BY <1>0 DEF QueueInv, InLine
<1>2. Len(tower_queue) < Capacity
  <2>1. IsFiniteSet(Members) /\ Cardinality(Members) \in Nat
    BY TowerConstants, FS_Subset, FS_CardinalityType DEF Visitors
  <2>2. m \in Members /\ Len(tower_queue) < Cardinality(Members) /\ Len(tower_queue) \in Nat
    BY <1>0, <1>1, <2>1, QueueTakesOneMore DEF QueueInv
  <2> QED BY <2>1, <2>2, TowerConstants DEF QueueHasRoom
<1>3. tower_queue' = Append(tower_queue, m)
  BY <1>2 DEF Join
<1>4. Entries(tower_queue)' = {n \in Members : pc'[n] \in InLine}
  <2>1. Entries(tower_queue)' = Entries(tower_queue) \union {m}
    BY <1>0, <1>3, AppendEntries
  <2>2. pc'[m] \in InLine
    BY <1>0 DEF InLine
  <2> QED BY <1>0, <1>1, <2>1, <2>2 DEF QueueInv
<1>5. OnceEach(tower_queue)'
  <2>1. \A x \in Entries(tower_queue) \union {m} : Once(x, tower_queue)
    BY <1>1, OnceEachIsOnce DEF QueueInv, Once, Entries
  <2>2. \A x \in Entries(tower_queue') : Once(x, tower_queue')
    BY <1>0, <1>1, <1>3, <2>1, AppendEntries
  <2> QED BY <2>2, OnceEachIsOnce
<1>6. tower_queue' # << >> /\ Head(tower_queue') = IF tower_queue = << >> THEN m ELSE Head(tower_queue)
  BY <1>0, <1>3, AppendEntries
<1>7. PoppingFirst'
  BY <1>0, <1>6 DEF QueueInv, PoppingFirst
<1>8. NoLostWakeup'
  <2>1. First(tower_queue) \subseteq Members
    BY FirstIsMember DEF TypeOK
  <2> QED BY <1>0, <1>6, <2>1 DEF QueueInv, NoLostWakeup, First
<1> QED BY <1>4, <1>5, <1>7, <1>8 DEF QueueInv

LEMMA CheckFirstQueue ==
    ASSUME TypeOK, QueueInv, NEW m \in Members, CheckFirst(m)
    PROVE  QueueInv'
<1>0. /\ m \in Guides \union Visitors /\ tower_queue \in Seq(Members)
      /\ pc[m] = "queued" /\ pc'[m] \in {"popping", "asleep"} /\ tower_queue' = tower_queue
      /\ \A n \in Members : n # m => pc'[n] = pc[n]
  BY DEF CheckFirst, Goto, TypeOK, Visitors
<1>1. tower_queue # << >> /\ Head(tower_queue) \in Members
  <2>1. m \in Entries(tower_queue)
    BY <1>0 DEF QueueInv, InLine
  <2> QED BY <1>0, <2>1, EntryOfNonempty, HeadIsEntry
<1>2. IF Head(tower_queue) = m
        THEN pc'[m] = "popping" /\ wake' = wake
        ELSE pc'[m] = "asleep" /\ wake' = wake \union {Head(tower_queue)}
  BY <1>0, <1>1 DEF CheckFirst, First, Goto, TypeOK
<1>3. Entries(tower_queue)' = {n \in Members : pc'[n] \in InLine} /\ OnceEach(tower_queue)'
  BY <1>0 DEF QueueInv, InLine
<1>4. PoppingFirst'
  BY <1>0, <1>1, <1>2 DEF QueueInv, PoppingFirst
<1>5. NoLostWakeup'
  BY <1>0, <1>1, <1>2 DEF QueueInv, NoLostWakeup, First
<1> QED BY <1>3, <1>4, <1>5 DEF QueueInv

LEMMA PopQueue ==
    ASSUME TypeOK, QueueInv, NEW m \in Members, Pop(m)
    PROVE  QueueInv'
<1>0. /\ m \in Guides \union Visitors /\ tower_queue \in Seq(Members)
      /\ pc[m] = "popping" /\ pc'[m] = "reading"
      /\ \A n \in Members : n # m => pc'[n] = pc[n]
  BY DEF Pop, Goto, TypeOK, Visitors
<1>1. /\ tower_queue # << >> /\ Head(tower_queue) = m /\ tower_queue' = Tail(tower_queue)
      /\ wake' = wake \union First(tower_queue')
  BY <1>0 DEF QueueInv, PoppingFirst, Pop
<1>2. Entries(tower_queue)' = Entries(tower_queue) \ {m}
  <2>1. Once(m, tower_queue)
    BY DEF QueueInv, OnceEach, Once
  <2>2. /\ Entries(Tail(tower_queue)) \subseteq Entries(tower_queue)
        /\ \A x \in Entries(tower_queue) : x # m => x \in Entries(Tail(tower_queue))
        /\ m \notin Entries(Tail(tower_queue))
    BY <1>0, <1>1, <2>1, TailEntries
  <2>3. Entries(tower_queue)' = Entries(Tail(tower_queue))
    BY <1>1
  <2> QED BY <2>2, <2>3
<1>3. Entries(tower_queue)' = {n \in Members : pc'[n] \in InLine}
  <2>1. pc'[m] \notin InLine
    BY <1>0 DEF InLine
  <2> QED BY <1>0, <1>2, <2>1 DEF QueueInv
<1>4. OnceEach(tower_queue)'
  <2>1. \A x \in Entries(tower_queue) : Once(x, tower_queue)
    BY OnceEachIsOnce DEF QueueInv
  <2>2. \A x \in Entries(tower_queue') : Once(x, tower_queue')
    BY <1>0, <1>1, <1>2, <2>1, TailEntries
  <2> QED BY <2>2, OnceEachIsOnce
<1>5. PoppingFirst'
  BY <1>0, <1>1 DEF QueueInv, PoppingFirst
<1>6. NoLostWakeup'
  BY <1>1 DEF NoLostWakeup
<1> QED BY <1>3, <1>4, <1>5, <1>6 DEF QueueInv

LEMMA MemberQueue ==
    ASSUME TypeOK, NobodyTold, QueueHasRoom, GroupInv, QueueInv, NEW m \in Members, MemberStep(m)
    PROVE  QueueInv'
<1>0. m \in Visitors /\ m \in Guides \union Visitors /\ status[m] \in Statuses /\ InStep(m)
  BY GuidesAndMembers DEF TypeOK, GroupInv
<1>1. \A n \in Members : n # m => pc'[n] = pc[n]
  BY <1>0, OthersStay, GuidesAndMembers
<1>2. CASE Join(m) \/ CheckFirst(m) \/ Pop(m)
  BY <1>2, JoinQueue, CheckFirstQueue, PopQueue
<1>3. CASE WakeUp(m)
  <2>1. /\ tower_queue' = tower_queue /\ wake' = wake \ {m}
        /\ \/ pc[m] = "waiting" /\ pc'[m] = "reading"
           \/ pc[m] = "asleep" /\ pc'[m] = "awake"
    BY <1>0, <1>3 DEF WakeUp, Goto, TypeOK
  <2> QED BY <1>1, <2>1, QueueFrame DEF InLine
<1>4. CASE Joined(m) \/ Awake(m)
  <2>1. /\ tower_queue' = tower_queue /\ wake' = wake
        /\ pc[m] \in {"joined", "awake"} /\ pc'[m] = "queued"
    BY <1>0, <1>4 DEF Joined, Awake, Goto, TypeOK, NobodyTold
  <2> QED BY <1>1, <2>1, QueueFrame DEF InLine
<1>5. CASE Read(m) \/ Climb(m) \/ Arrive(m) \/ Descend(m) \/ Return(m) \/ CheckIn(m)
  <2>1. tower_queue' = tower_queue /\ wake' = wake
    BY <1>5 DEF Read, Climb, Arrive, Descend, Return, CheckIn
  <2>2. pc[m] \notin InLine
    BY <1>0, <1>5 DEF Read, Climb, Arrive, Descend, Return, CheckIn, InStep, InLine
  <2>3. pc'[m] \notin InLine
    <3> USE DEF Goto, TypeOK, InLine
    <3>1. CASE Read(m)
      BY <1>0, <3>1 DEF Read, Statuses
    <3>2. CASE Climb(m) \/ Arrive(m) \/ Descend(m) \/ Return(m)
      BY <1>0, <3>2 DEF Climb, Arrive, Descend, Return
    <3>3. CASE CheckIn(m)
      BY <1>0, <3>3 DEF CheckIn, InStep
    <3> QED BY <1>5, <3>1, <3>2, <3>3
  <2> QED BY <1>1, <2>1, <2>2, <2>3, QueueFrame DEF InLine
<1> QED BY <1>2, <1>3, <1>4, <1>5 DEF MemberStep

LEMMA NextQueue ==
    TypeOK /\ NobodyCalled /\ NobodyTold /\ QueueHasRoom /\ GroupInv /\ QueueInv /\ [Next]_vars
        => QueueInv'
<1> SUFFICES ASSUME TypeOK, NobodyCalled, NobodyTold, QueueHasRoom, GroupInv, QueueInv, [Next]_vars
             PROVE  QueueInv'
  OBVIOUS
<1>0. \A m \in Members : m \in Guides \union Visitors /\ m \notin Guides /\ m \notin VIPs
  BY TowerConstants DEF Visitors
<1>1. ASSUME NEW m \in Members, MemberStep(m) PROVE QueueInv'
  BY <1>1, MemberQueue
<1>2. ASSUME NEW g \in Guides, GuideStep(g) PROVE QueueInv'
  <2>1. tower_queue' = tower_queue /\ wake \subseteq wake' /\ \A m \in Members : pc'[m] = pc[m]
    BY <1>0, <1>2
       DEF GuideStep, GuideCount, GuideLeaveTower, GuideNext, GuideLeaveNext, Send, Goto, TypeOK
  <2> QED BY <2>1, QueueFrame
<1>3. ASSUME NEW v \in VIPs, VipStep(v) PROVE QueueInv'
  <2>1. \A m \in Members : pc'[m] = pc[m]
    BY <1>0, <1>3, OthersStay, GuidesAndMembers
  <2>2. tower_queue' = tower_queue /\ wake' = wake
    BY <1>3 DEF VipStep, Read, Climb, Arrive, Descend
  <2> QED BY <2>1, <2>2, QueueFrame
<1>4. ASSUME NEW g \in Guides, GuideArrive(g) PROVE QueueInv'
  <2>1. tower_queue' = tower_queue /\ wake \subseteq wake'
    BY <1>4 DEF GuideArrive, Send
  <2>2. \A m \in Members : \/ pc'[m] = pc[m]
                           \/ pc[m] \notin InLine /\ pc'[m] = "reading"
    BY <1>0, <1>4 DEF GuideArrive, Home, AtRest, InLine
  <2> QED BY <2>1, <2>2, QueueFrame DEF InLine
<1>5. ASSUME NEW v \in VIPs, VipArrive(v) PROVE QueueInv'
  <2>1. tower_queue' = tower_queue /\ wake' = wake /\ \A m \in Members : pc'[m] = pc[m]
    BY <1>0, <1>5, GuidesAndMembers DEF VipArrive, Goto, TypeOK
  <2> QED BY <2>1, QueueFrame
<1>6. CASE Calls \/ UNCHANGED vars
  <2>1. tower_queue' = tower_queue /\ wake \subseteq wake' /\ pc' = pc
    BY <1>6, OnlyRoundCalls DEF Round, vars
  <2> QED BY <2>1, QueueFrame
<1> QED BY <1>1, <1>2, <1>3, <1>4, <1>5, <1>6 DEF Next, Arrivals

LEMMA QueueHolds == ASSUME NobodyCalled, QueueHasRoom PROVE Spec => []QueueInv
<1>1. Init => QueueInv
  <2> SUFFICES ASSUME Init PROVE QueueInv
    OBVIOUS
  <2>1. \A m \in Members : pc[m] = "reading"
    BY TowerConstants DEF Init, Visitors
  <2>2. tower_queue = << >>
    BY DEF Init
  <2> QED BY <2>1, <2>2, EmptyEntries DEF QueueInv, PoppingFirst, NoLostWakeup, First, InLine
<1>2. GroupKept /\ QueueInv /\ [Next]_vars => QueueInv'
  BY NextQueue DEF GroupKept
<1> QED BY <1>1, <1>2, GroupHolds, PTL DEF Spec

(* Where no group is called down and the queue has a place for every       *)
(* member, it holds exactly the members that wait in it, once each.        *)
THEOREM TowerQueueIsHonest == ASSUME NobodyCalled, QueueHasRoom PROVE Spec => []QueueHonest
<1>1. QueueInv => QueueHonest
  BY DEF QueueInv, QueueHonest, Entries, OnceEach
<1> QED BY <1>1, QueueHolds, PTL

(* And whoever is first in line and sleeps has a SIG_WAKE_UP pending.      *)
THEOREM TowerWakesTheFirst == ASSUME NobodyCalled, QueueHasRoom PROVE Spec => []NoLostWakeup
<1>1. QueueInv => NoLostWakeup
  BY DEF QueueInv
<1> QED BY <1>1, QueueHolds, PTL

=============================================================================
