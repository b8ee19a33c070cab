---------------------------- MODULE BridgeProofs ----------------------------
(***************************************************************************)
(* What holds of the bridge for any set of guides, VIPs and visitors, any  *)
(* limit and any number of days and nights:                                *)
(*   - the types, that no guide leaves a member of its group behind, and   *)
(*     that the mutex is never lost;                                       *)
(*   - where no VIP is dismissed, that the mutex, the counter of groups,   *)
(*     the direction and the seats are right, and that the protocol        *)
(*     implements OneWayBridge.                                            *)
(***************************************************************************)
EXTENDS Bridge, FiniteSetTheorems, TLAPS

----------------------------------------------------------------------------
(* Types *)

PcType ==
    /\ pc \in [Processes -> PartyStates \union MemberStates]
    /\ \A p \in Parties : pc[p] \in PartyStates
    /\ \A m \in Members : pc[m] \in MemberStates

QueueType == queue \in [BOOLEAN -> Seq(Parties)]

LEMMA PartyGoes ==
    ASSUME PcType, NEW p \in Parties, NEW l \in PartyStates, Goto(p, l)
    PROVE  PcType'
BY BridgeConstants DEF PcType, Goto, Processes

LEMMA MemberGoes ==
    ASSUME PcType, NEW m \in Members, NEW l \in MemberStates, Goto(m, l)
    PROVE  PcType'
BY BridgeConstants DEF PcType, Goto, Processes

LEMMA PushKeepsType ==
    ASSUME QueueType, NEW d \in BOOLEAN, NEW p \in Parties, Push(d, p)
    PROVE  QueueType'
<1>1. Append(queue[d], p) \in Seq(Parties)
  BY DEF QueueType
<1> QED BY <1>1 DEF QueueType, Push

LEMMA PopKeepsType ==
    ASSUME QueueType, NEW d \in BOOLEAN, Pop(d)
    PROVE  QueueType'
<1>1. queue[d] # << >> => Tail(queue[d]) \in Seq(Parties)
  BY DEF QueueType
<1> QED BY <1>1 DEF QueueType, Pop

LEMMA EraseKeepsType ==
    ASSUME QueueType, NEW d \in BOOLEAN, NEW p \in Parties, Erase(d, p)
    PROVE  QueueType'
<1>1. queue[d] \in Seq(Parties)
  BY DEF QueueType
<1>2. CASE UNCHANGED queue
  BY <1>2 DEF QueueType
<1>3. ASSUME NEW i \in DOMAIN queue[d],
             queue' = [queue EXCEPT ![d] =
                         [j \in 1 .. Len(@) - 1 |-> IF j < i THEN @[j] ELSE @[j + 1]]]
      PROVE  QueueType'
  <2> DEFINE n == Len(queue[d])
             s == [j \in 1 .. n - 1 |-> IF j < i THEN queue[d][j] ELSE queue[d][j + 1]]
  <2>1. n \in Nat /\ i \in 1 .. n
    BY <1>1, <1>3
  <2>2. n - 1 \in Nat
    BY <2>1
  <2>3. \A k \in 1 .. n : queue[d][k] \in Parties
    BY <1>1
  <2>4. \A j \in 1 .. n - 1 : j \in 1 .. n /\ j + 1 \in 1 .. n
    BY <2>1
  <2>5. \A j \in 1 .. n - 1 : s[j] \in Parties
    BY <2>3, <2>4
  <2>6. s \in [1 .. n - 1 -> Parties]
    BY <2>5
  <2> HIDE DEF n
  <2>7. s \in Seq(Parties)
    BY <2>2, <2>6
  <2>8. queue' = [queue EXCEPT ![d] = s]
    BY <1>3 DEF n
  <2> QED BY <2>7, <2>8 DEF QueueType
<1> QED BY <1>2, <1>3 DEF Erase

LEMMA FirstIsParty ==
    ASSUME NEW q \in Seq(Parties)
    PROVE  First(q) \subseteq Parties
<1>1. q # << >> => Head(q) \in Parties
  OBVIOUS
<1> QED BY <1>1 DEF First

LEMMA SeatsArePeople == \A m \in Members : IsFiniteSet(Family[m]) /\ Seats(m) \in Nat \ {0}
<1> TAKE m \in Members
<1>1. Family[m] \in SUBSET UNION {Family[n] : n \in Members}
  OBVIOUS
<1>2. IsFiniteSet(Family[m])
  BY <1>1, FS_Subset, BridgeConstants
<1>3. Cardinality(Family[m]) \in Nat
  BY <1>2, FS_CardinalityType
<1>4. Cardinality(Family[m]) # 0
  BY <1>2, FS_EmptySet, BridgeConstants
<1> QED BY <1>2, <1>3, <1>4 DEF Seats

(* The initial state. *)
LEMMA InitTypes == Init => TypeOK
<1> SUFFICES ASSUME Init PROVE TypeOK
  OBVIOUS
<1>1. PcType
  BY BridgeConstants DEF Init, PcType, Processes, PartyStates, MemberStates
<1>2. QueueType
  BY DEF Init, QueueType
<1>3. letters \in [VIPs -> Nat] /\ checkins \in [Guides -> Nat]
  BY DEF Init
<1>4. phase \in 0 .. LastPhase
  BY BridgeConstants DEF Init
<1> QED BY <1>1, <1>2, <1>3, <1>4, BridgeConstants DEF Init, TypeOK, PcType, QueueType

(* The steps that guides and VIPs share. *)
LEMMA SectionTypes ==
    ASSUME TypeOK, NEW p \in Parties, Section(p)
    PROVE  mutex' \in Nat
BY DEF TypeOK, Section

LEMMA JoinTypes ==
    ASSUME TypeOK, NEW p \in Parties, Join(p)
    PROVE  TypeOK'
<1>1. PcType'
  BY PartyGoes DEF Join, TypeOK, PcType, PartyStates, Lined
<1>2. QueueType'
  BY PushKeepsType DEF Join, TypeOK, QueueType
<1> QED BY <1>1, <1>2, SectionTypes
        DEF Join, TypeOK, PcType, QueueType, vipVars, clockVars, groupVars, bridgeVars

LEMMA CheckFirstTypes ==
    ASSUME TypeOK, NEW p \in Parties, CheckFirst(p)
    PROVE  TypeOK'
<1>1. PICK first \in IF queue[track[p]] = << >> THEN Parties ELSE First(queue[track[p]]) :
          \/ first = p /\ Goto(p, "first") /\ UNCHANGED wake
          \/ first # p /\ wake' = wake \union {first} /\ Goto(p, "asleep1")
  BY DEF CheckFirst
<1>2. first \in Parties
  BY FirstIsParty DEF TypeOK
<1>3. PcType'
  BY <1>1, PartyGoes DEF TypeOK, PcType, PartyStates, Lined
<1>4. wake' \subseteq Processes
  BY <1>1, <1>2 DEF TypeOK, Processes
<1> QED BY <1>3, <1>4, SectionTypes
        DEF CheckFirst, TypeOK, PcType, vipVars, clockVars, groupVars, bridgeVars

LEMMA TryPassTypes ==
    ASSUME TypeOK, NEW p \in Parties, TryPass(p)
    PROVE  TypeOK'
<1>1. PcType'
  BY PartyGoes DEF TryPass, TypeOK, PcType, PartyStates, Lined, Admitted
<1>2. /\ mutex' \in Nat
      /\ bridge_direction' \in BOOLEAN
      /\ groups_on_bridge' \in Int
  BY SectionTypes DEF TryPass, TypeOK, bridgeVars
<1> QED BY <1>1, <1>2
        DEF TryPass, TypeOK, PcType, vipVars, clockVars, groupVars

LEMMA StartCrossingTypes ==
    ASSUME TypeOK, NEW p \in Parties, StartCrossing(p)
    PROVE  TypeOK'
<1>1. PcType'
  BY PartyGoes DEF StartCrossing, TypeOK, PcType, PartyStates, Admitted, OnSpan
<1>2. QueueType'
  BY PopKeepsType DEF StartCrossing, TypeOK, QueueType
<1>3. First(queue'[track[p]]) \subseteq Parties
  BY <1>2, FirstIsParty DEF TypeOK, QueueType
<1>4. wake' \subseteq Processes
  BY <1>3 DEF StartCrossing, TypeOK, Processes
<1> QED BY <1>1, <1>2, <1>4, SectionTypes
        DEF StartCrossing, TypeOK, PcType, QueueType, vipVars, clockVars, groupVars, bridgeVars

LEMMA LeaveBridgeTypes ==
    ASSUME TypeOK, NEW p \in Parties, LeaveBridge(p)
    PROVE  TypeOK'
<1>1. PcType'
  BY PartyGoes DEF LeaveBridge, TypeOK, PcType, PartyStates
<1>2. First(queue[~track[p]]) \subseteq Parties
  BY FirstIsParty DEF TypeOK
<1>3. wake' \subseteq Processes
  BY <1>2 DEF LeaveBridge, TypeOK, Processes
<1> QED BY <1>1, <1>3, SectionTypes
        DEF LeaveBridge, TypeOK, PcType, vipVars, clockVars, groupVars

LEMMA WakeUpTypes ==
    ASSUME TypeOK, NEW p \in Processes, WakeUp(p)
    PROVE  TypeOK'
<1>1. PcType'
  <2>1. CASE p \in Parties
    <3>1. Woken(pc[p]) \in PartyStates
      BY <2>1 DEF WakeUp, Woken, Asleep, TypeOK, PartyStates, Lined, Admitted, OnSpan,
                  Dismissed, MemberStates
    <3> QED BY <2>1, <3>1, PartyGoes DEF WakeUp, TypeOK, PcType
  <2>2. CASE p \in Members
    <3>1. Woken(pc[p]) \in MemberStates
      BY <2>2 DEF WakeUp, Woken, Asleep, TypeOK, MemberStates
    <3> QED BY <2>2, <3>1, MemberGoes DEF WakeUp, TypeOK, PcType
  <2> QED BY <2>1, <2>2 DEF Processes
<1> QED BY <1>1
        DEF WakeUp, TypeOK, PcType, vipVars, clockVars, groupVars, bridgeVars

LEMMA GuideStepTypes ==
    ASSUME TypeOK, NEW g \in Guides, GuideStep(g)
    PROVE  TypeOK'
<1> USE DEF vipVars, clockVars, groupVars, bridgeVars
<1>1. g \in Parties /\ g \in Processes
  BY DEF Parties, Processes
<1>2. CASE GuideJoin(g)
  BY <1>1, <1>2, JoinTypes, PartyGoes DEF GuideJoin, TypeOK, PcType, PartyStates
<1>3. CASE CheckFirst(g)
  BY <1>1, <1>3, CheckFirstTypes
<1>4. CASE WakeUp(g)
  BY <1>1, <1>4, WakeUpTypes
<1>5. CASE GuideRecheck(g)
  <2>1. PcType'
    BY <1>1, <1>5, PartyGoes DEF GuideRecheck, TypeOK, PcType, PartyStates, Lined
  <2>2. QueueType' /\ mutex' \in Nat
    BY <1>1, <1>5, EraseKeepsType, SectionTypes DEF GuideRecheck, TypeOK, QueueType
  <2> QED BY <1>5, <2>1, <2>2 DEF GuideRecheck, TypeOK, PcType, QueueType
<1>6. CASE GuideProceed(g)
  <2>1. PcType'
    BY <1>1, <1>6, PartyGoes DEF GuideProceed, TypeOK, PcType, PartyStates, Lined
  <2> QED BY <1>6, <2>1
          DEF GuideProceed, SendGroupToQueue, Group, Processes, TypeOK, PcType
<1>7. CASE TryPass(g)
  BY <1>1, <1>7, TryPassTypes
<1>8. CASE GuideEnter(g)
  <2>1. PcType'
    BY <1>1, <1>8, PartyGoes DEF GuideEnter, TypeOK, PcType, PartyStates, Admitted, OnSpan
  <2>2. sem' \in Nat /\ mutex' \in Nat
    BY <1>8 DEF GuideEnter, TypeOK
  <2> QED BY <1>8, <2>1, <2>2 DEF GuideEnter, Group, Processes, TypeOK, PcType
<1>9. CASE GuideRetry(g)
  <2>1. PcType'
    BY <1>1, <1>9, PartyGoes DEF GuideRetry, TypeOK, PcType, PartyStates, Lined
  <2>2. QueueType' /\ mutex' \in Nat
    BY <1>1, <1>9, EraseKeepsType, SectionTypes DEF GuideRetry, TypeOK, QueueType
  <2>3. First(queue'[track[g]]) \subseteq Parties
    BY <1>1, <2>2, FirstIsParty DEF TypeOK, QueueType
  <2>4. wake' \subseteq Processes
    BY <1>9, <2>3 DEF GuideRetry, TypeOK, Processes
  <2> QED BY <1>9, <2>1, <2>2, <2>4 DEF GuideRetry, TypeOK, PcType, QueueType
<1>10. CASE StartCrossing(g)
  BY <1>1, <1>10, StartCrossingTypes
<1>11. CASE GuideCross(g)
  <2>1. PcType'
    BY <1>1, <1>11, PartyGoes DEF GuideCross, TypeOK, PcType, PartyStates, Admitted
  <2> QED BY <1>11, <2>1 DEF GuideCross, TypeOK, PcType
<1>12. CASE GuideCount(g)
  <2>1. PICK m \in inbox \intersect Group(g) :
           /\ inbox' = inbox \ {m}
           /\ checkins' = [checkins EXCEPT ![g] = @ + Seats(m)]
    BY <1>12 DEF GuideCount
  <2>2. checkins[g] + Seats(m) \in Nat
    BY SeatsArePeople DEF TypeOK, Group
  <2>3. checkins' \in [Guides -> Nat] /\ inbox' \subseteq Members
    BY <2>1, <2>2 DEF TypeOK
  <2> QED BY <1>12, <2>3 DEF GuideCount, TypeOK
<1>13. CASE GuideLeave(g)
  BY <1>1, <1>13, LeaveBridgeTypes DEF GuideLeave
<1> QED BY <1>2, <1>3, <1>4, <1>5, <1>6, <1>7, <1>8, <1>9, <1>10, <1>11, <1>12, <1>13
        DEF GuideStep

LEMMA VipStepTypes ==
    ASSUME TypeOK, NEW v \in VIPs, VipStep(v)
    PROVE  TypeOK'
<1> USE DEF vipVars, clockVars, groupVars, bridgeVars
<1>1. v \in Parties /\ v \in Processes
  BY DEF Parties, Processes
<1>2. CASE VipJoin(v)
  BY <1>1, <1>2, JoinTypes DEF VipJoin
<1>3. CASE CheckFirst(v)
  BY <1>1, <1>3, CheckFirstTypes
<1>4. CASE WakeUp(v)
  BY <1>1, <1>4, WakeUpTypes
<1>5. CASE VipRecheck(v)
  <2>1. PcType'
    BY <1>1, <1>5, PartyGoes DEF VipRecheck, TypeOK, PcType, PartyStates, Lined, Dismissed
  <2>2. QueueType' /\ mutex' \in Nat
    BY <1>1, <1>5, EraseKeepsType, SectionTypes DEF VipRecheck, TypeOK, QueueType
  <2> QED BY <1>5, <2>1, <2>2 DEF VipRecheck, TypeOK, PcType, QueueType
<1>6. CASE VipProceed(v)
  <2>1. PcType'
    BY <1>1, <1>6, PartyGoes DEF VipProceed, TypeOK, PcType, PartyStates, Lined
  <2> QED BY <1>6, <2>1 DEF VipProceed, TypeOK, PcType
<1>7. CASE TryPass(v)
  BY <1>1, <1>7, TryPassTypes
<1>8. CASE VipEnter(v)
  <2>1. PcType'
    BY <1>1, <1>8, PartyGoes DEF VipEnter, TypeOK, PcType, PartyStates, Admitted, OnSpan
  <2>2. sem' \in Nat /\ mutex' \in Nat
    BY <1>8 DEF VipEnter, TypeOK
  <2> QED BY <1>8, <2>1, <2>2 DEF VipEnter, TypeOK, PcType
<1>9. CASE VipRetry(v)
  <2>1. PcType'
    BY <1>1, <1>9, PartyGoes DEF VipRetry, TypeOK, PcType, PartyStates, Lined, Dismissed
  <2>2. QueueType' /\ mutex' \in Nat
    BY <1>1, <1>9, EraseKeepsType, SectionTypes DEF VipRetry, TypeOK, QueueType
  <2>3. First(queue'[track[v]]) \subseteq Parties
    BY <1>1, <2>2, FirstIsParty DEF TypeOK, QueueType
  <2>4. wake' \subseteq Processes
    BY <1>9, <2>3 DEF VipRetry, TypeOK, Processes
  <2> QED BY <1>9, <2>1, <2>2, <2>4 DEF VipRetry, TypeOK, PcType, QueueType
<1>10. CASE VipSendLeave(v)
  <2>1. PcType'
    BY <1>1, <1>10, PartyGoes DEF VipSendLeave, TypeOK, PcType, PartyStates, Dismissed
  <2> QED BY <1>10, <2>1 DEF VipSendLeave, TypeOK, PcType
<1>11. CASE VipAwaitTicket(v)
  <2>1. PcType'
    BY <1>1, <1>11, PartyGoes DEF VipAwaitTicket, TypeOK, PcType, PartyStates, Lined, Dismissed
  <2> QED BY <1>11, <2>1 DEF VipAwaitTicket, TypeOK, PcType
<1>12. CASE VipStartCrossing(v)
  <2>1. PcType'
    BY <1>1, <1>12, PartyGoes DEF VipStartCrossing, TypeOK, PcType, PartyStates, Admitted, OnSpan
  <2> QED BY <1>12, <2>1 DEF VipStartCrossing, TypeOK, PcType
<1>13. CASE StartCrossing(v)
  BY <1>1, <1>13, StartCrossingTypes
<1>14. CASE VipCross(v)
  <2>1. PcType'
    BY <1>1, <1>14, PartyGoes DEF VipCross, TypeOK, PcType, PartyStates, Admitted
  <2> QED BY <1>14, <2>1 DEF VipCross, TypeOK, PcType
<1>15. CASE VipLeave(v)
  BY <1>1, <1>15, LeaveBridgeTypes DEF VipLeave
<1> QED BY <1>2, <1>3, <1>4, <1>5, <1>6, <1>7, <1>8, <1>9, <1>10, <1>11, <1>12, <1>13,
           <1>14, <1>15
        DEF VipStep

LEMMA MemberStepTypes ==
    ASSUME TypeOK, NEW m \in Members, MemberStep(m)
    PROVE  TypeOK'
<1> USE DEF vipVars, clockVars, groupVars, bridgeVars
<1>1. Seats(m) \in Nat
  BY SeatsArePeople
<1>2. CASE WakeUp(m)
  BY <1>2, WakeUpTypes DEF Processes
<1>3. CASE MemberRead(m)
  <2>1. PcType'
    BY <1>3, MemberGoes DEF MemberRead, TypeOK, PcType, MemberStates
  <2> QED BY <1>3, <2>1 DEF MemberRead, TypeOK, PcType
<1>4. CASE MemberStepOn(m)
  <2>1. PcType'
    BY <1>4, MemberGoes DEF MemberStepOn, TypeOK, PcType, MemberStates
  <2>2. sem' \in Nat
    BY <1>1, <1>4 DEF MemberStepOn, TypeOK
  <2> QED BY <1>4, <2>1, <2>2 DEF MemberStepOn, TypeOK, PcType
<1>5. CASE MemberStepOff(m)
  <2>1. PcType'
    BY <1>5, MemberGoes DEF MemberStepOff, TypeOK, PcType, MemberStates
  <2>2. sem' \in Nat
    BY <1>1, <1>5 DEF MemberStepOff, TypeOK
  <2> QED BY <1>5, <2>1, <2>2 DEF MemberStepOff, TypeOK, PcType
<1>6. CASE MemberReport(m)
  <2>1. PcType'
    BY <1>6, MemberGoes DEF MemberReport, TypeOK, PcType, MemberStates
  <2> QED BY <1>6, <2>1 DEF MemberReport, TypeOK, PcType
<1> QED BY <1>2, <1>3, <1>4, <1>5, <1>6 DEF MemberStep

LEMMA ArrivalTypes ==
    ASSUME TypeOK, Arrivals
    PROVE  TypeOK'
<1> USE DEF vipVars, clockVars, groupVars, bridgeVars
<1>1. ASSUME NEW g \in Guides, NEW d \in BOOLEAN, GuideArrive(g, d)
      PROVE  TypeOK'
  <2>1. PcType'
    BY <1>1, BridgeConstants
    DEF GuideArrive, Group, TypeOK, PcType, Processes, Parties, PartyStates, MemberStates
  <2>2. wake' \subseteq Processes
    BY <1>1 DEF GuideArrive, TypeOK, Group, Processes, Parties
  <2> QED BY <1>1, <2>1, <2>2 DEF GuideArrive, SendGroupToQueue, TypeOK, PcType
<1>2. ASSUME NEW v \in VIPs, NEW d \in BOOLEAN, VipArrive(v, d)
      PROVE  TypeOK'
  <2>1. PcType'
    BY <1>2, PartyGoes DEF VipArrive, TypeOK, PcType, Parties, PartyStates
  <2>2. wake' \subseteq Processes
    BY <1>2 DEF VipArrive, TypeOK, Processes, Parties
  <2> QED BY <1>2, <2>1, <2>2 DEF VipArrive, TypeOK, PcType
<1> QED BY <1>1, <1>2 DEF Arrivals

LEMMA EnvironmentTypes ==
    ASSUME TypeOK, Environment
    PROVE  TypeOK'
<1> USE DEF vipVars, clockVars, groupVars, bridgeVars
<1>1. CASE Nightfall \/ Daybreak
  <2>1. phase' \in 0 .. LastPhase
    BY <1>1, BridgeConstants DEF Nightfall, Daybreak, TypeOK
  <2> QED BY <1>1, <2>1 DEF Nightfall, Daybreak, TypeOK
<1>2. ASSUME NEW g \in Guides, GuideTold(g)
      PROVE  TypeOK'
  <2>1. g \in Parties
    BY DEF Parties
  <2>2. PcType'
    BY <1>2, <2>1, PartyGoes DEF GuideTold, Woken, Asleep, TypeOK, PcType, PartyStates, Lined
  <2> QED BY <1>2, <2>2 DEF GuideTold, TypeOK, PcType
<1>3. ASSUME NEW v \in VIPs, VipTold(v)
      PROVE  TypeOK'
  BY <1>3 DEF VipTold, TypeOK, Processes, Parties
<1>4. ASSUME NEW v \in VIPs, Dismiss(v)
      PROVE  TypeOK'
  <2>1. letters' \in [VIPs -> Nat]
    BY <1>4 DEF Dismiss, TypeOK
  <2> QED BY <1>4, <2>1 DEF Dismiss, TypeOK
<1>5. ASSUME NEW v \in VIPs, Kill(v)
      PROVE  TypeOK'
  BY <1>5 DEF Kill, TypeOK, Processes, Parties
<1> QED BY <1>1, <1>2, <1>3, <1>4, <1>5 DEF Environment

LEMMA NextTypes == TypeOK /\ [Next]_vars => TypeOK'
<1> SUFFICES ASSUME TypeOK, [Next]_vars PROVE TypeOK'
  OBVIOUS
<1>1. CASE Next
  BY <1>1, GuideStepTypes, VipStepTypes, MemberStepTypes, ArrivalTypes, EnvironmentTypes
     DEF Next
<1>2. CASE UNCHANGED vars
  BY <1>2 DEF vars, groupVars, bridgeVars, clockVars, vipVars, TypeOK
<1> QED BY <1>1, <1>2

(* Every variable keeps its type, the semaphores never go below zero, and  *)
(* only parties are ever queued.                                           *)
THEOREM BridgeTypes == Spec => []TypeOK
BY InitTypes, NextTypes, PTL DEF Spec

----------------------------------------------------------------------------
(* The group of a guide *)

Touring == {"popping", "crossing", "gathering"}
AtRest == {"reading", "waiting"}

(* The members of g whose check-in the guide has counted, when it counts. *)
Counted(g) == {m \in Group(g) : status[m] = "FOLLOWING_GUIDE" /\ m \notin inbox}
PeopleOf(S) == UNION {Family[m] : m \in S}

(* Before its guide sends the group across, a member is not on its way ... *)
GroupAway ==
    \A m \in Members : pc[GuideOf[m]] \notin Touring =>
        pc[m] \in AtRest /\ status[m] # "AT_BRIDGE" /\ m \notin inbox

(* ... from then on it is either told to cross or across, ...              *)
GroupSent ==
    \A m \in Members : pc[GuideOf[m]] \in Touring =>
        /\ status[m] # "AT_BRIDGE_QUEUE"
        /\ pc[m] \notin AtRest => status[m] = "AT_BRIDGE"
        /\ m \in inbox => status[m] = "FOLLOWING_GUIDE"

(* ... its check-in waits in the message queue while the guide crosses ... *)
NobodyCounted ==
    \A m \in Members : pc[GuideOf[m]] \in {"popping", "crossing"} /\ status[m] = "FOLLOWING_GUIDE" =>
        m \in inbox

(* ... and is counted exactly once, with the kids, when it gathers. *)
CountExact ==
    \A g \in Guides : pc[g] = "gathering" => checkins[g] = Cardinality(PeopleOf(Counted(g)))

GroupInv == GroupAway /\ GroupSent /\ NobodyCounted /\ CountExact

LEMMA PeopleFinite ==
    ASSUME NEW S \in SUBSET Members
    PROVE  /\ IsFiniteSet(PeopleOf(S))
           /\ Cardinality(PeopleOf(S)) \in Nat
<1>1. PeopleOf(S) \in SUBSET UNION {Family[m] : m \in Members}
  BY DEF PeopleOf
<1>2. IsFiniteSet(PeopleOf(S))
  BY <1>1, FS_Subset, BridgeConstants
<1> QED BY <1>2, FS_CardinalityType

(* One more member brings its whole family, which nobody else shares. *)
LEMMA PeopleAdd ==
    ASSUME NEW S \in SUBSET Members, NEW m \in Members, m \notin S
    PROVE  Cardinality(PeopleOf(S \union {m})) = Cardinality(PeopleOf(S)) + Seats(m)
<1>1. PeopleOf(S \union {m}) = PeopleOf(S) \union Family[m]
  BY DEF PeopleOf
<1>2. PeopleOf(S) \intersect Family[m] = {}
  BY BridgeConstants DEF PeopleOf
<1>3. Cardinality(PeopleOf(S) \union Family[m]) =
        Cardinality(PeopleOf(S)) + Cardinality(Family[m])
          - Cardinality(PeopleOf(S) \intersect Family[m])
  BY FS_Union, PeopleFinite, SeatsArePeople
<1>4. Cardinality(PeopleOf(S) \intersect Family[m]) = 0
  BY <1>2, FS_EmptySet
<1>5. Cardinality(PeopleOf(S)) \in Nat /\ Cardinality(Family[m]) \in Nat
  BY PeopleFinite, SeatsArePeople DEF Seats
<1>6. Cardinality(PeopleOf(S) \union Family[m]) = Cardinality(PeopleOf(S)) + Cardinality(Family[m])
  BY <1>3, <1>4, <1>5
<1> QED BY <1>1, <1>6 DEF Seats

(* As many check-ins as the group has people are the check-ins of all. *)
LEMMA AllCounted ==
    ASSUME NEW g \in Guides, Cardinality(PeopleOf(Counted(g))) >= visitors_in_group(g)
    PROVE  Counted(g) = Group(g)
<1>1. Counted(g) \subseteq Group(g) /\ Group(g) \subseteq Members
  BY DEF Counted, Group
<1>2. visitors_in_group(g) = Cardinality(PeopleOf(Group(g)))
  BY DEF visitors_in_group, PeopleOf
<1>3. PeopleOf(Counted(g)) \in SUBSET PeopleOf(Group(g))
  BY <1>1 DEF PeopleOf
<1>4. IsFiniteSet(PeopleOf(Group(g))) /\ Cardinality(PeopleOf(Group(g))) \in Nat
  BY <1>1, PeopleFinite
<1>5. /\ Cardinality(PeopleOf(Counted(g))) \in Nat
      /\ Cardinality(PeopleOf(Counted(g))) <= Cardinality(PeopleOf(Group(g)))
  BY <1>1, <1>3, <1>4, PeopleFinite, FS_Subset
<1>6. Cardinality(PeopleOf(Counted(g))) = Cardinality(PeopleOf(Group(g)))
  BY <1>2, <1>4, <1>5
<1>7. PeopleOf(Counted(g)) = PeopleOf(Group(g))
  BY <1>3, <1>4, <1>6, FS_Subset
<1>8. ASSUME NEW m \in Group(g)
      PROVE  m \in Counted(g)
  <2>1. m \in Members /\ m \in Family[m]
    BY BridgeConstants DEF Group
  <2>2. m \in PeopleOf(Counted(g))
    BY <1>7, <2>1 DEF PeopleOf
  <2>3. PICK n \in Counted(g) : m \in Family[n]
    BY <2>2 DEF PeopleOf
  <2>4. n \in Members
    BY <1>1, <2>3
  <2> QED BY <2>1, <2>3, <2>4, BridgeConstants
<1> QED BY <1>1, <1>8

(* A step that leaves commands, check-ins and the place of every guide and *)
(* member as they are, as far as these invariants tell places apart.       *)
LEMMA GroupFrame ==
    ASSUME TypeOK, GroupInv, UNCHANGED groupVars,
           \A m \in Members : pc'[m] = pc[m] \/ (pc[m] \in AtRest /\ pc'[m] \in AtRest),
           \A g \in Guides :
              /\ pc'[g] \in {"popping", "crossing"} <=> pc[g] \in {"popping", "crossing"}
              /\ pc'[g] = "gathering" <=> pc[g] = "gathering"
    PROVE  GroupInv'
<1>1. \A m \in Members : GuideOf[m] \in Guides
  BY BridgeConstants
<1>2. \A g \in Guides : Counted(g)' = Counted(g)
  BY DEF Counted, groupVars
<1>3. GroupAway' /\ GroupSent'
  BY <1>1 DEF GroupInv, GroupAway, GroupSent, groupVars, Touring, AtRest
<1>4. NobodyCounted'
  BY <1>1 DEF GroupInv, NobodyCounted, groupVars
<1>5. CountExact'
  BY <1>2 DEF GroupInv, CountExact, groupVars
<1> QED BY <1>3, <1>4, <1>5 DEF GroupInv

LEMMA PartyFrame ==
    ASSUME TypeOK, GroupInv, NEW p \in Parties, NEW l \in PartyStates, Goto(p, l),
           UNCHANGED groupVars,
           p \in Guides =>
              /\ l \in {"popping", "crossing"} <=> pc[p] \in {"popping", "crossing"}
              /\ l = "gathering" <=> pc[p] = "gathering"
    PROVE  GroupInv'
<1>1. \A m \in Members : pc'[m] = pc[m]
  BY BridgeConstants DEF Goto, TypeOK, Processes
<1>2. \A g \in Guides : pc'[g] = IF g = p THEN l ELSE pc[g]
  BY DEF Goto, TypeOK, Processes, Parties
<1> QED BY <1>1, <1>2, GroupFrame

LEMMA InitGroup == Init => GroupInv
<1> SUFFICES ASSUME Init PROVE GroupInv
  OBVIOUS
<1>1. \A m \in Members : pc[m] = "reading"
  BY DEF Init, Processes
<1>2. \A g \in Guides : pc[g] = "elsewhere"
  BY BridgeConstants DEF Init, Processes, Parties
<1>3. \A m \in Members : GuideOf[m] \in Guides
  BY BridgeConstants
<1> QED BY <1>1, <1>2, <1>3
        DEF Init, GroupInv, GroupAway, GroupSent, NobodyCounted, CountExact, Touring, AtRest

LEMMA GuideGroup ==
    ASSUME TypeOK, GroupInv, NEW g \in Guides, GuideStep(g)
    PROVE  GroupInv'
<1> USE DEF PartyStates, Lined, Admitted, OnSpan, Asleep
<1>1. g \in Parties /\ g \in Processes /\ \A m \in Members : GuideOf[m] \in Guides
  BY BridgeConstants DEF Parties, Processes
<1>2. CASE GuideJoin(g)
  BY <1>1, <1>2, PartyFrame DEF GuideJoin, Join
<1>3. CASE CheckFirst(g)
  <2>1. Goto(g, "first") \/ Goto(g, "asleep1")
    BY <1>3 DEF CheckFirst
  <2> QED BY <1>1, <1>3, <2>1, PartyFrame DEF CheckFirst
<1>4. CASE WakeUp(g)
  <2>1. pc[g] \in PartyStates
    BY <1>1 DEF TypeOK
  <2>2. pc[g] \in Asleep
    BY <1>4, <2>1 DEF WakeUp, Dismissed
  <2>3. Woken(pc[g]) \in {"awake1", "awake2"}
    BY <2>2 DEF Woken
  <2> QED BY <1>1, <1>4, <2>2, <2>3, PartyFrame DEF WakeUp
<1>5. CASE GuideRecheck(g)
  BY <1>1, <1>5, PartyFrame DEF GuideRecheck
<1>6. CASE GuideProceed(g)
  <2>1. CASE g \notin leave_park
    BY <1>1, <1>6, <2>1, PartyFrame DEF GuideProceed
  <2>2. CASE g \in leave_park
    <3>1. /\ pc[g] = "first" /\ Goto(g, "arrived") /\ SendGroupToQueue(g)
      BY <1>6, <2>2 DEF GuideProceed
    <3>2. /\ \A m \in Members : pc'[m] = pc[m]
          /\ \A h \in Guides : pc'[h] = IF h = g THEN "arrived" ELSE pc[h]
      BY <3>1, BridgeConstants DEF Goto, TypeOK, Processes, Parties
    <3>3. /\ inbox' = inbox /\ checkins' = checkins
          /\ \A m \in Members : status'[m] = IF GuideOf[m] = g THEN "AT_BRIDGE_QUEUE" ELSE status[m]
      BY <3>1 DEF SendGroupToQueue, Group
    <3>4. GroupAway' /\ GroupSent' /\ NobodyCounted'
      BY <1>1, <3>1, <3>2, <3>3
      DEF GroupInv, GroupAway, GroupSent, NobodyCounted, Touring, AtRest
    <3>5. \A h \in Guides : h # g => Counted(h)' = Counted(h)
      BY <3>3 DEF Counted, Group
    <3>6. CountExact'
      BY <3>1, <3>2, <3>3, <3>5 DEF GroupInv, CountExact
    <3> QED BY <3>4, <3>6 DEF GroupInv
  <2> QED BY <2>1, <2>2
<1>7. CASE TryPass(g)
  <2>1. pc[g] = "trying" /\ (Goto(g, "asleep2") \/ Goto(g, "entering")) /\ UNCHANGED groupVars
    BY <1>7 DEF TryPass
  <2> QED BY <1>1, <2>1, PartyFrame
<1>8. CASE GuideEnter(g)
  <2>1. /\ pc[g] = "entering" /\ Goto(g, "popping")
        /\ inbox' = inbox /\ checkins' = checkins
        /\ \A m \in Members : status'[m] = IF GuideOf[m] = g THEN "AT_BRIDGE" ELSE status[m]
    BY <1>8 DEF GuideEnter, Group
  <2>2. /\ \A m \in Members : pc'[m] = pc[m]
        /\ \A h \in Guides : pc'[h] = IF h = g THEN "popping" ELSE pc[h]
    BY <2>1, BridgeConstants DEF Goto, TypeOK, Processes, Parties
  <2>3. GroupAway' /\ GroupSent' /\ NobodyCounted'
    BY <1>1, <2>1, <2>2
    DEF GroupInv, GroupAway, GroupSent, NobodyCounted, Touring, AtRest
  <2>4. \A h \in Guides : h # g => Counted(h)' = Counted(h)
    BY <2>1 DEF Counted, Group
  <2>5. CountExact'
    BY <2>1, <2>2, <2>4 DEF GroupInv, CountExact
  <2> QED BY <2>3, <2>5 DEF GroupInv
<1>9. CASE GuideRetry(g)
  BY <1>1, <1>9, PartyFrame DEF GuideRetry
<1>10. CASE StartCrossing(g)
  BY <1>1, <1>10, PartyFrame DEF StartCrossing
<1>11. CASE GuideCross(g)
  <2>1. /\ pc[g] = "crossing" /\ Goto(g, "gathering")
        /\ inbox' = inbox /\ status' = status
        /\ \A h \in Guides : checkins'[h] = IF h = g THEN 0 ELSE checkins[h]
    BY <1>11 DEF GuideCross, TypeOK
  <2>2. /\ \A m \in Members : pc'[m] = pc[m]
        /\ \A h \in Guides : pc'[h] = IF h = g THEN "gathering" ELSE pc[h]
    BY <2>1, BridgeConstants DEF Goto, TypeOK, Processes, Parties
  <2>3. GroupAway' /\ GroupSent' /\ NobodyCounted'
    BY <1>1, <2>1, <2>2
    DEF GroupInv, GroupAway, GroupSent, NobodyCounted, Touring, AtRest
  <2>4. \A h \in Guides : Counted(h)' = Counted(h)
    BY <2>1 DEF Counted, Group
  <2>5. Counted(g) = {}
    BY <2>1 DEF Counted, Group, GroupInv, NobodyCounted
  <2>6. Cardinality(PeopleOf(Counted(g))) = 0
    BY <2>5, FS_EmptySet DEF PeopleOf
  <2>7. CountExact'
    BY <2>1, <2>2, <2>4, <2>6 DEF GroupInv, CountExact
  <2> QED BY <2>3, <2>7 DEF GroupInv
<1>12. CASE GuideCount(g)
  <2>1. PICK m \in inbox \intersect Group(g) :
           /\ inbox' = inbox \ {m}
           /\ checkins' = [checkins EXCEPT ![g] = @ + Seats(m)]
    BY <1>12 DEF GuideCount
  <2>2. /\ pc[g] = "gathering" /\ pc' = pc /\ status' = status
        /\ m \in Members /\ GuideOf[m] = g /\ status[m] = "FOLLOWING_GUIDE"
    BY <1>12, <2>1 DEF GuideCount, Group, GroupInv, GroupSent, Touring
  <2>3. GroupAway' /\ GroupSent'
    BY <1>1, <2>1, <2>2 DEF GroupInv, GroupAway, GroupSent
  <2>4. NobodyCounted'
    BY <1>1, <2>1, <2>2 DEF GroupInv, NobodyCounted
  <2>5. /\ Counted(g)' = Counted(g) \union {m}
        /\ m \notin Counted(g) /\ Counted(g) \in SUBSET Members
        /\ \A h \in Guides : h # g => Counted(h)' = Counted(h)
    BY <2>1, <2>2 DEF Counted, Group
  <2>6. Cardinality(PeopleOf(Counted(g) \union {m})) = Cardinality(PeopleOf(Counted(g))) + Seats(m)
    BY <2>2, <2>5, PeopleAdd
  <2>7. \A h \in Guides : checkins'[h] = IF h = g THEN checkins[h] + Seats(m) ELSE checkins[h]
    BY <2>1 DEF TypeOK
  <2>8. CountExact'
    BY <2>2, <2>5, <2>6, <2>7 DEF GroupInv, CountExact
  <2> QED BY <2>3, <2>4, <2>8 DEF GroupInv
<1>13. CASE GuideLeave(g)
  <2>1. /\ pc[g] = "gathering" /\ Goto(g, "elsewhere") /\ UNCHANGED groupVars
        /\ checkins[g] >= visitors_in_group(g)
    BY <1>13 DEF GuideLeave, LeaveBridge
  <2>2. /\ \A m \in Members : pc'[m] = pc[m]
        /\ \A h \in Guides : pc'[h] = IF h = g THEN "elsewhere" ELSE pc[h]
    BY <2>1, BridgeConstants DEF Goto, TypeOK, Processes, Parties
  <2>3. Counted(g) = Group(g)
    BY <2>1, AllCounted DEF GroupInv, CountExact
  <2>4. \A m \in Members : GuideOf[m] = g =>
           pc[m] \in AtRest /\ status[m] = "FOLLOWING_GUIDE" /\ m \notin inbox
    BY <2>1, <2>3 DEF Counted, Group, GroupInv, GroupSent, Touring
  <2>5. GroupAway' /\ GroupSent' /\ NobodyCounted'
    BY <1>1, <2>1, <2>2, <2>4
    DEF GroupInv, GroupAway, GroupSent, NobodyCounted, Touring, groupVars
  <2>6. \A h \in Guides : Counted(h)' = Counted(h)
    BY <2>1 DEF Counted, Group, groupVars
  <2>7. CountExact'
    BY <2>1, <2>2, <2>6 DEF GroupInv, CountExact, groupVars
  <2> QED BY <2>5, <2>7 DEF GroupInv
<1> QED BY <1>2, <1>3, <1>4, <1>5, <1>6, <1>7, <1>8, <1>9, <1>10, <1>11, <1>12, <1>13
        DEF GuideStep

(* No step of a VIP touches a group. *)
LEMMA VipGroup ==
    ASSUME TypeOK, GroupInv, NEW v \in VIPs, VipStep(v)
    PROVE  GroupInv'
<1>1. v \in Parties /\ v \notin Guides
  BY BridgeConstants DEF Parties
<1>2. UNCHANGED groupVars
  BY DEF VipStep, VipJoin, Join, CheckFirst, WakeUp, VipRecheck, VipProceed, TryPass, VipEnter,
         VipRetry, VipSendLeave, VipAwaitTicket, VipStartCrossing, StartCrossing, VipCross,
         VipLeave, LeaveBridge
<1>3. \E l : Goto(v, l)
  BY DEF VipStep, VipJoin, Join, CheckFirst, WakeUp, VipRecheck, VipProceed, TryPass, VipEnter,
         VipRetry, VipSendLeave, VipAwaitTicket, VipStartCrossing, StartCrossing, VipCross,
         VipLeave, LeaveBridge
<1>4. \A m \in Members : pc'[m] = pc[m]
  BY <1>1, <1>3, BridgeConstants DEF Goto, TypeOK, Processes
<1>5. \A g \in Guides : pc'[g] = pc[g]
  BY <1>1, <1>3 DEF Goto, TypeOK, Processes, Parties
<1> QED BY <1>2, <1>4, <1>5, GroupFrame

LEMMA MemberGroup ==
    ASSUME TypeOK, GroupInv, NEW m \in Members, MemberStep(m)
    PROVE  GroupInv'
<1>1. /\ m \in Processes /\ m \notin Parties
      /\ \A n \in Members : GuideOf[n] \in Guides /\ n \in Processes
      /\ \A g \in Guides : g \in Processes /\ g # m
  BY BridgeConstants DEF Parties, Processes
<1>2. ASSUME NEW l, Goto(m, l)
      PROVE  /\ \A g \in Guides : pc'[g] = pc[g]
             /\ \A n \in Members : pc'[n] = IF n = m THEN l ELSE pc[n]
  BY <1>1, <1>2 DEF Goto, TypeOK
<1>3. CASE WakeUp(m)
  <2>1. pc[m] = "waiting"
    BY <1>3 DEF WakeUp, Asleep, TypeOK, MemberStates
  <2>2. Goto(m, "reading") /\ UNCHANGED groupVars
    BY <1>3, <2>1 DEF WakeUp, Woken
  <2> QED BY <1>2, <2>1, <2>2, GroupFrame DEF AtRest
<1>4. CASE MemberRead(m)
  <2>1. CASE status[m] = "AT_BRIDGE"
    <3>1. pc[m] = "reading" /\ Goto(m, "boarding") /\ UNCHANGED groupVars
      BY <1>4, <2>1 DEF MemberRead
    <3>2. pc[GuideOf[m]] \in Touring
      BY <2>1 DEF GroupInv, GroupAway
    <3>3. GroupAway' /\ GroupSent' /\ NobodyCounted'
      BY <1>1, <1>2, <2>1, <3>1, <3>2
      DEF GroupInv, GroupAway, GroupSent, NobodyCounted, AtRest, groupVars
    <3>4. \A g \in Guides : Counted(g)' = Counted(g)
      BY <3>1 DEF Counted, groupVars
    <3>5. CountExact'
      BY <1>2, <3>1, <3>4 DEF GroupInv, CountExact, groupVars
    <3> QED BY <3>3, <3>5 DEF GroupInv
  <2>2. CASE status[m] # "AT_BRIDGE"
    <3>1. pc[m] = "reading" /\ Goto(m, "waiting") /\ UNCHANGED groupVars
      BY <1>4, <2>2 DEF MemberRead
    <3> QED BY <1>2, <3>1, GroupFrame DEF AtRest
  <2> QED BY <2>1, <2>2
<1>5. CASE MemberStepOn(m) \/ MemberStepOff(m)
  <2>1. PICK l \in {"crossing", "reporting"} : Goto(m, l)
    BY <1>5 DEF MemberStepOn, MemberStepOff
  <2>2. pc[m] \notin AtRest /\ UNCHANGED groupVars
    BY <1>5 DEF MemberStepOn, MemberStepOff, AtRest
  <2>3. GroupAway' /\ GroupSent' /\ NobodyCounted'
    BY <1>1, <1>2, <2>1, <2>2
    DEF GroupInv, GroupAway, GroupSent, NobodyCounted, AtRest, groupVars
  <2>4. \A g \in Guides : Counted(g)' = Counted(g)
    BY <2>2 DEF Counted, groupVars
  <2>5. CountExact'
    BY <1>2, <2>1, <2>2, <2>4 DEF GroupInv, CountExact, groupVars
  <2> QED BY <2>3, <2>5 DEF GroupInv
<1>6. CASE MemberReport(m)
  <2>1. /\ pc[m] = "reporting" /\ Goto(m, "reading") /\ checkins' = checkins
        /\ inbox' = inbox \union {m}
        /\ \A n \in Members : status'[n] = IF n = m THEN "FOLLOWING_GUIDE" ELSE status[n]
    BY <1>6 DEF MemberReport, TypeOK
  <2>2. pc[GuideOf[m]] \in Touring /\ status[m] = "AT_BRIDGE"
    BY <2>1 DEF GroupInv, GroupAway, GroupSent, AtRest
  <2>3. GroupAway' /\ GroupSent' /\ NobodyCounted'
    BY <1>1, <1>2, <2>1, <2>2
    DEF GroupInv, GroupAway, GroupSent, NobodyCounted, AtRest
  <2>4. \A g \in Guides : Counted(g)' = Counted(g)
    BY <2>1, <2>2 DEF Counted, Group
  <2>5. CountExact'
    BY <1>2, <2>1, <2>4 DEF GroupInv, CountExact
  <2> QED BY <2>3, <2>5 DEF GroupInv
<1> QED BY <1>3, <1>4, <1>5, <1>6 DEF MemberStep

LEMMA ArrivalGroup ==
    ASSUME TypeOK, GroupInv, Arrivals
    PROVE  GroupInv'
<1>1. ASSUME NEW g \in Guides, NEW d \in BOOLEAN, GuideArrive(g, d)
      PROVE  GroupInv'
  <2>1. /\ pc[g] = "elsewhere" /\ inbox' = inbox /\ checkins' = checkins
        /\ \A m \in Members :
              status'[m] = IF GuideOf[m] = g THEN "AT_BRIDGE_QUEUE" ELSE status[m]
    BY <1>1 DEF GuideArrive, SendGroupToQueue, Group
  <2>2. /\ \A m \in Members : pc'[m] = IF GuideOf[m] = g THEN "reading" ELSE pc[m]
        /\ \A h \in Guides : pc'[h] = IF h = g THEN "arrived" ELSE pc[h]
    BY <1>1, BridgeConstants DEF GuideArrive, Group, Processes, Parties
  <2>3. GroupAway' /\ GroupSent' /\ NobodyCounted'
    BY <2>1, <2>2, BridgeConstants
    DEF GroupInv, GroupAway, GroupSent, NobodyCounted, Touring, AtRest
  <2>4. \A h \in Guides : h # g => Counted(h)' = Counted(h)
    BY <2>1 DEF Counted, Group
  <2>5. CountExact'
    BY <2>1, <2>2, <2>4 DEF GroupInv, CountExact
  <2> QED BY <2>3, <2>5 DEF GroupInv
<1>2. ASSUME NEW v \in VIPs, NEW d \in BOOLEAN, VipArrive(v, d)
      PROVE  GroupInv'
  <2>1. v \in Parties /\ v \notin Guides
    BY BridgeConstants DEF Parties
  <2> QED BY <1>2, <2>1, PartyFrame DEF VipArrive, PartyStates
<1> QED BY <1>1, <1>2 DEF Arrivals

LEMMA EnvironmentGroup ==
    ASSUME TypeOK, GroupInv, Environment
    PROVE  GroupInv'
<1>1. ASSUME UNCHANGED pc, UNCHANGED groupVars
      PROVE  GroupInv'
  BY <1>1, GroupFrame
<1>2. CASE Nightfall \/ Daybreak \/ \E v \in VIPs : VipTold(v) \/ Dismiss(v) \/ Kill(v)
  BY <1>1, <1>2 DEF Nightfall, Daybreak, VipTold, Dismiss, Kill
<1>3. ASSUME NEW g \in Guides, GuideTold(g)
      PROVE  GroupInv'
  <2>1. UNCHANGED groupVars
    BY <1>3 DEF GuideTold
  <2>2. CASE pc[g] \in Asleep /\ Goto(g, Woken(pc[g]))
    <3>1. Woken(pc[g]) \in {"awake1", "awake2"} /\ g \in Parties
      BY <2>2 DEF Woken, Asleep, Parties
    <3> QED BY <2>1, <2>2, <3>1, PartyFrame DEF Asleep, PartyStates, Lined
  <2> QED BY <1>1, <1>3, <2>1, <2>2 DEF GuideTold
<1> QED BY <1>2, <1>3 DEF Environment

LEMMA NextGroup == TypeOK /\ GroupInv /\ [Next]_vars => GroupInv'
<1> SUFFICES ASSUME TypeOK, GroupInv, [Next]_vars PROVE GroupInv'
  OBVIOUS
<1>1. CASE Next
  BY <1>1, GuideGroup, VipGroup, MemberGroup, ArrivalGroup, EnvironmentGroup DEF Next
<1>2. CASE UNCHANGED vars
  BY <1>2, GroupFrame DEF vars
<1> QED BY <1>1, <1>2

LEMMA GroupInvHolds == Spec => [](TypeOK /\ GroupInv)
<1>1. Init => TypeOK /\ GroupInv
  BY InitTypes, InitGroup
<1>2. TypeOK /\ GroupInv /\ [Next]_vars => (TypeOK /\ GroupInv)'
  BY NextTypes, NextGroup
<1> QED BY <1>1, <1>2, PTL DEF Spec

(* A guide that goes on has its whole group with it, each member across    *)
(* and at rest and none of its check-ins left for the next attraction: for *)
(* any groups, by day and by night.                                        *)
THEOREM NobodyLeftBehind == Spec => []GroupStaysTogether
<1>1. GroupInv => GroupStaysTogether
  BY DEF GroupInv, GroupAway, GroupStaysTogether, Group, Touring, AtRest
<1> QED BY <1>1, GroupInvHolds, PTL

----------------------------------------------------------------------------
(* Where no VIP is dismissed *)

(* There is no VIP, or the night never falls. *)
NoDismissals == VIPs = {} \/ LastPhase = 0

(* Then no VIP is ever on its way to the cashier or killed: every P waits. *)
NobodyDismissed ==
    /\ kill_requested = {} /\ marked = {}
    /\ \A v \in VIPs : letters[v] = 0 /\ pc[v] \notin Dismissed

LEMMA NoNightForVips ==
    ASSUME TypeOK, NoDismissals, NEW v \in VIPs
    PROVE  ~night
<1>1. phase = 0
  BY BridgeConstants DEF TypeOK, NoDismissals
<1> QED BY <1>1 DEF night

LEMMA DismissedFrame ==
    ASSUME TypeOK, NobodyDismissed, NEW p \in Processes, NEW l, l \notin Dismissed, Goto(p, l),
           UNCHANGED << letters, marked, kill_requested >>
    PROVE  NobodyDismissed'
BY DEF NobodyDismissed, Goto, TypeOK, Processes, Parties

LEMMA VipStepDismissed ==
    ASSUME TypeOK, NoDismissals, NobodyDismissed, NEW v \in VIPs, VipStep(v)
    PROVE  /\ NobodyDismissed'
           /\ ~VipSendLeave(v) /\ ~VipAwaitTicket(v)
<1> USE DEF Dismissed
<1>1. /\ ~night /\ v \notin kill_requested
      /\ v \in Processes /\ pc[v] \notin Dismissed
  BY NoNightForVips DEF NobodyDismissed, Processes, Parties
<1>2. ~VipSendLeave(v) /\ ~VipAwaitTicket(v)
  BY <1>1 DEF VipSendLeave, VipAwaitTicket
<1>3. UNCHANGED << letters, marked, kill_requested >>
  BY <1>2 DEF VipStep, VipJoin, Join, CheckFirst, WakeUp, VipRecheck, VipProceed, TryPass, VipEnter,
         VipRetry, VipStartCrossing, StartCrossing, VipCross, VipLeave, LeaveBridge, vipVars
<1>4. ASSUME WakeUp(v)
      PROVE  NobodyDismissed'
  <2>1. Woken(pc[v]) \in {"awake1", "awake2", "reading"}
    BY <1>4 DEF WakeUp, Woken, Asleep
  <2> QED BY <1>1, <1>3, <1>4, <2>1, DismissedFrame DEF WakeUp
<1>5. ASSUME ~WakeUp(v)
      PROVE  NobodyDismissed'
  <2>1. \E l : l \notin Dismissed /\ Goto(v, l)
    BY <1>1, <1>2, <1>5
    DEF VipStep, VipJoin, Join, CheckFirst, VipRecheck, VipProceed, TryPass, VipEnter,
        VipRetry, VipStartCrossing, StartCrossing, VipCross, VipLeave, LeaveBridge, HasLeft
  <2> QED BY <1>1, <1>3, <2>1, DismissedFrame
<1> QED BY <1>2, <1>4, <1>5

LEMMA NextDismissed == TypeOK /\ NoDismissals /\ NobodyDismissed /\ [Next]_vars => NobodyDismissed'
<1> SUFFICES ASSUME TypeOK, NoDismissals, NobodyDismissed, [Next]_vars
             PROVE  NobodyDismissed'
  OBVIOUS
<1> USE DEF vipVars, clockVars, groupVars, bridgeVars
<1>1. ASSUME UNCHANGED << letters, marked, kill_requested >>,
             \A v \in VIPs : pc'[v] = pc[v]
      PROVE  NobodyDismissed'
  BY <1>1 DEF NobodyDismissed
<1>2. ASSUME NEW p \in Processes, p \notin VIPs, NEW l, Goto(p, l),
             UNCHANGED << letters, marked, kill_requested >>
      PROVE  NobodyDismissed'
  <2>1. \A v \in VIPs : pc'[v] = pc[v]
    BY <1>2 DEF Goto, TypeOK, Processes, Parties
  <2> QED BY <1>1, <1>2, <2>1
<1>3. ASSUME NEW g \in Guides, GuideStep(g)
      PROVE  NobodyDismissed'
  <2>1. g \in Processes /\ g \notin VIPs
    BY BridgeConstants DEF Processes, Parties
  <2>2. UNCHANGED << letters, marked, kill_requested >> /\ ((\E l : Goto(g, l)) \/ UNCHANGED pc)
    BY <1>3 DEF GuideStep, GuideJoin, Join, CheckFirst, WakeUp, GuideRecheck, GuideProceed, TryPass,
         GuideEnter, GuideRetry, StartCrossing, GuideCross, GuideCount, GuideLeave, LeaveBridge,
         SendGroupToQueue
  <2> QED BY <1>1, <1>2, <2>1, <2>2
<1>4. ASSUME NEW m \in Members, MemberStep(m)
      PROVE  NobodyDismissed'
  <2>1. m \in Processes /\ m \notin VIPs
    BY BridgeConstants DEF Processes, Parties
  <2>2. UNCHANGED << letters, marked, kill_requested >> /\ \E l : Goto(m, l)
    BY <1>4 DEF MemberStep, WakeUp, MemberRead, MemberStepOn, MemberStepOff, MemberReport
  <2> QED BY <1>2, <2>1, <2>2
<1>5. ASSUME NEW g \in Guides, NEW d \in BOOLEAN, GuideArrive(g, d)
      PROVE  NobodyDismissed'
  <2>1. \A v \in VIPs : pc'[v] = pc[v]
    BY <1>5, BridgeConstants DEF GuideArrive, Group, Processes, Parties
  <2> QED BY <1>1, <1>5, <2>1 DEF GuideArrive, SendGroupToQueue
<1>6. ASSUME NEW v \in VIPs, NEW d \in BOOLEAN, VipArrive(v, d)
      PROVE  NobodyDismissed'
  <2>1. \A w \in VIPs : pc'[w] = pc[w] \/ pc'[w] = "arrived"
    BY <1>6 DEF VipArrive, Goto, TypeOK, Processes, Parties
  <2> QED BY <1>6, <2>1 DEF VipArrive, NobodyDismissed, Dismissed
<1>7. ASSUME NEW g \in Guides, GuideTold(g)
      PROVE  NobodyDismissed'
  <2>1. g \in Processes /\ g \notin VIPs
    BY BridgeConstants DEF Processes, Parties
  <2> QED BY <1>1, <1>2, <1>7, <2>1 DEF GuideTold
<1>8. ASSUME NEW v \in VIPs, VipTold(v) \/ Dismiss(v) \/ Kill(v)
      PROVE  NobodyDismissed'
  <2>1. letters[v] = 0 /\ v \notin marked
    BY DEF NobodyDismissed
  <2>2. VipTold(v)
    BY <1>8, <2>1 DEF Dismiss, Kill
  <2> QED BY <1>1, <2>2 DEF VipTold
<1>9. CASE Nightfall \/ Daybreak \/ UNCHANGED vars
  BY <1>1, <1>9 DEF Nightfall, Daybreak, vars
<1> QED BY <1>3, <1>4, <1>5, <1>6, <1>7, <1>8, <1>9, VipStepDismissed
        DEF Next, Arrivals, Environment

(* Whoever uses the bridge goes its way. *)
DirectionKept == \A p \in Using : track[p] = bridge_direction

(* Every place on the bridge is either free or under somebody's feet. *)
SeatsCounted == sem + Cardinality(Span) = BridgeLimit

DayInv == MutexBinary /\ GroupsCounted /\ DirectionKept /\ SeatsCounted

Entering == {p \in Parties : pc[p] = "entering"}
Leaders == {p \in Parties : pc[p] \in OnSpan}

LEMMA PartiesFinite ==
    ASSUME NEW S \in SUBSET Parties
    PROVE  IsFiniteSet(S) /\ Cardinality(S) \in Nat
<1>1. IsFiniteSet(Parties)
  BY BridgeConstants, FS_Union DEF Parties
<1>2. IsFiniteSet(S)
  BY <1>1, FS_Subset
<1> QED BY <1>2, FS_CardinalityType

LEMMA SpanFinite == IsFiniteSet(Span) /\ Cardinality(Span) \in Nat
<1>1. Leaders \in SUBSET Parties /\ MembersCrossing \in SUBSET Members
  BY DEF Leaders, MembersCrossing
<1>2. IsFiniteSet(Leaders \union PeopleOf(MembersCrossing))
  BY <1>1, PartiesFinite, PeopleFinite, FS_Union
<1>3. Span = Leaders \union PeopleOf(MembersCrossing)
  BY DEF Span, Leaders, PeopleOf
<1> QED BY <1>2, <1>3, FS_CardinalityType

(* A step that leaves everybody's place as it is, as far as this invariant *)
(* tells places apart.                                                     *)
LEMMA DayFrame ==
    ASSUME DayInv, UNCHANGED << bridgeVars, mutex, sem >>,
           \A p \in Parties :
              /\ pc'[p] \in Admitted <=> pc[p] \in Admitted
              /\ pc'[p] \in OnSpan <=> pc[p] \in OnSpan
              /\ pc'[p] = "entering" <=> pc[p] = "entering"
              /\ pc[p] \in Admitted => track'[p] = track[p],
           \A m \in Members : pc'[m] = "crossing" <=> pc[m] = "crossing"
    PROVE  DayInv'
<1>1. Using' = Using /\ Span' = Span
  BY DEF Using, Span, MembersCrossing
<1>2. {p \in Parties : pc[p] = "entering"}' = {p \in Parties : pc[p] = "entering"}
  OBVIOUS
<1>3. \A p \in Using : track'[p] = track[p]
  BY DEF Using
<1>4. MutexBinary'
  BY <1>2 DEF DayInv, MutexBinary
<1>5. GroupsCounted' /\ SeatsCounted'
  BY <1>1 DEF DayInv, GroupsCounted, SeatsCounted, bridgeVars
<1>6. DirectionKept'
  BY <1>1, <1>3 DEF DayInv, DirectionKept, bridgeVars
<1> QED BY <1>4, <1>5, <1>6 DEF DayInv

(* Where everybody is after p has gone to l. *)
LEMMA Places ==
    ASSUME TypeOK, NEW p \in Parties, NEW l, Goto(p, l)
    PROVE  /\ Using' = IF l \in Admitted THEN Using \union {p} ELSE Using \ {p}
           /\ Entering' = IF l = "entering" THEN Entering \union {p} ELSE Entering \ {p}
           /\ Span' = IF l \in OnSpan THEN Span \union {p} ELSE Span \ {p}
<1>1. \A q \in Parties : pc'[q] = IF q = p THEN l ELSE pc[q]
  BY DEF Goto, TypeOK, Processes
<1>2. \A m \in Members : pc'[m] = pc[m]
  BY BridgeConstants DEF Goto, TypeOK, Processes
<1>3. Using' = IF l \in Admitted THEN Using \union {p} ELSE Using \ {p}
  BY <1>1 DEF Using
<1>4. Entering' = IF l = "entering" THEN Entering \union {p} ELSE Entering \ {p}
  BY <1>1 DEF Entering
<1>5. Leaders' = IF l \in OnSpan THEN Leaders \union {p} ELSE Leaders \ {p}
  BY <1>1 DEF Leaders
<1>6. PeopleOf(MembersCrossing)' = PeopleOf(MembersCrossing)
  BY <1>2 DEF PeopleOf, MembersCrossing
<1>7. p \notin PeopleOf(MembersCrossing)
  BY BridgeConstants DEF PeopleOf, MembersCrossing
<1>8. Span = Leaders \union PeopleOf(MembersCrossing)
  BY DEF Span, Leaders, PeopleOf
<1>9. Span' = Leaders' \union PeopleOf(MembersCrossing)'
  BY DEF Span, Leaders, PeopleOf
<1>10. Span' = IF l \in OnSpan THEN Span \union {p} ELSE Span \ {p}
  BY <1>5, <1>6, <1>7, <1>8, <1>9
<1> QED BY <1>3, <1>4, <1>10

(* A party that goes from one place to another of the same kind. *)
LEMMA DayPartyFrame ==
    ASSUME TypeOK, DayInv, NEW p \in Parties, NEW l, Goto(p, l),
           UNCHANGED << track, bridgeVars, mutex, sem >>,
           l \in Admitted <=> pc[p] \in Admitted,
           l \in OnSpan <=> pc[p] \in OnSpan,
           l = "entering" <=> pc[p] = "entering"
    PROVE  DayInv'
<1>1. \A q \in Parties : pc'[q] = IF q = p THEN l ELSE pc[q]
  BY DEF Goto, TypeOK, Processes
<1>2. \A m \in Members : pc'[m] = pc[m]
  BY BridgeConstants DEF Goto, TypeOK, Processes
<1> QED BY <1>1, <1>2, DayFrame

LEMMA InitDay == Init => NobodyDismissed /\ DayInv
<1> SUFFICES ASSUME Init PROVE NobodyDismissed /\ DayInv
  OBVIOUS
<1>1. /\ \A p \in Parties : pc[p] = "elsewhere"
      /\ \A m \in Members : pc[m] = "reading"
  BY BridgeConstants DEF Init, Processes
<1>2. Using = {} /\ Span = {} /\ Entering = {}
  BY <1>1 DEF Using, Span, MembersCrossing, Entering, Admitted, OnSpan
<1>3. BridgeLimit \in Nat
  BY BridgeConstants
<1>4. MutexBinary
  <2>1. Cardinality(Entering) = 0
    BY <1>2, FS_EmptySet
  <2> QED BY <2>1 DEF Init, MutexBinary, Entering
<1>5. GroupsCounted /\ SeatsCounted /\ DirectionKept
  BY <1>2, <1>3, FS_EmptySet DEF Init, GroupsCounted, SeatsCounted, DirectionKept
<1>6. NobodyDismissed
  BY <1>1 DEF Init, NobodyDismissed, Dismissed, Parties
<1> QED BY <1>4, <1>5, <1>6 DEF DayInv

LEMMA TryPassDay ==
    ASSUME TypeOK, NobodyDismissed, DayInv, NEW p \in Parties, TryPass(p)
    PROVE  DayInv'
<1> USE DEF Admitted, OnSpan
<1>1. pc[p] = "trying" /\ p \notin kill_requested
  BY DEF TryPass, NobodyDismissed
<1>2. CASE Goto(p, "asleep2")
  <2>1. UNCHANGED << track, bridgeVars, mutex, sem >>
    BY <1>1, <1>2 DEF TryPass, Section, Goto, TypeOK, Processes, bridgeVars
  <2> QED BY <1>1, <1>2, <2>1, DayPartyFrame
<1>3. CASE ~Goto(p, "asleep2")
  <2>1. /\ bridge_direction = track[p] \/ groups_on_bridge = 0
        /\ mutex' = mutex - 1
        /\ bridge_direction' = track[p]
        /\ groups_on_bridge' = groups_on_bridge + 1
        /\ Goto(p, "entering") /\ UNCHANGED << track, sem >>
    BY <1>1, <1>3 DEF TryPass
  <2>2. /\ Using' = Using \union {p} /\ p \notin Using /\ Using \in SUBSET Parties
        /\ Entering' = Entering \union {p} /\ p \notin Entering /\ Entering \in SUBSET Parties
        /\ Span' = Span \ {p}
    BY <1>1, <2>1, Places DEF Using, Entering
  <2>3. p \notin Span
    BY <1>1, BridgeConstants DEF Span, MembersCrossing
  <2>4. Span' = Span
    BY <2>2, <2>3
  <2>5. /\ Cardinality(Using') = Cardinality(Using) + 1
        /\ Cardinality(Entering') = Cardinality(Entering) + 1
        /\ Cardinality(Using) \in Nat /\ Cardinality(Entering) \in Nat
    BY <2>2, PartiesFinite, FS_AddElement
  <2>6. MutexBinary'
    <3>1. mutex + Cardinality(Entering) = 1
      BY DEF DayInv, MutexBinary, Entering
    <3>2. mutex' + Cardinality(Entering') = 1
      BY <2>1, <2>5, <3>1 DEF TypeOK
    <3> QED BY <3>2 DEF MutexBinary, Entering
  <2>7. GroupsCounted' /\ SeatsCounted'
    BY <2>1, <2>4, <2>5 DEF DayInv, GroupsCounted, SeatsCounted
  <2>8. DirectionKept'
    <3>1. CASE bridge_direction = track[p]
      BY <2>1, <2>2, <3>1 DEF DayInv, DirectionKept
    <3>2. CASE groups_on_bridge = 0
      <4>1. Cardinality(Using) = 0
        BY <3>2 DEF DayInv, GroupsCounted
      <4>2. Using = {}
        BY <2>2, <4>1, PartiesFinite, FS_EmptySet
      <4> QED BY <2>1, <2>2, <4>2 DEF DirectionKept
    <3> QED BY <2>1, <3>1, <3>2
  <2> QED BY <2>6, <2>7, <2>8 DEF DayInv
<1> QED BY <1>2, <1>3

(* GuideEnter and VipEnter: a seat is taken and the mutex given back. *)
LEMMA EnterDay ==
    ASSUME TypeOK, DayInv, NEW p \in Parties, NEW l \in {"popping", "entered"},
           pc[p] = "entering", Goto(p, l), sem' = sem - 1, mutex' = mutex + 1,
           UNCHANGED << track, bridgeVars >>
    PROVE  DayInv'
<1> USE DEF Admitted, OnSpan
<1>1. /\ Using' = Using \union {p} /\ p \in Using
      /\ Entering' = Entering \ {p} /\ p \in Entering /\ Entering \in SUBSET Parties
      /\ Span' = Span \union {p}
  BY Places DEF Using, Entering
<1>2. p \notin Span
  BY BridgeConstants DEF Span, MembersCrossing
<1>3. Using' = Using
  BY <1>1
<1>4. /\ Cardinality(Entering') = Cardinality(Entering) - 1
      /\ Cardinality(Entering) \in Nat
  BY <1>1, PartiesFinite, FS_RemoveElement
<1>5. /\ Cardinality(Span') = Cardinality(Span) + 1
      /\ Cardinality(Span) \in Nat
  BY <1>1, <1>2, SpanFinite, FS_AddElement
<1>6. MutexBinary'
  <2>1. mutex + Cardinality(Entering) = 1
    BY DEF DayInv, MutexBinary, Entering
  <2>2. mutex' + Cardinality(Entering') = 1
    BY <1>4, <2>1 DEF TypeOK
  <2> QED BY <2>2 DEF MutexBinary, Entering
<1>7. SeatsCounted'
  BY <1>5 DEF DayInv, SeatsCounted, TypeOK
<1>8. GroupsCounted' /\ DirectionKept'
  BY <1>3 DEF DayInv, GroupsCounted, DirectionKept, bridgeVars
<1> QED BY <1>6, <1>7, <1>8 DEF DayInv

(* GuideCross and VipCross: the leader steps off. *)
LEMMA CrossDay ==
    ASSUME TypeOK, DayInv, NEW p \in Parties, NEW l \in {"gathering", "leaving"},
           pc[p] = "crossing", Goto(p, l), sem' = sem + 1,
           UNCHANGED << track, bridgeVars, mutex >>
    PROVE  DayInv'
<1> USE DEF Admitted, OnSpan
<1>1. /\ Using' = Using \union {p} /\ p \in Using
      /\ Entering' = Entering \ {p} /\ p \notin Entering
      /\ Span' = Span \ {p} /\ p \in Span
  BY Places DEF Using, Entering, Span
<1>2. Using' = Using /\ Entering' = Entering
  BY <1>1
<1>3. /\ Cardinality(Span') = Cardinality(Span) - 1
      /\ Cardinality(Span) \in Nat
  BY <1>1, SpanFinite, FS_RemoveElement
<1>4. MutexBinary'
  BY <1>2 DEF DayInv, MutexBinary, Entering
<1>5. SeatsCounted'
  BY <1>3 DEF DayInv, SeatsCounted, TypeOK
<1>6. GroupsCounted' /\ DirectionKept'
  BY <1>2 DEF DayInv, GroupsCounted, DirectionKept, bridgeVars
<1> QED BY <1>4, <1>5, <1>6 DEF DayInv

LEMMA LeaveBridgeDay ==
    ASSUME TypeOK, NobodyDismissed, DayInv, NEW p \in Parties,
           pc[p] \in {"gathering", "leaving"}, LeaveBridge(p)
    PROVE  DayInv'
<1> USE DEF Admitted, OnSpan
<1>1. /\ Goto(p, "elsewhere") /\ mutex' = mutex
      /\ groups_on_bridge' = groups_on_bridge - 1
      /\ UNCHANGED << track, bridge_direction, sem >>
  BY DEF LeaveBridge, Section, NobodyDismissed
<1>2. /\ Using' = Using \ {p} /\ p \in Using /\ Using \in SUBSET Parties
      /\ Entering' = Entering \ {p} /\ p \notin Entering
      /\ Span' = Span \ {p}
  BY <1>1, Places DEF Using, Entering
<1>3. p \notin Span
  BY BridgeConstants DEF Span, MembersCrossing
<1>4. Entering' = Entering /\ Span' = Span
  BY <1>2, <1>3
<1>5. /\ Cardinality(Using') = Cardinality(Using) - 1
      /\ Cardinality(Using) \in Nat
  BY <1>2, PartiesFinite, FS_RemoveElement
<1>6. MutexBinary' /\ SeatsCounted'
  BY <1>1, <1>4 DEF DayInv, MutexBinary, SeatsCounted, Entering
<1>7. GroupsCounted'
  BY <1>1, <1>5 DEF DayInv, GroupsCounted
<1>8. DirectionKept'
  BY <1>1, <1>2 DEF DayInv, DirectionKept
<1> QED BY <1>6, <1>7, <1>8 DEF DayInv

(* The steps of a party that change neither its use of the bridge nor its  *)
(* place on it.                                                            *)
LEMMA SharedDay ==
    ASSUME TypeOK, NobodyDismissed, DayInv, NEW p \in Parties,
           \/ pc[p] = "arrived" /\ Join(p)
           \/ CheckFirst(p) \/ WakeUp(p) \/ StartCrossing(p)
    PROVE  DayInv'
<1> USE DEF Admitted, OnSpan
<1>1. ASSUME Section(p)
      PROVE  mutex' = mutex
  BY <1>1 DEF Section, NobodyDismissed
<1>2. CASE pc[p] = "arrived" /\ Join(p)
  BY <1>1, <1>2, DayPartyFrame DEF Join
<1>3. CASE CheckFirst(p)
  <2>1. PICK l \in {"first", "asleep1"} : Goto(p, l)
    BY <1>3 DEF CheckFirst
  <2>2. pc[p] = "queued" /\ UNCHANGED << track, bridgeVars, mutex, sem >>
    BY <1>1, <1>3 DEF CheckFirst
  <2> QED BY <2>1, <2>2, DayPartyFrame
<1>4. CASE WakeUp(p)
  <2>1. pc[p] \in Asleep \union {"waiting"} /\ Goto(p, Woken(pc[p]))
    BY <1>4 DEF WakeUp
  <2>2. Woken(pc[p]) \in {"awake1", "awake2", "reading"}
    BY <2>1 DEF Woken, Asleep
  <2>3. UNCHANGED << track, bridgeVars, mutex, sem >>
    BY <1>4 DEF WakeUp
  <2> QED BY <2>1, <2>2, <2>3, DayPartyFrame DEF Asleep
<1>5. CASE StartCrossing(p)
  <2>1. pc[p] = "popping" /\ Goto(p, "crossing") /\ UNCHANGED << track, bridgeVars, mutex, sem >>
    BY <1>1, <1>5 DEF StartCrossing
  <2> QED BY <2>1, DayPartyFrame
<1> QED BY <1>2, <1>3, <1>4, <1>5

LEMMA GuideDay ==
    ASSUME TypeOK, NobodyDismissed, DayInv, NEW g \in Guides, GuideStep(g)
    PROVE  DayInv'
<1> USE DEF Admitted, OnSpan
<1>1. g \in Parties
  BY DEF Parties
<1>2. ASSUME Section(g)
      PROVE  mutex' = mutex
  BY <1>2 DEF Section, NobodyDismissed
<1>3. CASE GuideJoin(g)
  <2>1. CASE g \in leave_park
    BY <1>1, <1>3, <2>1, DayPartyFrame DEF GuideJoin
  <2>2. CASE g \notin leave_park
    BY <1>1, <1>3, <2>2, SharedDay DEF GuideJoin
  <2> QED BY <2>1, <2>2
<1>4. CASE CheckFirst(g) \/ WakeUp(g) \/ StartCrossing(g)
  BY <1>1, <1>4, SharedDay
<1>5. CASE GuideRecheck(g)
  <2>1. /\ pc[g] = "awake1" /\ UNCHANGED << track, bridgeVars, mutex, sem >>
        /\ Goto(g, "elsewhere") \/ Goto(g, "queued")
    BY <1>2, <1>5 DEF GuideRecheck
  <2> QED BY <1>1, <2>1, DayPartyFrame
<1>6. CASE GuideProceed(g)
  <2>1. /\ pc[g] = "first" /\ UNCHANGED << track, bridgeVars, mutex, sem >>
        /\ Goto(g, "arrived") \/ Goto(g, "trying")
    BY <1>6 DEF GuideProceed, SendGroupToQueue
  <2> QED BY <1>1, <2>1, DayPartyFrame
<1>7. CASE TryPass(g)
  BY <1>1, <1>7, TryPassDay
<1>8. CASE GuideEnter(g)
  BY <1>1, <1>8, EnterDay DEF GuideEnter
<1>9. CASE GuideRetry(g)
  <2>1. /\ pc[g] = "awake2" /\ UNCHANGED << track, bridgeVars, mutex, sem >>
        /\ Goto(g, "elsewhere") \/ Goto(g, "trying")
    BY <1>2, <1>9 DEF GuideRetry
  <2> QED BY <1>1, <2>1, DayPartyFrame
<1>10. CASE GuideCross(g)
  BY <1>1, <1>10, CrossDay DEF GuideCross
<1>11. CASE GuideCount(g)
  BY <1>11, DayFrame DEF GuideCount
<1>12. CASE GuideLeave(g)
  BY <1>1, <1>12, LeaveBridgeDay DEF GuideLeave
<1> QED BY <1>3, <1>4, <1>5, <1>6, <1>7, <1>8, <1>9, <1>10, <1>11, <1>12 DEF GuideStep

LEMMA VipDay ==
    ASSUME TypeOK, NoDismissals, NobodyDismissed, DayInv, NEW v \in VIPs, VipStep(v)
    PROVE  DayInv'
<1> USE DEF Admitted, OnSpan
<1>1. v \in Parties /\ ~night /\ v \notin kill_requested /\ pc[v] \notin Dismissed
  BY NoNightForVips DEF NobodyDismissed, Parties
<1>2. ASSUME Section(v)
      PROVE  mutex' = mutex
  BY <1>2 DEF Section, NobodyDismissed
<1>3. CASE VipJoin(v)
  BY <1>1, <1>3, SharedDay DEF VipJoin
<1>4. CASE CheckFirst(v) \/ WakeUp(v) \/ StartCrossing(v)
  BY <1>1, <1>4, SharedDay
<1>5. CASE VipRecheck(v)
  BY <1>1, <1>5, DayPartyFrame DEF VipRecheck
<1>6. CASE VipProceed(v)
  BY <1>1, <1>6, DayPartyFrame DEF VipProceed, HasLeft
<1>7. CASE TryPass(v)
  BY <1>1, <1>7, TryPassDay
<1>8. CASE VipEnter(v)
  BY <1>1, <1>8, EnterDay DEF VipEnter
<1>9. CASE VipRetry(v)
  BY <1>1, <1>9, DayPartyFrame DEF VipRetry
<1>10. ~VipSendLeave(v) /\ ~VipAwaitTicket(v)
  BY VipStepDismissed
<1>11. CASE VipStartCrossing(v)
  BY <1>1, <1>11, DayPartyFrame DEF VipStartCrossing, HasLeft, Dismissed
<1>12. CASE VipCross(v)
  BY <1>1, <1>12, CrossDay DEF VipCross
<1>13. CASE VipLeave(v)
  BY <1>1, <1>13, LeaveBridgeDay DEF VipLeave
<1> QED BY <1>3, <1>4, <1>5, <1>6, <1>7, <1>8, <1>9, <1>10, <1>11, <1>12, <1>13 DEF VipStep

LEMMA MemberDay ==
    ASSUME TypeOK, DayInv, NEW m \in Members, MemberStep(m)
    PROVE  DayInv'
<1>1. m \in Processes /\ m \notin Parties
  BY BridgeConstants DEF Processes
<1>2. ASSUME NEW l, Goto(m, l)
      PROVE  /\ \A p \in Parties : pc'[p] = pc[p]
             /\ \A n \in Members : pc'[n] = IF n = m THEN l ELSE pc[n]
             /\ Leaders' = Leaders /\ Using' = Using /\ Entering' = Entering
  <2>1. \A p \in Parties : pc'[p] = pc[p]
    BY <1>1, <1>2 DEF Goto, TypeOK, Processes
  <2>2. \A n \in Members : pc'[n] = IF n = m THEN l ELSE pc[n]
    BY <1>1, <1>2 DEF Goto, TypeOK, Processes
  <2> QED BY <2>1, <2>2 DEF Leaders, Using, Entering
<1>3. /\ Span = Leaders \union PeopleOf(MembersCrossing)
      /\ Span' = Leaders' \union PeopleOf(MembersCrossing)'
  BY DEF Span, Leaders, PeopleOf
<1>4. Cardinality(Span) \in Nat /\ IsFiniteSet(Span) /\ Seats(m) \in Nat
  BY SpanFinite, SeatsArePeople
<1>5. CASE WakeUp(m) \/ MemberRead(m) \/ MemberReport(m)
  <2>1. PICK l \in {"reading", "boarding", "waiting", "awake1", "awake2"} : Goto(m, l)
    BY <1>5 DEF WakeUp, Woken, Asleep, MemberRead, MemberReport
  <2>2. pc[m] # "crossing" /\ UNCHANGED << track, bridgeVars, mutex, sem >>
    BY <1>5 DEF WakeUp, Asleep, MemberRead, MemberReport
  <2> QED BY <1>2, <2>1, <2>2, DayFrame
<1>6. CASE MemberStepOn(m)
  <2>1. /\ pc[m] = "boarding" /\ Goto(m, "crossing") /\ sem' = sem - Seats(m)
        /\ UNCHANGED << track, bridgeVars, mutex >>
    BY <1>6 DEF MemberStepOn
  <2>2. MembersCrossing' = MembersCrossing \union {m} /\ m \notin MembersCrossing
    BY <1>2, <2>1 DEF MembersCrossing
  <2>3. PeopleOf(MembersCrossing)' = PeopleOf(MembersCrossing) \union Family[m]
    BY <2>2 DEF PeopleOf
  <2>4. Span' = Span \union Family[m]
    BY <1>2, <1>3, <2>1, <2>3
  <2>5. Span \intersect Family[m] = {}
    BY <1>3, <2>2, BridgeConstants DEF Leaders, PeopleOf, MembersCrossing
  <2>6. Cardinality(Span \intersect Family[m]) = 0
    BY <2>5, FS_EmptySet
  <2>7. Cardinality(Span') = Cardinality(Span) + Seats(m)
    <3>1. IsFiniteSet(Family[m])
      BY SeatsArePeople
    <3>2. Cardinality(Span \union Family[m]) =
            Cardinality(Span) + Cardinality(Family[m]) - Cardinality(Span \intersect Family[m])
      BY <1>4, <3>1, FS_Union
    <3> QED BY <1>4, <2>4, <2>6, <3>2 DEF Seats
  <2>8. SeatsCounted'
    BY <1>4, <2>1, <2>7 DEF DayInv, SeatsCounted, TypeOK
  <2>9. MutexBinary' /\ GroupsCounted' /\ DirectionKept'
    BY <1>2, <2>1 DEF DayInv, MutexBinary, GroupsCounted, DirectionKept, Entering, bridgeVars
  <2> QED BY <2>8, <2>9 DEF DayInv
<1>7. CASE MemberStepOff(m)
  <2>1. /\ pc[m] = "crossing" /\ Goto(m, "reporting") /\ sem' = sem + Seats(m)
        /\ UNCHANGED << track, bridgeVars, mutex >>
    BY <1>7 DEF MemberStepOff
  <2>2. MembersCrossing' = MembersCrossing \ {m} /\ m \in MembersCrossing
    BY <1>2, <2>1 DEF MembersCrossing
  <2>3. PeopleOf(MembersCrossing) = PeopleOf(MembersCrossing)' \union Family[m]
    BY <2>2 DEF PeopleOf
  <2>4. Span = Span' \union Family[m]
    BY <1>2, <1>3, <2>1, <2>3
  <2>5. Span' \intersect Family[m] = {}
    BY <1>2, <1>3, <2>1, <2>2, BridgeConstants DEF Leaders, PeopleOf, MembersCrossing
  <2>6. Cardinality(Span' \intersect Family[m]) = 0
    BY <2>5, FS_EmptySet
  <2>7. IsFiniteSet(Span') /\ Cardinality(Span') \in Nat
    <3>1. Span' \in SUBSET Span
      BY <2>4
    <3>2. IsFiniteSet(Span')
      BY <1>4, <3>1, FS_Subset
    <3> QED BY <3>2, FS_CardinalityType
  <2>8. Cardinality(Span) = Cardinality(Span') + Seats(m)
    <3>1. IsFiniteSet(Family[m])
      BY SeatsArePeople
    <3>2. Cardinality(Span' \union Family[m]) =
            Cardinality(Span') + Cardinality(Family[m]) - Cardinality(Span' \intersect Family[m])
      BY <2>7, <3>1, FS_Union
    <3> QED BY <1>4, <2>4, <2>6, <2>7, <3>2 DEF Seats
  <2>9. SeatsCounted'
    BY <1>4, <2>1, <2>7, <2>8 DEF DayInv, SeatsCounted, TypeOK
  <2>10. MutexBinary' /\ GroupsCounted' /\ DirectionKept'
    BY <1>2, <2>1 DEF DayInv, MutexBinary, GroupsCounted, DirectionKept, Entering, bridgeVars
  <2> QED BY <2>9, <2>10 DEF DayInv
<1> QED BY <1>5, <1>6, <1>7 DEF MemberStep

LEMMA NextDay ==
    TypeOK /\ NoDismissals /\ NobodyDismissed /\ GroupInv /\ DayInv /\ [Next]_vars => DayInv'
<1> SUFFICES ASSUME TypeOK, NoDismissals, NobodyDismissed, GroupInv, DayInv, [Next]_vars
             PROVE  DayInv'
  OBVIOUS
<1> USE DEF Admitted, OnSpan, bridgeVars
<1>1. ASSUME NEW g \in Guides, NEW d \in BOOLEAN, GuideArrive(g, d)
      PROVE  DayInv'
  <2>1. /\ pc[g] = "elsewhere"
        /\ \A p \in Parties : /\ pc'[p] = IF p = g THEN "arrived" ELSE pc[p]
                              /\ p # g => track'[p] = track[p]
    BY <1>1, BridgeConstants DEF GuideArrive, Group, Processes, Parties, TypeOK
  <2>2. \A m \in Members : pc'[m] = IF GuideOf[m] = g THEN "reading" ELSE pc[m]
    BY <1>1, BridgeConstants DEF GuideArrive, Group, Processes, Parties
  <2>3. \A m \in Members : GuideOf[m] = g => pc[m] # "crossing"
    BY <2>1 DEF GroupInv, GroupAway, Touring, AtRest
  <2>4. UNCHANGED << bridgeVars, mutex, sem >>
    BY <1>1 DEF GuideArrive, SendGroupToQueue
  <2> QED BY <2>1, <2>2, <2>3, <2>4, DayFrame
<1>2. ASSUME NEW v \in VIPs, NEW d \in BOOLEAN, VipArrive(v, d)
      PROVE  DayInv'
  <2>1. /\ pc[v] = "elsewhere"
        /\ \A p \in Parties : /\ pc'[p] = IF p = v THEN "arrived" ELSE pc[p]
                              /\ p # v => track'[p] = track[p]
    BY <1>2 DEF VipArrive, Goto, Processes, Parties, TypeOK
  <2>2. \A m \in Members : pc'[m] = pc[m]
    BY <1>2, BridgeConstants DEF VipArrive, Goto, Processes, Parties, TypeOK
  <2> QED BY <1>2, <2>1, <2>2, DayFrame DEF VipArrive
<1>3. ASSUME UNCHANGED << pc, track, bridgeVars, mutex, sem >>
      PROVE  DayInv'
  BY <1>3, DayFrame
<1>4. ASSUME NEW g \in Guides, GuideTold(g)
      PROVE  DayInv'
  <2>1. CASE pc[g] \in Asleep /\ Goto(g, Woken(pc[g]))
    <3>1. Woken(pc[g]) \in {"awake1", "awake2"} /\ g \in Parties
      BY <2>1 DEF Woken, Asleep, Parties
    <3> QED BY <1>4, <2>1, <3>1, DayPartyFrame DEF GuideTold, Asleep
  <2> QED BY <1>3, <1>4, <2>1 DEF GuideTold
<1>5. CASE \/ Nightfall \/ Daybreak \/ UNCHANGED vars
           \/ \E v \in VIPs : VipTold(v) \/ Dismiss(v) \/ Kill(v)
  BY <1>3, <1>5 DEF Nightfall, Daybreak, VipTold, Dismiss, Kill, vars
<1> QED BY <1>1, <1>2, <1>4, <1>5, GuideDay, VipDay, MemberDay DEF Next, Arrivals, Environment

DayKept == TypeOK /\ GroupInv /\ NobodyDismissed /\ DayInv

LEMMA DayHolds == ASSUME NoDismissals PROVE Spec => []DayKept
<1>1. Init => DayKept
  BY InitTypes, InitGroup, InitDay DEF DayKept
<1>2. DayKept /\ [Next]_vars => DayKept'
  BY NextTypes, NextGroup, NextDismissed, NextDay DEF DayKept
<1> QED BY <1>1, <1>2, PTL DEF Spec

(* A member that is on its way has a guide that uses the bridge. *)
LEMMA GuideOfBoarder ==
    ASSUME GroupInv, NEW m \in Members, pc[m] \in {"boarding", "crossing", "reporting"}
    PROVE  GuideOf[m] \in Using
<1>1. pc[GuideOf[m]] \in Touring
  BY DEF GroupInv, GroupAway, AtRest
<1> QED BY <1>1, BridgeConstants DEF Touring, Using, Admitted, OnSpan, Parties

(* As long as no VIP is dismissed, for any groups, families, limit and     *)
(* capacity and with guides told to leave at any moment: one process at a  *)
(* time is inside the sections of MUTEX_BRIDGE, ...                        *)
THEOREM BridgeMutexIsBinary == ASSUME NoDismissals PROVE Spec => []MutexBinary
<1>1. DayKept => MutexBinary
  BY DEF DayKept, DayInv
<1> QED BY <1>1, DayHolds, PTL

(* ... groups_on_bridge counts the parties that use the bridge, ...        *)
THEOREM BridgeCountsItsGroups == ASSUME NoDismissals PROVE Spec => []GroupsCounted
<1>1. DayKept => GroupsCounted
  BY DEF DayKept, DayInv
<1> QED BY <1>1, DayHolds, PTL

(* ... all of them and their members go one way, ...                       *)
THEOREM BridgeIsOneWay == ASSUME NoDismissals PROVE Spec => []OneDirection
<1>1. DayKept => OneDirection
  BY GuideOfBoarder DEF DayKept, DayInv, DirectionKept, OneDirection
<1> QED BY <1>1, DayHolds, PTL

(* ... and the people on it, kids included, are no more than BRIDGE_LIMIT. *)
THEOREM BridgeIsSafe == ASSUME NoDismissals PROVE Spec => []WithinLimit
<1>1. DayKept => WithinLimit
  BY SpanFinite, BridgeConstants DEF DayKept, DayInv, SeatsCounted, WithinLimit, TypeOK
<1> QED BY <1>1, DayHolds, PTL

----------------------------------------------------------------------------
(* The mutex, by day and by night *)

(* No step but the second half of try_pass_bridge lets go of the mutex it  *)
(* holds, and none takes it without keeping it.                            *)
LEMMA MutexFrame ==
    ASSUME TypeOK, MutexNotLost, mutex' \in Nat, mutex' >= mutex,
           \A p \in Parties : pc[p] = "entering" => pc'[p] = "entering"
    PROVE  MutexNotLost'
<1>1. Entering \in SUBSET Entering' /\ Entering' \in SUBSET Parties
  BY DEF Entering
<1>2. /\ Cardinality(Entering') \in Nat /\ Cardinality(Entering) \in Nat
      /\ Cardinality(Entering) <= Cardinality(Entering')
  BY <1>1, PartiesFinite, FS_Subset
<1>3. mutex + Cardinality(Entering) >= 1
  BY DEF MutexNotLost, Entering
<1>4. mutex' + Cardinality(Entering') >= 1
  BY <1>2, <1>3 DEF TypeOK
<1> QED BY <1>4 DEF MutexNotLost, Entering

LEMMA MutexPartyFrame ==
    ASSUME TypeOK, MutexNotLost, NEW p \in Processes, NEW l, pc[p] # "entering", Goto(p, l),
           mutex' = mutex \/ mutex' = mutex + 1
    PROVE  MutexNotLost'
<1>1. \A q \in Parties : pc[q] = "entering" => pc'[q] = "entering"
  BY DEF Goto, TypeOK, Processes
<1>2. mutex' \in Nat /\ mutex' >= mutex
  BY DEF TypeOK
<1> QED BY <1>1, <1>2, MutexFrame

LEMMA TryPassMutex ==
    ASSUME TypeOK, MutexNotLost, NEW p \in Parties, TryPass(p)
    PROVE  MutexNotLost'
<1>0. p \in Processes /\ pc[p] = "trying"
  BY DEF TryPass, Processes
<1>1. CASE Goto(p, "asleep2") /\ Section(p)
  BY <1>0, <1>1, MutexPartyFrame DEF Section
<1>2. CASE Goto(p, "entering") /\ mutex > 0 /\ mutex' = mutex - 1
  <2>1. Entering' = Entering \union {p} /\ p \notin Entering /\ Entering \in SUBSET Parties
    BY <1>0, <1>2, Places DEF Entering
  <2>2. Cardinality(Entering') = Cardinality(Entering) + 1 /\ Cardinality(Entering) \in Nat
    BY <2>1, PartiesFinite, FS_AddElement
  <2>3. mutex' + Cardinality(Entering') >= 1
    BY <1>2, <2>2 DEF TypeOK
  <2> QED BY <2>3 DEF MutexNotLost, Entering
<1>3. CASE Goto(p, "entering") /\ mutex' = mutex
  BY <1>0, <1>3, MutexPartyFrame
<1> QED BY <1>1, <1>2, <1>3 DEF TryPass

LEMMA EnterMutex ==
    ASSUME TypeOK, MutexNotLost, NEW p \in Parties, NEW l \in {"popping", "entered"},
           pc[p] = "entering", Goto(p, l), mutex' = mutex + 1
    PROVE  MutexNotLost'
<1>1. Entering' = Entering \ {p} /\ Entering \in SUBSET Parties
  BY Places DEF Entering
<1>2. Cardinality(Entering') \in Nat
  BY <1>1, PartiesFinite
<1>3. mutex' + Cardinality(Entering') >= 1
  BY <1>2 DEF TypeOK
<1> QED BY <1>3 DEF MutexNotLost, Entering

LEMMA PartyMutex ==
    ASSUME TypeOK, MutexNotLost, NEW p \in Parties,
           (p \in Guides /\ GuideStep(p)) \/ (p \in VIPs /\ VipStep(p))
    PROVE  MutexNotLost'
<1>0. p \in Processes
  BY DEF Processes
<1>1. CASE TryPass(p)
  BY <1>1, TryPassMutex
<1>2. CASE GuideEnter(p) \/ VipEnter(p)
  BY <1>2, EnterMutex DEF GuideEnter, VipEnter
<1>3. CASE GuideCount(p)
  <2>1. pc' = pc /\ mutex' = mutex
    BY <1>3 DEF GuideCount
  <2> QED BY <2>1, MutexFrame DEF TypeOK
<1>4. CASE WakeUp(p) \/ CheckFirst(p) \/ StartCrossing(p)
  <2>1. /\ pc[p] # "entering" /\ \E l : Goto(p, l)
        /\ mutex' = mutex \/ mutex' = mutex + 1
    BY <1>4 DEF WakeUp, Asleep, CheckFirst, StartCrossing, Section
  <2> QED BY <1>0, <2>1, MutexPartyFrame
<1>5. CASE \/ GuideJoin(p) \/ GuideRecheck(p) \/ GuideProceed(p) \/ GuideRetry(p)
           \/ GuideCross(p) \/ GuideLeave(p)
  <2>1. /\ pc[p] # "entering" /\ \E l : Goto(p, l)
        /\ mutex' = mutex \/ mutex' = mutex + 1
    BY <1>5 DEF GuideJoin, Join, GuideRecheck, GuideProceed, SendGroupToQueue, GuideRetry,
                GuideCross, GuideLeave, LeaveBridge, Section
  <2> QED BY <1>0, <2>1, MutexPartyFrame
<1>6. CASE \/ VipJoin(p) \/ VipRecheck(p) \/ VipProceed(p) \/ VipRetry(p) \/ VipSendLeave(p)
           \/ VipAwaitTicket(p) \/ VipStartCrossing(p) \/ VipCross(p) \/ VipLeave(p)
  <2>1. /\ pc[p] # "entering" /\ \E l : Goto(p, l)
        /\ mutex' = mutex \/ mutex' = mutex + 1
    BY <1>6 DEF VipJoin, Join, VipRecheck, VipProceed, VipRetry, VipSendLeave, VipAwaitTicket,
                VipStartCrossing, VipCross, VipLeave, LeaveBridge, Section
  <2> QED BY <1>0, <2>1, MutexPartyFrame
<1> QED BY <1>1, <1>2, <1>3, <1>4, <1>5, <1>6 DEF GuideStep, VipStep

LEMMA NextMutex == TypeOK /\ MutexNotLost /\ [Next]_vars => MutexNotLost'
<1> SUFFICES ASSUME TypeOK, MutexNotLost, [Next]_vars PROVE MutexNotLost'
  OBVIOUS
<1>1. ASSUME NEW p \in Parties, (p \in Guides /\ GuideStep(p)) \/ (p \in VIPs /\ VipStep(p))
      PROVE  MutexNotLost'
  BY <1>1, PartyMutex
<1>2. ASSUME NEW m \in Members, MemberStep(m) PROVE MutexNotLost'
  <2>1. /\ m \in Processes /\ pc[m] # "entering" /\ mutex' = mutex /\ \E l : Goto(m, l)
    BY <1>2 DEF MemberStep, WakeUp, Asleep, MemberRead, MemberStepOn, MemberStepOff, MemberReport,
                Processes
  <2> QED BY <2>1, MutexPartyFrame
<1>3. ASSUME NEW g \in Guides, NEW d \in BOOLEAN, GuideArrive(g, d) PROVE MutexNotLost'
  <2>1. mutex' = mutex /\ \A p \in Parties : pc[p] = "entering" => pc'[p] = "entering"
    BY <1>3, BridgeConstants DEF GuideArrive, SendGroupToQueue, Group, Processes
  <2> QED BY <2>1, MutexFrame DEF TypeOK
<1>4. ASSUME NEW v \in VIPs, NEW d \in BOOLEAN, VipArrive(v, d) PROVE MutexNotLost'
  <2>1. v \in Processes /\ pc[v] # "entering" /\ Goto(v, "arrived") /\ mutex' = mutex
    BY <1>4 DEF VipArrive, Processes, Parties
  <2> QED BY <2>1, MutexPartyFrame
<1>5. CASE Environment \/ UNCHANGED vars
  <2>1. mutex' = mutex
    BY <1>5 DEF Environment, Nightfall, Daybreak, GuideTold, VipTold, Dismiss, Kill, vars
  <2>2. \A p \in Parties : pc[p] = "entering" => pc'[p] = "entering"
    <3>1. ASSUME NEW g \in Guides, GuideTold(g)
          PROVE  \A p \in Parties : pc[p] = "entering" => pc'[p] = "entering"
      BY <3>1 DEF GuideTold, Asleep, Goto, TypeOK, Processes, Parties
    <3>2. CASE pc' = pc
      BY <3>2
    <3> QED BY <1>5, <3>1, <3>2 DEF Environment, Nightfall, Daybreak, VipTold, Dismiss, Kill, vars
  <2> QED BY <2>1, <2>2, MutexFrame DEF TypeOK
<1> QED BY <1>1, <1>2, <1>3, <1>4, <1>5 DEF Next, Arrivals, Parties

(* By day and by night, whoever is told to leave, dismissed or killed and  *)
(* whenever: MUTEX_BRIDGE is free, or held by a party on its way through   *)
(* try_pass_bridge.                                                        *)
THEOREM BridgeMutexIsNotLost == Spec => []MutexNotLost
<1>1. Init => MutexNotLost
  <2> SUFFICES ASSUME Init PROVE MutexNotLost
    OBVIOUS
  <2>1. Entering = {} /\ mutex = 1
    BY BridgeConstants DEF Init, Entering, Processes
  <2>2. Cardinality(Entering) = 0
    BY <2>1, FS_EmptySet
  <2> QED BY <2>1, <2>2 DEF MutexNotLost, Entering
<1>2. TypeOK /\ MutexNotLost /\ [Next]_vars => MutexNotLost'
  BY NextMutex
<1> QED BY <1>1, <1>2, BridgeTypes, PTL DEF Spec

----------------------------------------------------------------------------
(* The bridge implements what it promises *)

(* From its arrival to its admission, a guide's group is sent to wait.     *)
Queueing == {"arrived", "entering"} \union Lined
GroupQueued == \A m \in Members : pc[GuideOf[m]] \in Queueing => status[m] = "AT_BRIDGE_QUEUE"

LEMMA GuideQueued ==
    ASSUME TypeOK, GroupQueued, NEW g \in Guides, GuideStep(g)
    PROVE  GroupQueued'
<1> USE DEF Queueing, Lined
<1>1. \A m \in Members : GuideOf[m] \in Guides /\ GuideOf[m] \in Processes
  BY BridgeConstants DEF Processes, Parties
<1>2. ASSUME status' = status, pc' = pc
      PROVE  GroupQueued'
  BY <1>2 DEF GroupQueued
<1>3. ASSUME NEW l, Goto(g, l), status' = status, l \in Queueing => pc[g] \in Queueing
      PROVE  GroupQueued'
  <2>1. \A h \in Guides : pc'[h] = IF h = g THEN l ELSE pc[h]
    BY <1>3 DEF Goto, TypeOK, Processes, Parties
  <2> HIDE DEF Queueing
  <2> QED BY <1>1, <1>3, <2>1 DEF GroupQueued
<1>4. CASE GuideJoin(g) \/ GuideProceed(g) \/ GuideRecheck(g) \/ GuideRetry(g)
  <2>1. CASE SendGroupToQueue(g) /\ Goto(g, "arrived")
    <3>1. \A h \in Guides : h # g => pc'[h] = pc[h]
      BY <2>1 DEF Goto, TypeOK, Processes, Parties
    <3> QED BY <1>1, <2>1, <3>1 DEF SendGroupToQueue, Group, GroupQueued
  <2>2. CASE ~(SendGroupToQueue(g) /\ Goto(g, "arrived"))
    <3>1. status' = status /\ pc[g] \in {"arrived", "first", "awake1", "awake2"}
          /\ \E l : Goto(g, l)
      BY <1>4, <2>2 DEF GuideJoin, Join, GuideProceed, GuideRecheck, GuideRetry, groupVars
    <3> QED BY <1>3, <3>1
  <2> QED BY <2>1, <2>2
<1>5. CASE CheckFirst(g) \/ WakeUp(g) \/ TryPass(g)
  <2>1. /\ status' = status /\ \E l : Goto(g, l)
        /\ pc[g] \in {"queued", "asleep1", "asleep2", "trying", "waiting"}
        /\ pc[g] = "waiting" => Goto(g, "reading")
    BY <1>5 DEF CheckFirst, WakeUp, Asleep, Woken, TryPass, groupVars
  <2> QED BY <1>3, <2>1
<1>6. CASE StartCrossing(g) \/ GuideCross(g) \/ GuideLeave(g)
  <2>1. status' = status /\ \E l \in {"crossing", "gathering", "elsewhere"} : Goto(g, l)
    BY <1>6 DEF StartCrossing, GuideCross, GuideLeave, LeaveBridge, groupVars
  <2> QED BY <1>3, <2>1
<1>7. CASE GuideCount(g)
  BY <1>2, <1>7 DEF GuideCount
<1>8. CASE GuideEnter(g)
  <2>1. /\ \A m \in Members : GuideOf[m] # g => status'[m] = status[m]
        /\ \A h \in Guides : pc'[h] = IF h = g THEN "popping" ELSE pc[h]
    BY <1>8 DEF GuideEnter, Group, Goto, TypeOK, Processes, Parties
  <2> QED BY <1>1, <2>1 DEF GroupQueued
<1> QED BY <1>4, <1>5, <1>6, <1>7, <1>8 DEF GuideStep

LEMMA NextQueued == TypeOK /\ GroupInv /\ GroupQueued /\ [Next]_vars => GroupQueued'
<1> SUFFICES ASSUME TypeOK, GroupInv, GroupQueued, [Next]_vars PROVE GroupQueued'
  OBVIOUS
<1>0. \A m \in Members : GuideOf[m] \in Guides /\ GuideOf[m] \in Processes
  BY BridgeConstants DEF Processes, Parties
<1>1. ASSUME \A g \in Guides : pc'[g] = pc[g], status' = status
      PROVE  GroupQueued'
  BY <1>0, <1>1 DEF GroupQueued
<1>2. ASSUME NEW v \in VIPs, VipStep(v) \/ \E d \in BOOLEAN : VipArrive(v, d) PROVE GroupQueued'
  <2>1. status' = status /\ \E l : Goto(v, l)
    BY <1>2 DEF VipStep, VipJoin, Join, CheckFirst, WakeUp, VipRecheck, VipProceed, TryPass, VipEnter,
           VipRetry, VipSendLeave, VipAwaitTicket, VipStartCrossing, StartCrossing, VipCross,
           VipLeave, LeaveBridge, VipArrive, groupVars
  <2>2. \A g \in Guides : pc'[g] = pc[g]
    BY <2>1, BridgeConstants DEF Goto, TypeOK, Processes, Parties
  <2> QED BY <1>1, <2>1, <2>2
<1>3. ASSUME NEW m \in Members, MemberStep(m) PROVE GroupQueued'
  <2>1. \E l : Goto(m, l)
    BY <1>3 DEF MemberStep, WakeUp, MemberRead, MemberStepOn, MemberStepOff, MemberReport
  <2>2. \A g \in Guides : pc'[g] = pc[g]
    BY <2>1, BridgeConstants DEF Goto, TypeOK, Processes, Parties
  <2>3. CASE MemberReport(m)
    <3>1. pc[m] = "reporting" /\ \A n \in Members : n # m => status'[n] = status[n]
      BY <2>3 DEF MemberReport, TypeOK
    <3>2. pc[GuideOf[m]] \in Touring
      BY <3>1 DEF GroupInv, GroupAway, AtRest
    <3>3. pc'[GuideOf[m]] \notin Queueing
      BY <1>0, <2>2, <3>2 DEF Queueing, Touring, Lined
    <3> QED BY <1>0, <2>2, <3>1, <3>3 DEF GroupQueued
  <2>4. CASE ~MemberReport(m)
    <3>1. status' = status
      BY <1>3, <2>4 DEF MemberStep, WakeUp, MemberRead, MemberStepOn, MemberStepOff, groupVars
    <3> QED BY <1>1, <2>2, <3>1
  <2> QED BY <2>3, <2>4
<1>4. ASSUME NEW g \in Guides, NEW d \in BOOLEAN, GuideArrive(g, d) PROVE GroupQueued'
  <2>1. \A h \in Guides : h # g => pc'[h] = pc[h]
    BY <1>4, BridgeConstants DEF GuideArrive, Group, Processes, Parties
  <2> QED BY <1>0, <1>4, <2>1 DEF GuideArrive, SendGroupToQueue, Group, GroupQueued
<1>5. ASSUME NEW g \in Guides, GuideTold(g) PROVE GroupQueued'
  <2>1. status' = status
    BY <1>5 DEF GuideTold, groupVars
  <2>2. \A h \in Guides : pc'[h] = pc[h] \/ pc[h] \in Asleep
    BY <1>5 DEF GuideTold, Goto, TypeOK, Processes, Parties
  <2> QED BY <1>0, <2>1, <2>2 DEF GroupQueued, Queueing, Lined, Asleep
<1>6. CASE \/ Nightfall \/ Daybreak \/ UNCHANGED vars
           \/ \E v \in VIPs : VipTold(v) \/ Dismiss(v) \/ Kill(v)
  <2>1. status' = status /\ pc' = pc
    BY <1>6 DEF Nightfall, Daybreak, VipTold, Dismiss, Kill, vars, groupVars
  <2> QED BY <1>1, <2>1
<1> QED BY <1>2, <1>3, <1>4, <1>5, <1>6, GuideQueued DEF Next, Arrivals, Environment

LEMMA SameCardinality == \A S : OneWay!Cardinality(S) = Cardinality(S)
BY DEF OneWay!Cardinality, Cardinality

(* Leaders and members on the other side, of parties that use the bridge. *)
Across == {p \in Parties : pc[p] \in {"gathering", "leaving"}}
MembersAcross ==
    {m \in Members : GuideOf[m] \in Using /\ (pc[m] = "reporting" \/ status[m] = "FOLLOWING_GUIDE")}

LEMMA CrossedParts ==
    /\ Crossed = Across \union PeopleOf(MembersAcross)
    /\ Crossed' = Across' \union PeopleOf(MembersAcross)'
<1> USE DEF Crossed, Across, MembersAcross, PeopleOf, Using, Admitted
<1>1. Crossed = Across \union PeopleOf(MembersAcross)
  OBVIOUS
<1>2. Crossed' = Across' \union PeopleOf(MembersAcross)'
  OBVIOUS
<1> QED BY <1>1, <1>2

LEMMA SpanParts ==
    /\ Span = Leaders \union PeopleOf(MembersCrossing)
    /\ Span' = Leaders' \union PeopleOf(MembersCrossing)'
BY DEF Span, Leaders, PeopleOf

(* What is seen of the bridge. *)
seen == << bridge_direction, track, Using, Span, Crossed >>

LEMMA SeenFrame ==
    ASSUME UNCHANGED << bridge_direction, track >>,
           \A p \in Parties :
              /\ pc'[p] \in Admitted <=> pc[p] \in Admitted
              /\ pc'[p] \in OnSpan <=> pc[p] \in OnSpan
              /\ pc'[p] \in {"gathering", "leaving"} <=> pc[p] \in {"gathering", "leaving"},
           \A m \in Members : pc'[m] = "crossing" <=> pc[m] = "crossing",
           \A m \in Members : GuideOf[m] \in Using =>
              ((pc'[m] = "reporting" \/ status'[m] = "FOLLOWING_GUIDE") <=>
               (pc[m] = "reporting" \/ status[m] = "FOLLOWING_GUIDE"))
    PROVE  UNCHANGED seen
<1>1. Using' = Using /\ Leaders' = Leaders /\ Across' = Across
  BY DEF Using, Leaders, Across
<1>2. MembersCrossing' = MembersCrossing
  BY DEF MembersCrossing
<1>3. MembersAcross' = MembersAcross
  BY <1>1 DEF MembersAcross
<1>4. Span' = Span
  BY <1>1, <1>2, SpanParts DEF PeopleOf
<1>5. Crossed' = Crossed
  BY <1>1, <1>3, CrossedParts DEF PeopleOf
<1> QED BY <1>1, <1>4, <1>5 DEF seen

(* A party that goes from one place to another of the same kind. *)
LEMMA SeenPartyFrame ==
    ASSUME TypeOK, NEW p \in Parties, NEW l, Goto(p, l),
           UNCHANGED << track, bridge_direction >>,
           l \in Admitted <=> pc[p] \in Admitted,
           l \in OnSpan <=> pc[p] \in OnSpan,
           l \in {"gathering", "leaving"} <=> pc[p] \in {"gathering", "leaving"},
           \A m \in Members : GuideOf[m] \in Using => status'[m] = status[m]
    PROVE  UNCHANGED seen
<1>1. \A q \in Parties : pc'[q] = IF q = p THEN l ELSE pc[q]
  BY DEF Goto, TypeOK, Processes
<1>2. \A m \in Members : pc'[m] = pc[m]
  BY BridgeConstants DEF Goto, TypeOK, Processes
<1> QED BY <1>1, <1>2, SeenFrame

(* Arrivals: a party chooses its way. *)
LEMMA ArriveChooses ==
    ASSUME TypeOK, GroupInv, NEW p \in Parties, NEW d \in BOOLEAN,
           (p \in Guides /\ GuideArrive(p, d)) \/ (p \in VIPs /\ VipArrive(p, d))
    PROVE  OneWay!Choose(p, d)
<1>1. /\ pc[p] = "elsewhere" /\ track' = [track EXCEPT ![p] = d]
      /\ UNCHANGED bridge_direction
  BY DEF GuideArrive, SendGroupToQueue, VipArrive, bridgeVars
<1>2. \A q \in Parties : pc'[q] = IF q = p THEN "arrived" ELSE pc[q]
  BY BridgeConstants DEF GuideArrive, VipArrive, Group, Goto, TypeOK, Processes, Parties
<1>3. p \notin Using /\ Using' = Using /\ Leaders' = Leaders /\ Across' = Across
  BY <1>1, <1>2 DEF Using, Leaders, Across, Admitted, OnSpan
<1>4. \A m \in Members : \/ pc'[m] = pc[m] /\ status'[m] = status[m]
                         \/ GuideOf[m] = p /\ pc'[m] = "reading" /\ pc[m] \in AtRest
  <2> TAKE m \in Members
  <2>1. m \in Processes /\ m \notin Parties
    BY BridgeConstants DEF Processes
  <2>2. GuideOf[m] = p => pc[m] \in AtRest
    BY <1>1 DEF GroupInv, GroupAway, Touring
  <2>3. CASE p \in Guides /\ GuideArrive(p, d)
    BY <2>1, <2>2, <2>3 DEF GuideArrive, SendGroupToQueue, Group, Parties
  <2>4. CASE p \in VIPs /\ VipArrive(p, d)
    BY <2>1, <2>4 DEF VipArrive, Goto, TypeOK, groupVars, Parties
  <2> QED BY <2>3, <2>4
<1>5. MembersCrossing' = MembersCrossing
  BY <1>4 DEF MembersCrossing, AtRest
<1>6. MembersAcross' = MembersAcross
  BY <1>3, <1>4 DEF MembersAcross
<1>7. Span' = Span /\ Crossed' = Crossed
  BY <1>3, <1>5, <1>6, SpanParts, CrossedParts DEF PeopleOf
<1> QED BY <1>1, <1>3, <1>7 DEF OneWay!Choose

(* try_pass_bridge: a party is refused, or admitted. *)
LEMMA TryPassAdmits ==
    ASSUME DayKept, GroupQueued, NEW p \in Parties, TryPass(p)
    PROVE  OneWay!Admit(p) \/ UNCHANGED seen
<1>0. TypeOK /\ NobodyDismissed /\ DayInv /\ GroupInv /\ pc[p] = "trying"
  BY DEF DayKept, TryPass
<1>1. CASE Goto(p, "asleep2") /\ UNCHANGED bridgeVars
  BY <1>0, <1>1, SeenPartyFrame DEF TryPass, Admitted, OnSpan, groupVars, bridgeVars
<1>2. CASE ~(Goto(p, "asleep2") /\ UNCHANGED bridgeVars)
  <2>1. /\ bridge_direction = track[p] \/ groups_on_bridge = 0
        /\ bridge_direction' = track[p]
        /\ Goto(p, "entering") /\ UNCHANGED << track, status >>
    BY <1>2 DEF TryPass, groupVars
  <2>2. /\ Using' = Using \union {p} /\ p \notin Using /\ Using \in SUBSET Parties
        /\ Span' = Span \ {p} /\ p \notin Span
    BY <1>0, <2>1, Places, BridgeConstants DEF Using, Span, MembersCrossing, Admitted, OnSpan
  <2>3. Using = {} \/ bridge_direction = track[p]
    <3>1. groups_on_bridge = Cardinality(Using)
      BY <1>0 DEF DayInv, GroupsCounted
    <3>2. Cardinality(Using) = 0 => Using = {}
      BY <2>2, PartiesFinite, FS_EmptySet
    <3> QED BY <2>1, <3>1, <3>2
  <2>4. \A q \in Parties : pc'[q] = IF q = p THEN "entering" ELSE pc[q]
    BY <1>0, <2>1 DEF Goto, TypeOK, Processes
  <2>5. \A m \in Members : pc'[m] = pc[m]
    BY <1>0, <2>1, BridgeConstants DEF Goto, TypeOK, Processes
  <2>6. Across' = Across
    BY <1>0, <2>4 DEF Across
  <2>7. \A m \in Members : GuideOf[m] = p => status[m] = "AT_BRIDGE_QUEUE" /\ pc[m] # "reporting"
    <3> SUFFICES ASSUME NEW m \in Members, GuideOf[m] = p
                 PROVE  status[m] = "AT_BRIDGE_QUEUE" /\ pc[m] # "reporting"
      OBVIOUS
    <3>1. pc[GuideOf[m]] \in Queueing /\ pc[GuideOf[m]] \notin Touring
      BY <1>0 DEF Queueing, Lined, Touring
    <3> QED BY <1>0, <3>1 DEF GroupQueued, GroupInv, GroupAway, AtRest
  <2>8. MembersAcross' = MembersAcross
    BY <2>1, <2>2, <2>5, <2>7 DEF MembersAcross
  <2>9. Crossed' = Crossed
    BY <2>6, <2>8, CrossedParts DEF PeopleOf
  <2> QED BY <2>1, <2>2, <2>3, <2>9 DEF OneWay!Admit
<1> QED BY <1>1, <1>2

(* There is room for whoever has taken its seats. *)
LEMMA RoomOnBridge ==
    ASSUME TypeOK', SeatsCounted'
    PROVE  Cardinality(Span') <= BridgeLimit
<1>1. sem' + Cardinality(Span') = BridgeLimit
  BY DEF SeatsCounted
<1>2. sem' \in Nat
  BY DEF TypeOK
<1>3. Cardinality(Span') \in Nat
  <2>1. Leaders' \in SUBSET Parties /\ MembersCrossing' \in SUBSET Members
    BY DEF Leaders, MembersCrossing
  <2>2. IsFiniteSet(Leaders' \union PeopleOf(MembersCrossing'))
    BY <2>1, PartiesFinite, PeopleFinite, FS_Union
  <2>3. Span' = Leaders' \union PeopleOf(MembersCrossing')
    BY SpanParts DEF PeopleOf
  <2> QED BY <2>2, <2>3, FS_CardinalityType
<1> QED BY <1>1, <1>2, <1>3, BridgeConstants

(* The leader steps on. *)
LEMMA EnterStepsOn ==
    ASSUME DayKept, GroupQueued, DayKept', NEW p \in Parties, pc[p] = "entering",
           NEW l \in {"popping", "entered"}, Goto(p, l), UNCHANGED << track, bridge_direction >>,
           \A m \in Members : \/ status'[m] = status[m]
                              \/ GuideOf[m] = p /\ status'[m] = "AT_BRIDGE"
    PROVE  OneWay!StepOn(p, {p})
<1>0. TypeOK /\ GroupInv /\ TypeOK' /\ SeatsCounted'
  BY DEF DayKept, DayInv
<1>1. /\ Using' = Using /\ p \in Using
      /\ Span' = Span \union {p} /\ p \notin Span
  BY <1>0, Places, BridgeConstants DEF Using, Span, MembersCrossing, Admitted, OnSpan
<1>2. /\ \A q \in Parties : pc'[q] = IF q = p THEN l ELSE pc[q]
      /\ \A m \in Members : pc'[m] = pc[m]
  BY <1>0, BridgeConstants DEF Goto, TypeOK, Processes
<1>3. Across' = Across /\ p \notin Across
  BY <1>2 DEF Across
<1>4. \A m \in Members : GuideOf[m] = p => status[m] = "AT_BRIDGE_QUEUE"
  BY DEF GroupQueued, Queueing
<1>5. MembersAcross' = MembersAcross
  BY <1>1, <1>2, <1>4 DEF MembersAcross
<1>6. Crossed' = Crossed
  BY <1>3, <1>5, CrossedParts DEF PeopleOf
<1>7. p \notin Crossed
  <2>1. p \notin PeopleOf(MembersAcross)
    BY BridgeConstants DEF PeopleOf, MembersAcross
  <2> QED BY <1>3, <2>1, CrossedParts
<1>8. Cardinality(Span \union {p}) <= BridgeLimit
  <2>1. Cardinality(Span') <= BridgeLimit
    BY <1>0, RoomOnBridge
  <2> QED BY <1>1, <2>1
<1>9. {p} \subseteq People(p) /\ {p} \intersect (Span \union Crossed) = {}
  BY <1>1, <1>7 DEF People
<1>10. /\ UNCHANGED << bridge_direction, track, Using, Crossed >>
       /\ p \in Using /\ Span' = Span \union {p}
  BY <1>1, <1>6
<1> QED BY <1>8, <1>9, <1>10, SameCardinality DEF OneWay!StepOn

(* The leader steps off. *)
LEMMA CrossStepsOff ==
    ASSUME TypeOK, NEW p \in Parties, pc[p] = "crossing",
           NEW l \in {"gathering", "leaving"}, Goto(p, l),
           UNCHANGED << track, bridge_direction, status >>
    PROVE  OneWay!StepOff({p})
<1>1. /\ Using' = Using
      /\ Span' = Span \ {p} /\ p \in Span
  BY Places DEF Using, Span, Admitted, OnSpan
<1>2. /\ \A q \in Parties : pc'[q] = IF q = p THEN l ELSE pc[q]
      /\ \A m \in Members : pc'[m] = pc[m]
  BY BridgeConstants DEF Goto, TypeOK, Processes
<1>3. Across' = Across \union {p}
  BY <1>2 DEF Across
<1>4. MembersAcross' = MembersAcross
  BY <1>1, <1>2 DEF MembersAcross
<1>5. Crossed' = Crossed \union {p}
  BY <1>3, <1>4, CrossedParts DEF PeopleOf
<1> QED BY <1>1, <1>5 DEF OneWay!StepOff

(* A member and its kids step on, while their guide uses the bridge. *)
LEMMA MemberStepsOn ==
    ASSUME DayKept, DayKept', NEW m \in Members, MemberStepOn(m)
    PROVE  OneWay!StepOn(GuideOf[m], Family[m])
<1>0. TypeOK /\ GroupInv /\ TypeOK' /\ SeatsCounted'
  BY DEF DayKept, DayInv
<1>1. /\ pc[m] = "boarding" /\ Goto(m, "crossing")
      /\ UNCHANGED << track, bridge_direction, status >>
  BY DEF MemberStepOn, bridgeVars, groupVars
<1>2. /\ \A p \in Parties : pc'[p] = pc[p]
      /\ \A n \in Members : pc'[n] = IF n = m THEN "crossing" ELSE pc[n]
  BY <1>0, <1>1, BridgeConstants DEF Goto, TypeOK, Processes
<1>3. /\ Using' = Using /\ Leaders' = Leaders /\ Across' = Across
      /\ GuideOf[m] \in Using
  BY <1>0, <1>1, <1>2, GuideOfBoarder DEF Using, Leaders, Across
<1>4. MembersCrossing' = MembersCrossing \union {m} /\ m \notin MembersCrossing
  BY <1>1, <1>2 DEF MembersCrossing
<1>5. status[m] = "AT_BRIDGE"
  <2>1. pc[m] \notin AtRest /\ pc[GuideOf[m]] \in Touring
    BY <1>0, <1>1 DEF GroupInv, GroupAway, AtRest
  <2> QED BY <1>0, <2>1 DEF GroupInv, GroupSent
<1>6. MembersAcross' = MembersAcross /\ m \notin MembersAcross
  BY <1>1, <1>2, <1>3, <1>5 DEF MembersAcross
<1>7. Span' = Span \union Family[m]
  <2>1. PeopleOf(MembersCrossing)' = PeopleOf(MembersCrossing) \union Family[m]
    BY <1>4 DEF PeopleOf
  <2> QED BY <1>3, <2>1, SpanParts
<1>8. Crossed' = Crossed
  BY <1>3, <1>6, CrossedParts DEF PeopleOf
<1>9. Family[m] \intersect (Span \union Crossed) = {}
  <2>1. /\ Family[m] \intersect PeopleOf(MembersCrossing) = {}
        /\ Family[m] \intersect PeopleOf(MembersAcross) = {}
    BY <1>4, <1>6, BridgeConstants DEF PeopleOf, MembersCrossing, MembersAcross
  <2>2. Family[m] \intersect Leaders = {} /\ Family[m] \intersect Across = {}
    BY BridgeConstants DEF Leaders, Across
  <2> QED BY <2>1, <2>2, SpanParts, CrossedParts
<1>10. Cardinality(Span \union Family[m]) <= BridgeLimit
  <2>1. Cardinality(Span') <= BridgeLimit
    BY <1>0, RoomOnBridge
  <2> QED BY <1>7, <2>1
<1>11. Family[m] \subseteq People(GuideOf[m])
  BY DEF People, Group
<1>12. /\ UNCHANGED << bridge_direction, track, Using, Crossed >>
       /\ GuideOf[m] \in Using /\ Span' = Span \union Family[m]
  BY <1>1, <1>3, <1>7, <1>8
<1> QED BY <1>9, <1>10, <1>11, <1>12, SameCardinality DEF OneWay!StepOn

(* They step off. *)
LEMMA MemberStepsOff ==
    ASSUME TypeOK, GroupInv, NEW m \in Members, MemberStepOff(m)
    PROVE  OneWay!StepOff(Family[m])
<1>1. /\ pc[m] = "crossing" /\ Goto(m, "reporting")
      /\ UNCHANGED << track, bridge_direction, status >>
  BY DEF MemberStepOff, bridgeVars, groupVars
<1>2. /\ \A p \in Parties : pc'[p] = pc[p]
      /\ \A n \in Members : pc'[n] = IF n = m THEN "reporting" ELSE pc[n]
  BY <1>1, BridgeConstants DEF Goto, TypeOK, Processes
<1>3. /\ Using' = Using /\ Leaders' = Leaders /\ Across' = Across
      /\ GuideOf[m] \in Using
  BY <1>1, <1>2, GuideOfBoarder DEF Using, Leaders, Across
<1>4. MembersCrossing' = MembersCrossing \ {m} /\ m \in MembersCrossing
  BY <1>1, <1>2 DEF MembersCrossing
<1>5. MembersAcross' = MembersAcross \union {m}
  BY <1>1, <1>2, <1>3 DEF MembersAcross
<1>6. Span' = Span \ Family[m] /\ Family[m] \subseteq Span
  <2>1. /\ PeopleOf(MembersCrossing) = PeopleOf(MembersCrossing') \union Family[m]
        /\ PeopleOf(MembersCrossing)' = PeopleOf(MembersCrossing')
    BY <1>4 DEF PeopleOf
  <2>2. Family[m] \intersect PeopleOf(MembersCrossing') = {}
    BY <1>4, BridgeConstants DEF PeopleOf, MembersCrossing
  <2>3. Family[m] \intersect Leaders = {}
    BY BridgeConstants DEF Leaders
  <2> QED BY <1>3, <2>1, <2>2, <2>3, SpanParts
<1>7. Crossed' = Crossed \union Family[m]
  <2>1. PeopleOf(MembersAcross)' = PeopleOf(MembersAcross) \union Family[m]
    BY <1>5 DEF PeopleOf
  <2> QED BY <1>3, <2>1, CrossedParts
<1> QED BY <1>1, <1>3, <1>6, <1>7 DEF OneWay!StepOff

(* A party goes on when all of its people are across. *)
LEMMA LeaveReleases ==
    ASSUME TypeOK, GroupInv, NEW p \in Parties,
           (p \in Guides /\ GuideLeave(p)) \/ (p \in VIPs /\ VipLeave(p))
    PROVE  OneWay!Release(p)
<1>1. /\ pc[p] \in {"gathering", "leaving"} /\ Goto(p, "elsewhere")
      /\ UNCHANGED << track, bridge_direction, status >>
  BY DEF GuideLeave, VipLeave, LeaveBridge, groupVars
<1>2. /\ \A q \in Parties : pc'[q] = IF q = p THEN "elsewhere" ELSE pc[q]
      /\ \A m \in Members : pc'[m] = pc[m]
  BY <1>1, BridgeConstants DEF Goto, TypeOK, Processes
<1>3. /\ Using' = Using \ {p} /\ p \in Using
      /\ Leaders' = Leaders /\ Across' = Across \ {p} /\ p \in Across
      /\ MembersCrossing' = MembersCrossing
  BY <1>1, <1>2 DEF Using, Leaders, Across, MembersCrossing, Admitted, OnSpan
<1>4. \A m \in Group(p) : m \in MembersAcross
  <2>1. CASE p \in Guides /\ GuideLeave(p)
    <3>1. /\ pc[p] = "gathering" /\ checkins[p] >= visitors_in_group(p)
          /\ checkins[p] = Cardinality(PeopleOf(Counted(p)))
      BY <2>1 DEF GuideLeave, GroupInv, CountExact
    <3>2. Counted(p) = Group(p)
      BY <2>1, <3>1, AllCounted
    <3> QED BY <1>3, <3>2 DEF Counted, Group, MembersAcross
  <2>2. CASE p \in VIPs /\ VipLeave(p)
    BY <2>2, BridgeConstants DEF Group
  <2> QED BY <2>1, <2>2
<1>5. MembersAcross' = MembersAcross \ Group(p)
  BY <1>1, <1>2, <1>3 DEF MembersAcross, Group
<1>6. Group(p) \subseteq Members /\ MembersAcross \subseteq Members
  BY DEF Group, MembersAcross
<1>7. People(p) = {p} \union PeopleOf(Group(p))
  BY DEF People, PeopleOf
<1>8. People(p) \subseteq Crossed
  <2>1. PeopleOf(Group(p)) \subseteq PeopleOf(MembersAcross)
    BY <1>4 DEF PeopleOf
  <2> QED BY <1>3, <1>7, <2>1, CrossedParts
<1>9. Crossed' = Crossed \ People(p)
  <2>1. /\ PeopleOf(MembersAcross)' = PeopleOf(MembersAcross')
        /\ PeopleOf(MembersAcross) = PeopleOf(MembersAcross') \union PeopleOf(Group(p))
    BY <1>4, <1>5 DEF PeopleOf
  <2>2. PeopleOf(MembersAcross') \intersect PeopleOf(Group(p)) = {}
    BY <1>5, <1>6, BridgeConstants DEF PeopleOf
  <2>3. \A S \in SUBSET Members : p \notin PeopleOf(S) /\ PeopleOf(S) \intersect Across = {}
    BY BridgeConstants DEF PeopleOf, Across
  <2>4. p \notin PeopleOf(MembersAcross') /\ PeopleOf(Group(p)) \intersect Across = {}
    BY <1>5, <1>6, <2>3
  <2> QED BY <1>3, <1>7, <2>1, <2>2, <2>4, CrossedParts
<1>10. Span' = Span
  BY <1>3, SpanParts DEF PeopleOf
<1> QED BY <1>1, <1>3, <1>8, <1>9, <1>10 DEF OneWay!Release

OneWayStep == OneWay!Next \/ UNCHANGED seen

LEMMA StepsOfOneWay ==
    /\ \A p \in Parties, d \in BOOLEAN : OneWay!Choose(p, d) => OneWayStep
    /\ \A p \in Parties : OneWay!Admit(p) \/ OneWay!Release(p) => OneWayStep
    /\ \A p \in Parties : \A who \in SUBSET People(p) :
           OneWay!StepOn(p, who) \/ OneWay!StepOff(who) => OneWayStep
BY DEF OneWayStep, OneWay!Next

(* The steps of a party that are not seen, its walk to the cashier and     *)
(* back among them.                                                        *)
LEMMA UnseenStep ==
    ASSUME DayKept, NEW p \in Parties, NEW l, Goto(p, l), UNCHANGED << track, bridge_direction >>,
           \A m \in Members : GuideOf[m] # p => status'[m] = status[m],
           \/ pc[p] \notin Admitted /\ l \notin Admitted
           \/ pc[p] \in OnSpan /\ l \in OnSpan /\ status' = status
    PROVE  UNCHANGED seen
<1>1. TypeOK /\ (p \in Using => pc[p] \in OnSpan)
  BY DEF DayKept, Using
<1>2. \A m \in Members : GuideOf[m] \in Using => status'[m] = status[m]
  BY DEF Using
<1> QED BY <1>1, <1>2, SeenPartyFrame DEF Admitted, OnSpan

LEMMA SharedSeen ==
    ASSUME DayKept, NEW p \in Parties,
           \/ pc[p] = "arrived" /\ Join(p)
           \/ CheckFirst(p) \/ WakeUp(p) \/ StartCrossing(p)
    PROVE  UNCHANGED seen
<1> USE DEF Admitted, OnSpan, groupVars, bridgeVars
<1>1. CASE pc[p] = "arrived" /\ Join(p)
  BY <1>1, UnseenStep DEF Join
<1>2. CASE CheckFirst(p)
  <2>1. \E l \in {"first", "asleep1"} : Goto(p, l)
    BY <1>2 DEF CheckFirst
  <2> QED BY <1>2, <2>1, UnseenStep DEF CheckFirst
<1>3. CASE WakeUp(p)
  <2>1. pc[p] \in Asleep \union {"waiting"} /\ Goto(p, Woken(pc[p]))
    BY <1>3 DEF WakeUp
  <2>2. Woken(pc[p]) \in {"awake1", "awake2", "reading"}
    BY <2>1 DEF Woken, Asleep
  <2>3. UNCHANGED << track, bridge_direction, status >>
    BY <1>3 DEF WakeUp
  <2> QED BY <2>1, <2>2, <2>3, UnseenStep DEF Asleep
<1>4. CASE StartCrossing(p)
  <2>1. /\ pc[p] = "popping" /\ Goto(p, "crossing")
        /\ UNCHANGED << track, bridge_direction, status >>
    BY <1>4 DEF StartCrossing
  <2> QED BY <2>1, UnseenStep
<1> QED BY <1>1, <1>2, <1>3, <1>4

LEMMA GuideSeen ==
    ASSUME DayKept, GroupQueued, DayKept', NEW g \in Guides, GuideStep(g)
    PROVE  OneWayStep
<1> USE DEF Admitted, OnSpan, groupVars, bridgeVars
<1>1. g \in Parties /\ TypeOK /\ GroupInv
  BY DEF Parties, DayKept
<1>2. ASSUME UNCHANGED seen PROVE OneWayStep
  BY <1>2 DEF OneWayStep
<1>3. CASE GuideJoin(g) \/ CheckFirst(g) \/ WakeUp(g) \/ StartCrossing(g)
  <2>1. CASE GuideJoin(g) /\ g \in leave_park
    BY <1>1, <1>2, <2>1, UnseenStep DEF GuideJoin
  <2>2. CASE GuideJoin(g) /\ g \notin leave_park
    BY <1>1, <1>2, <2>2, SharedSeen DEF GuideJoin
  <2> QED BY <1>1, <1>2, <1>3, <2>1, <2>2, SharedSeen
<1>4. CASE GuideRecheck(g) \/ GuideRetry(g) \/ GuideProceed(g)
  <2>1. /\ pc[g] \in {"awake1", "awake2", "first"}
        /\ UNCHANGED << track, bridge_direction >>
        /\ \E l \in {"elsewhere", "queued", "trying", "arrived"} : Goto(g, l)
    BY <1>4 DEF GuideRecheck, GuideRetry, GuideProceed, SendGroupToQueue
  <2>2. \A m \in Members : GuideOf[m] # g => status'[m] = status[m]
    BY <1>4 DEF GuideRecheck, GuideRetry, GuideProceed, SendGroupToQueue, Group
  <2> QED BY <1>1, <1>2, <2>1, <2>2, UnseenStep
<1>5. CASE TryPass(g)
  BY <1>1, <1>5, TryPassAdmits, StepsOfOneWay DEF OneWayStep
<1>6. CASE GuideEnter(g)
  <2>1. /\ pc[g] = "entering" /\ Goto(g, "popping") /\ UNCHANGED << track, bridge_direction >>
        /\ \A m \in Members : \/ status'[m] = status[m]
                              \/ GuideOf[m] = g /\ status'[m] = "AT_BRIDGE"
    BY <1>6 DEF GuideEnter, Group
  <2>2. OneWay!StepOn(g, {g}) /\ {g} \in SUBSET People(g)
    BY <1>1, <2>1, EnterStepsOn DEF People
  <2> QED BY <1>1, <2>2, StepsOfOneWay
<1>7. CASE GuideCross(g)
  <2>1. OneWay!StepOff({g}) /\ {g} \in SUBSET People(g)
    BY <1>1, <1>7, CrossStepsOff DEF GuideCross, People
  <2> QED BY <1>1, <2>1, StepsOfOneWay
<1>8. CASE GuideCount(g)
  BY <1>2, <1>8, SeenFrame DEF GuideCount
<1>9. CASE GuideLeave(g)
  BY <1>1, <1>9, LeaveReleases, StepsOfOneWay
<1> QED BY <1>3, <1>4, <1>5, <1>6, <1>7, <1>8, <1>9 DEF GuideStep

LEMMA VipSeen ==
    ASSUME NoDismissals, DayKept, GroupQueued, DayKept', NEW v \in VIPs, VipStep(v)
    PROVE  OneWayStep
<1> USE DEF Admitted, OnSpan, groupVars, bridgeVars
<1>1. v \in Parties /\ TypeOK /\ GroupInv /\ ~night /\ v \notin kill_requested /\ pc[v] \notin Dismissed
  BY NoNightForVips DEF Parties, DayKept, NobodyDismissed
<1>2. ASSUME UNCHANGED seen PROVE OneWayStep
  BY <1>2 DEF OneWayStep
<1>3. CASE VipJoin(v) \/ CheckFirst(v) \/ WakeUp(v) \/ StartCrossing(v)
  BY <1>1, <1>2, <1>3, SharedSeen DEF VipJoin
<1>4. CASE VipRecheck(v) \/ VipProceed(v) \/ VipRetry(v)
  <2>1. /\ pc[v] \in {"awake1", "awake2", "first"}
        /\ UNCHANGED << track, bridge_direction, status >>
        /\ \E l \in {"queued", "trying"} : Goto(v, l)
    BY <1>1, <1>4 DEF VipRecheck, VipProceed, VipRetry, HasLeft
  <2> QED BY <1>1, <1>2, <2>1, UnseenStep
<1>5. CASE TryPass(v)
  BY <1>1, <1>5, TryPassAdmits, StepsOfOneWay DEF OneWayStep
<1>6. CASE VipEnter(v)
  <2>1. /\ pc[v] = "entering" /\ Goto(v, "entered")
        /\ UNCHANGED << track, bridge_direction, status >>
    BY <1>6 DEF VipEnter
  <2>2. OneWay!StepOn(v, {v}) /\ {v} \in SUBSET People(v)
    BY <1>1, <2>1, EnterStepsOn DEF People
  <2> QED BY <1>1, <2>2, StepsOfOneWay
<1>7. CASE VipStartCrossing(v)
  <2>1. /\ pc[v] = "entered" /\ Goto(v, "popping")
        /\ UNCHANGED << track, bridge_direction, status >>
    BY <1>1, <1>7 DEF VipStartCrossing, HasLeft, Dismissed
  <2> QED BY <1>1, <1>2, <2>1, UnseenStep
<1>8. CASE VipCross(v)
  <2>1. OneWay!StepOff({v}) /\ {v} \in SUBSET People(v)
    BY <1>1, <1>8, CrossStepsOff DEF VipCross, People
  <2> QED BY <1>1, <2>1, StepsOfOneWay
<1>9. CASE VipLeave(v)
  BY <1>1, <1>9, LeaveReleases, StepsOfOneWay
<1>10. ~VipSendLeave(v) /\ ~VipAwaitTicket(v)
  BY <1>1 DEF VipSendLeave, VipAwaitTicket, Dismissed
<1> QED BY <1>3, <1>4, <1>5, <1>6, <1>7, <1>8, <1>9, <1>10 DEF VipStep

LEMMA MemberSeen ==
    ASSUME DayKept, DayKept', NEW m \in Members, MemberStep(m)
    PROVE  OneWayStep
<1>0. /\ TypeOK /\ GroupInv /\ GuideOf[m] \in Parties
      /\ Family[m] \in SUBSET People(GuideOf[m])
  BY BridgeConstants DEF DayKept, Parties, People, Group
<1>1. CASE MemberStepOn(m)
  BY <1>0, <1>1, MemberStepsOn, StepsOfOneWay
<1>2. CASE MemberStepOff(m)
  BY <1>0, <1>2, MemberStepsOff, StepsOfOneWay
<1>3. CASE WakeUp(m) \/ MemberRead(m) \/ MemberReport(m)
  <2>1. PICK l \in {"reading", "waiting", "boarding", "awake1", "awake2"} : Goto(m, l)
    BY <1>3 DEF WakeUp, Woken, Asleep, MemberRead, MemberReport
  <2>2. /\ \A p \in Parties : pc'[p] = pc[p]
        /\ \A n \in Members : pc'[n] = IF n = m THEN l ELSE pc[n]
    BY <1>0, <2>1, BridgeConstants DEF Goto, TypeOK, Processes
  <2>3. UNCHANGED << track, bridge_direction >>
    BY <1>3 DEF WakeUp, MemberRead, MemberReport, bridgeVars
  <2>4. CASE WakeUp(m) \/ MemberRead(m)
    <3>1. status' = status /\ pc[m] \notin {"crossing", "reporting"}
      BY <2>4 DEF WakeUp, Asleep, MemberRead, groupVars
    <3>2. UNCHANGED seen
      BY <2>1, <2>2, <2>3, <3>1, SeenFrame
    <3> QED BY <3>2 DEF OneWayStep
  <2>5. CASE MemberReport(m)
    <3>1. /\ pc[m] = "reporting"
          /\ \A n \in Members : status'[n] = IF n = m THEN "FOLLOWING_GUIDE" ELSE status[n]
      BY <1>0, <2>5 DEF MemberReport, TypeOK
    <3>2. UNCHANGED seen
      BY <2>1, <2>2, <2>3, <3>1, SeenFrame
    <3> QED BY <3>2 DEF OneWayStep
  <2> QED BY <1>3, <2>4, <2>5
<1> QED BY <1>1, <1>2, <1>3 DEF MemberStep

LEMMA NextSeen ==
    NoDismissals /\ DayKept /\ GroupQueued /\ DayKept' /\ [Next]_vars => OneWayStep
<1> SUFFICES ASSUME NoDismissals, DayKept, GroupQueued, DayKept', [Next]_vars PROVE OneWayStep
  OBVIOUS
<1>1. CASE Arrivals
  <2>1. TypeOK /\ GroupInv
    BY DEF DayKept
  <2>2. PICK d \in BOOLEAN : \/ \E g \in Guides : GuideArrive(g, d)
                             \/ \E v \in VIPs : VipArrive(v, d)
    BY <1>1 DEF Arrivals
  <2>3. PICK p \in Parties : (p \in Guides /\ GuideArrive(p, d)) \/ (p \in VIPs /\ VipArrive(p, d))
    BY <2>2 DEF Parties
  <2> QED BY <2>1, <2>3, ArriveChooses, StepsOfOneWay
<1>2. ASSUME UNCHANGED << pc, track, status, bridge_direction >> PROVE OneWayStep
  BY <1>2, SeenFrame DEF OneWayStep
<1>3. ASSUME NEW g \in Guides, GuideTold(g) PROVE OneWayStep
  <2>1. UNCHANGED << track, status, bridge_direction >>
    BY <1>3 DEF GuideTold, groupVars, bridgeVars
  <2>2. CASE pc[g] \in Asleep /\ Goto(g, Woken(pc[g]))
    <3>1. g \in Parties /\ Woken(pc[g]) \in {"awake1", "awake2"}
      BY <2>2 DEF Woken, Asleep, Parties
    <3>2. UNCHANGED seen
      BY <2>1, <2>2, <3>1, UnseenStep DEF Asleep, Admitted, OnSpan
    <3> QED BY <3>2 DEF OneWayStep
  <2> QED BY <1>2, <1>3, <2>1, <2>2 DEF GuideTold
<1>4. CASE \/ Nightfall \/ Daybreak \/ UNCHANGED vars
           \/ \E v \in VIPs : VipTold(v) \/ Dismiss(v) \/ Kill(v)
  BY <1>2, <1>4 DEF Nightfall, Daybreak, VipTold, Dismiss, Kill, vars, groupVars, bridgeVars
<1> QED BY <1>1, <1>3, <1>4, GuideSeen, VipSeen, MemberSeen DEF Next, Environment

LEMMA InitSeen == Init => GroupQueued /\ OneWay!Init
<1> SUFFICES ASSUME Init PROVE GroupQueued /\ OneWay!Init
  OBVIOUS
<1>1. /\ \A p \in Parties : pc[p] = "elsewhere"
      /\ \A m \in Members : pc[m] = "reading"
  BY BridgeConstants DEF Init, Processes
<1>2. Using = {} /\ Leaders = {} /\ MembersCrossing = {} /\ Across = {}
  BY <1>1 DEF Using, Leaders, MembersCrossing, Across, Admitted, OnSpan
<1>3. MembersAcross = {}
  BY <1>2 DEF MembersAcross
<1>4. Span = {} /\ Crossed = {}
  BY <1>2, <1>3, SpanParts, CrossedParts DEF PeopleOf
<1>5. GroupQueued
  BY <1>1, BridgeConstants DEF GroupQueued, Queueing, Lined, Parties
<1> QED BY <1>2, <1>4, <1>5 DEF Init, OneWay!Init

(* As long as no VIP is dismissed, for any groups, families, limit and     *)
(* capacity: the protocol of semaphores, signals and check-ins implements  *)
(* the bridge that is used in one direction at a time, never carries more  *)
(* than BRIDGE_LIMIT people and lets a party go only when all of its       *)
(* people, kids included, are across.                                      *)
THEOREM BridgeImplementsOneWay == ASSUME NoDismissals PROVE Spec => ImplementsOneWayBridge
<1>1. Init => GroupQueued /\ OneWay!Init
  BY InitSeen
<1>2. DayKept /\ GroupQueued /\ [Next]_vars => GroupQueued'
  BY NextQueued DEF DayKept
<1>3. DayKept /\ GroupQueued /\ DayKept' /\ [Next]_vars => [OneWay!Next]_(OneWay!vars)
  BY NextSeen DEF OneWayStep, seen, OneWay!vars
<1> QED BY <1>1, <1>2, <1>3, DayHolds, PTL DEF Spec, ImplementsOneWayBridge, OneWay!Spec

=============================================================================
