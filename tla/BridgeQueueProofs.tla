------------------------- MODULE BridgeQueueProofs -------------------------
(***************************************************************************)
(* The queues of the bridge, for any set of guides, VIPs and visitors:     *)
(*   - by day, that they hold exactly who waits, that whoever is first and *)
(*     sleeps will be woken, and that a seat somebody waits for comes      *)
(*     free;                                                               *)
(*   - by day and by night, that no VIP leaves its entry behind.           *)
(***************************************************************************)
EXTENDS BridgeProofs, QueueLemmas

----------------------------------------------------------------------------
(* The operations on a queue *)

LEMMA TheQueues ==
    ASSUME TypeOK, NEW d \in BOOLEAN
    PROVE  queue[d] \in Seq(Parties)
BY DEF TypeOK

(* ringbuffer_push_back. *)
LEMMA PushKeeps ==
    ASSUME TypeOK, NEW d \in BOOLEAN, NEW p \in Parties, Push(d, p)
    PROVE  /\ \A r, e : r # p /\ e \in BOOLEAN =>
                 /\ Keeps(r, queue[e], queue'[e])
                 /\ r \in Entries(queue[e]) => r \in Entries(queue'[e])
           /\ \A e \in BOOLEAN : e # d => queue'[e] = queue[e]
           /\ queue'[d] = IF Len(queue[d]) < Capacity THEN Append(queue[d], p) ELSE queue[d]
<1>1. /\ \A e \in BOOLEAN : e # d => queue'[e] = queue[e]
      /\ queue'[d] = IF Len(queue[d]) < Capacity THEN Append(queue[d], p) ELSE queue[d]
  BY DEF TypeOK, Push
<1>2. ASSUME NEW r, r # p
      PROVE  /\ Keeps(r, queue[d], Append(queue[d], p))
             /\ r \in Entries(queue[d]) => r \in Entries(Append(queue[d], p))
  BY <1>2, TheQueues, AppendKeeps
<1>3. ASSUME NEW r, NEW e \in BOOLEAN, r # p
      PROVE  /\ Keeps(r, queue[e], queue'[e])
             /\ r \in Entries(queue[e]) => r \in Entries(queue'[e])
  <2>1. CASE queue'[e] = queue[e]
    BY <2>1 DEF Keeps
  <2>2. CASE e = d /\ queue'[d] = Append(queue[d], p)
    BY <1>2, <1>3, <2>2
  <2> QED BY <1>1, <2>1, <2>2
<1> QED BY <1>1, <1>3

(* ringbuffer_pop_front, which takes whatever entry is at the head. *)
LEMMA PopKeeps ==
    ASSUME TypeOK, NEW d \in BOOLEAN, Pop(d)
    PROVE  /\ \A r, e : e \in BOOLEAN =>
                 /\ Keeps(r, queue[e], queue'[e])
                 /\ r \in Entries(queue[e]) /\ r # Head(queue[d]) => r \in Entries(queue'[e])
           /\ \A e \in BOOLEAN : e # d => queue'[e] = queue[e]
           /\ \A r : r \in Entries(queue[d]) /\ r = Head(queue[d]) /\ Once(r, queue[d]) =>
                 r \notin Entries(queue'[d])
<1>1. /\ \A e \in BOOLEAN : e # d => queue'[e] = queue[e]
      /\ queue'[d] = IF queue[d] = << >> THEN queue[d] ELSE Tail(queue[d])
  BY DEF TypeOK, Pop
<1>2. queue[d] \in Seq(Parties)
  BY TheQueues
<1>3. ASSUME queue[d] # << >>
      PROVE  /\ \A r : Keeps(r, queue[d], Tail(queue[d]))
             /\ \A r \in Entries(queue[d]) : r # Head(queue[d]) => r \in Entries(Tail(queue[d]))
             /\ Once(Head(queue[d]), queue[d]) => Head(queue[d]) \notin Entries(Tail(queue[d]))
  BY <1>2, <1>3, TailKeeps, TailEntries
<1>4. ASSUME NEW r, NEW e \in BOOLEAN
      PROVE  /\ Keeps(r, queue[e], queue'[e])
             /\ r \in Entries(queue[e]) /\ r # Head(queue[d]) => r \in Entries(queue'[e])
  <2>1. CASE queue'[e] = queue[e]
    BY <2>1 DEF Keeps
  <2>2. CASE e = d /\ queue[d] # << >> /\ queue'[d] = Tail(queue[d])
    BY <1>3, <2>2
  <2> QED BY <1>1, <2>1, <2>2
<1>5. ASSUME NEW r, r \in Entries(queue[d]), r = Head(queue[d]), Once(r, queue[d])
      PROVE  r \notin Entries(queue'[d])
  <2>1. queue[d] # << >>
    BY <1>2, <1>5, EntryOfNonempty
  <2> QED BY <1>1, <1>3, <1>5, <2>1
<1> QED BY <1>1, <1>4, <1>5

(* ringbuffer_erase. *)
LEMMA EraseKeeps ==
    ASSUME TypeOK, NEW d \in BOOLEAN, NEW p \in Parties, Erase(d, p)
    PROVE  /\ \A r, e : r # p /\ e \in BOOLEAN => Keeps(r, queue[e], queue'[e])
           /\ \A e \in BOOLEAN : e # d => queue'[e] = queue[e]
           /\ Once(p, queue[d]) => Once(p, queue'[d]) /\ p \notin Entries(queue'[d])
<1>0. queue[d] \in Seq(Parties)
  BY TheQueues
<1>1. CASE UNCHANGED queue /\ {i \in DOMAIN queue[d] : queue[d][i] = p} = {}
  BY <1>1 DEF Entries, Keeps
<1>2. ASSUME NEW k \in {i \in DOMAIN queue[d] : queue[d][i] = p},
             queue' = [queue EXCEPT ![d] =
                         [j \in 1 .. Len(@) - 1 |-> IF j < k THEN @[j] ELSE @[j + 1]]]
      PROVE  /\ \A r, e : r # p /\ e \in BOOLEAN => Keeps(r, queue[e], queue'[e])
             /\ \A e \in BOOLEAN : e # d => queue'[e] = queue[e]
             /\ Once(p, queue[d]) => Once(p, queue'[d]) /\ p \notin Entries(queue'[d])
  <2>1. /\ \A e \in BOOLEAN : e # d => queue'[e] = queue[e]
        /\ k \in DOMAIN queue[d] /\ queue[d][k] = p /\ queue'[d] = Without(queue[d], k)
    BY <1>2 DEF TypeOK, Without
  <2>2. /\ \A r : r # p => Keeps(r, queue[d], Without(queue[d], k))
        /\ Once(p, queue[d]) => Once(p, Without(queue[d], k)) /\ p \notin Entries(Without(queue[d], k))
    BY <1>0, <2>1, WithoutKeeps, WithoutEntries
  <2>3. ASSUME NEW r, NEW e \in BOOLEAN, r # p
        PROVE  Keeps(r, queue[e], queue'[e])
    <3>1. CASE queue'[e] = queue[e]
      BY <3>1 DEF Keeps
    <3>2. CASE e = d /\ queue'[d] = Without(queue[d], k)
      BY <2>2, <2>3, <3>2
    <3> QED BY <2>1, <3>1, <3>2
  <2> QED BY <2>1, <2>2, <2>3
<1> QED BY <1>1, <1>2 DEF Erase

----------------------------------------------------------------------------
(* By day *)

(* The night never falls, and the queues are large enough for everybody:   *)
(* main.c sizes them by VISITORS_LIMIT, a VIP is one of as many visitors,  *)
(* and a guide does not set out without one.                               *)
ByDay == LastPhase = 0
QueueHasRoom == Cardinality(Parties) <= Capacity

NobodyTold == leave_park = {} /\ untold = {}

InQueue == Lined \union {"entering", "entered", "popping"}
Near == {"first", "trying", "asleep2", "awake2", "entering", "entered", "popping"}

(* A party that waits has one entry, in the queue of its direction, and    *)
(* past check_if_first_secure its entry is the first.  Nobody else has one. *)
Placed(p) ==
    /\ pc[p] \in InQueue <=> p \in Entries(queue[track[p]])
    /\ Once(p, queue[track[p]])
    /\ \A e \in BOOLEAN : e # track[p] => p \notin Entries(queue[e])
    /\ pc[p] \in Near => Head(queue[track[p]]) = p

AllPlaced == \A p \in Parties : Placed(p)
DayQueues == AllPlaced /\ NoLostWakeup

LEMMA NoNight ==
    ASSUME TypeOK, ByDay
    PROVE  phase = 0 /\ ~night /\ NoDismissals
<1>1. phase = 0
  BY BridgeConstants DEF TypeOK, ByDay
<1> QED BY <1>1 DEF night, ByDay, NoDismissals

LEMMA NextTold == TypeOK /\ ByDay /\ NobodyTold /\ [Next]_vars => NobodyTold'
<1> SUFFICES ASSUME TypeOK, ByDay, NobodyTold, [Next]_vars PROVE NobodyTold'
  OBVIOUS
<1>1. ~Nightfall /\ ~night
  BY NoNight, BridgeConstants DEF Nightfall, ByDay
<1> USE DEF NobodyTold, clockVars
<1>2. ASSUME NEW g \in Guides, GuideStep(g) PROVE NobodyTold'
  BY <1>2 DEF GuideStep, GuideJoin, Join, CheckFirst, WakeUp, GuideRecheck, GuideProceed, TryPass,
              GuideEnter, GuideRetry, StartCrossing, GuideCross, GuideCount, GuideLeave, LeaveBridge,
              SendGroupToQueue
<1>3. ASSUME NEW v \in VIPs, VipStep(v) PROVE NobodyTold'
  BY <1>3 DEF VipStep, VipJoin, Join, CheckFirst, WakeUp, VipRecheck, VipProceed, TryPass, VipEnter,
              VipRetry, VipSendLeave, VipAwaitTicket, VipStartCrossing, StartCrossing, VipCross,
              VipLeave, LeaveBridge
<1>4. ASSUME NEW m \in Members, MemberStep(m) PROVE NobodyTold'
  BY <1>4 DEF MemberStep, WakeUp, MemberRead, MemberStepOn, MemberStepOff, MemberReport
<1>5. CASE Arrivals
  BY <1>5 DEF Arrivals, GuideArrive, VipArrive, SendGroupToQueue
<1>6. CASE Environment \/ UNCHANGED vars
  BY <1>1, <1>6 DEF Environment, Daybreak, GuideTold, VipTold, Dismiss, Kill, vars
<1> QED BY <1>2, <1>3, <1>4, <1>5, <1>6 DEF Next

(* A party that moves on without touching the queues or the bridge.        *)
Moves(p) ==
    /\ UNCHANGED << track, queue, bridgeVars >>
    /\ \E S \in SUBSET Members : wake' = wake \union S
    /\ \E l \in PartyStates :
          /\ Goto(p, l)
          /\ << pc[p], l >> \in
               { << "awake1", "queued" >>, << "first", "trying" >>, << "awake2", "trying" >>,
                 << "entering", "popping" >>, << "entering", "entered" >>,
                 << "entered", "popping" >>, << "crossing", "gathering" >>,
                 << "crossing", "leaving" >> }

(* By day, a party does one of these. *)
PartyDayStep(p) ==
    \/ pc[p] = "arrived" /\ Join(p)
    \/ CheckFirst(p) \/ WakeUp(p) \/ TryPass(p) \/ Moves(p) \/ StartCrossing(p)
    \/ pc[p] \in {"gathering", "leaving"} /\ LeaveBridge(p)
    \/ UNCHANGED << pc, track, wake, queue, bridgeVars >>

LEMMA GuideByDay ==
    ASSUME TypeOK, NobodyTold, NEW g \in Guides, GuideStep(g)
    PROVE  PartyDayStep(g)
<1>1. g \notin leave_park
  BY DEF NobodyTold
<1>2. CASE GuideJoin(g) \/ CheckFirst(g) \/ WakeUp(g) \/ TryPass(g) \/ StartCrossing(g) \/ GuideLeave(g)
  BY <1>1, <1>2 DEF PartyDayStep, GuideJoin, GuideLeave
<1>3. CASE GuideCount(g)
  BY <1>3 DEF PartyDayStep, GuideCount, bridgeVars
<1>4. CASE GuideRecheck(g) \/ GuideProceed(g) \/ GuideRetry(g) \/ GuideCross(g)
  <2>1. /\ UNCHANGED << track, queue, bridgeVars, wake >>
        /\ \/ pc[g] = "awake1" /\ Goto(g, "queued")
           \/ pc[g] = "first" /\ Goto(g, "trying")
           \/ pc[g] = "awake2" /\ Goto(g, "trying")
           \/ pc[g] = "crossing" /\ Goto(g, "gathering")
    BY <1>1, <1>4 DEF GuideRecheck, GuideProceed, GuideRetry, GuideCross, bridgeVars
  <2>2. wake' = wake \union {} /\ {} \in SUBSET Members
    BY <2>1
  <2>3. {"queued", "trying", "gathering"} \subseteq PartyStates
    BY DEF PartyStates, Lined, Admitted
  <2>4. Moves(g)
    BY <2>1, <2>2, <2>3 DEF Moves
  <2> QED BY <2>4 DEF PartyDayStep
<1>5. CASE GuideEnter(g)
  <2>1. /\ UNCHANGED << track, queue, bridgeVars >>
        /\ wake' = wake \union Group(g) /\ Group(g) \in SUBSET Members
        /\ pc[g] = "entering" /\ Goto(g, "popping")
    BY <1>5 DEF GuideEnter, Group, bridgeVars
  <2>2. "popping" \in PartyStates
    BY DEF PartyStates, Admitted, OnSpan
  <2>3. Moves(g)
    BY <2>1, <2>2 DEF Moves
  <2> QED BY <2>3 DEF PartyDayStep
<1> QED BY <1>2, <1>3, <1>4, <1>5 DEF GuideStep

LEMMA VipByDay ==
    ASSUME TypeOK, ByDay, NobodyDismissed, NEW v \in VIPs, VipStep(v)
    PROVE  PartyDayStep(v)
<1>1. v \notin kill_requested /\ ~night /\ pc[v] \notin Dismissed
  BY NoNight DEF NobodyDismissed
<1>2. CASE VipJoin(v) \/ CheckFirst(v) \/ WakeUp(v) \/ TryPass(v) \/ StartCrossing(v) \/ VipLeave(v)
  BY <1>2 DEF PartyDayStep, VipJoin, VipLeave
<1>3. CASE VipRecheck(v) \/ VipProceed(v) \/ VipRetry(v) \/ VipEnter(v) \/ VipStartCrossing(v) \/ VipCross(v)
  <2>1. /\ UNCHANGED << track, queue, bridgeVars, wake >>
        /\ \/ pc[v] = "awake1" /\ Goto(v, "queued")
           \/ pc[v] = "first" /\ Goto(v, "trying")
           \/ pc[v] = "awake2" /\ Goto(v, "trying")
           \/ pc[v] = "entering" /\ Goto(v, "entered")
           \/ pc[v] = "entered" /\ Goto(v, "popping")
           \/ pc[v] = "crossing" /\ Goto(v, "leaving")
    BY <1>1, <1>3 DEF VipRecheck, VipProceed, VipRetry, VipEnter, VipStartCrossing, VipCross, HasLeft,
                      Dismissed, bridgeVars
  <2>2. wake' = wake \union {} /\ {} \in SUBSET Members
    BY <2>1
  <2>3. {"queued", "trying", "entered", "popping", "leaving"} \subseteq PartyStates
    BY DEF PartyStates, Lined, Admitted, OnSpan
  <2>4. Moves(v)
    BY <2>1, <2>2, <2>3 DEF Moves
  <2> QED BY <2>4 DEF PartyDayStep
<1>4. ~VipSendLeave(v) /\ ~VipAwaitTicket(v)
  BY <1>1 DEF VipSendLeave, VipAwaitTicket, Dismissed
<1> QED BY <1>2, <1>3, <1>4 DEF VipStep

LEMMA PlaceOf ==
    ASSUME TypeOK, NEW p \in Parties, NEW l, Goto(p, l)
    PROVE  \A q \in Parties : pc'[q] = IF q = p THEN l ELSE pc[q]
BY DEF Goto, TypeOK, Processes

(* A party that keeps its place in the queue. *)
LEMMA PlaceFrame ==
    ASSUME TypeOK, AllPlaced, NEW p \in Parties, NEW l, Goto(p, l),
           UNCHANGED << track, queue >>,
           l \in InQueue <=> pc[p] \in InQueue,
           l \in Near => pc[p] \in Near \/ Head(queue[track[p]]) = p
    PROVE  AllPlaced'
<1>1. \A q \in Parties : pc'[q] = IF q = p THEN l ELSE pc[q]
  BY PlaceOf
<1> QED BY <1>1 DEF AllPlaced, Placed

(* ... and does not go to sleep. *)
LEMMA WakeFrame ==
    ASSUME TypeOK, NoLostWakeup, NEW p \in Parties, NEW l, l \notin Asleep, Goto(p, l),
           UNCHANGED << track, queue, bridgeVars >>, wake \subseteq wake' \union {p}
    PROVE  NoLostWakeup'
<1>1. \A q \in Parties : pc'[q] = IF q = p THEN l ELSE pc[q]
  BY PlaceOf
<1>2. SUFFICES ASSUME NEW d \in BOOLEAN, NEW q \in First(queue[d]),
                      pc'[q] \in Asleep, track[q] = d, q \notin wake'
               PROVE  groups_on_bridge > 0 /\ bridge_direction # d
  BY DEF NoLostWakeup, bridgeVars
<1>3. q \in Parties
  BY FirstIsParty DEF TypeOK
<1> QED BY <1>1, <1>2, <1>3 DEF NoLostWakeup

(* A party whose queues another one changes. *)
LEMMA OtherPlaced ==
    ASSUME TypeOK, NEW r \in Parties, Placed(r), pc'[r] = pc[r], track'[r] = track[r],
           \A e \in BOOLEAN : /\ Keeps(r, queue[e], queue'[e])
                              /\ r \in Entries(queue[e]) => r \in Entries(queue'[e])
    PROVE  Placed(r)'
<1>1. track[r] \in BOOLEAN
  BY DEF TypeOK
<1>2. pc[r] \in Near => pc[r] \in InQueue
  BY DEF Near, InQueue, Lined
<1> QED BY <1>1, <1>2 DEF Placed, Keeps

LEMMA JoinQueue ==
    ASSUME TypeOK, QueueHasRoom, DayQueues, NEW p \in Parties, pc[p] = "arrived", Join(p)
    PROVE  DayQueues'
<1> DEFINE d == track[p]
           q == queue[d]
<1>0. d \in BOOLEAN /\ q \in Seq(Parties)
  BY TheQueues DEF TypeOK
<1>1. /\ \A r \in Parties : pc'[r] = IF r = p THEN "queued" ELSE pc[r]
      /\ UNCHANGED << track, wake, groups_on_bridge, bridge_direction >>
  BY PlaceOf DEF Join, bridgeVars
<1>2. p \notin Entries(q)
  BY DEF DayQueues, AllPlaced, Placed, InQueue, Lined
<1>3. Len(q) < Capacity
  <2>1. \A x \in Entries(q) : x \in Parties /\ track[x] = d
    BY <1>0 DEF DayQueues, AllPlaced, Placed, Entries
  <2>2. OnceEach(q)
    BY <2>1, OnceEachIsOnce DEF DayQueues, AllPlaced, Placed
  <2>3. IsFiniteSet(Parties) /\ Cardinality(Parties) \in Nat
    BY PartiesFinite
  <2>4. Len(q) < Cardinality(Parties) /\ Len(q) \in Nat
    BY <1>0, <1>2, <2>2, <2>3, QueueTakesOneMore
  <2> HIDE DEF q
  <2> QED BY <2>3, <2>4, BridgeConstants DEF QueueHasRoom
<1>4. /\ \A r, e : r # p /\ e \in BOOLEAN =>
            /\ Keeps(r, queue[e], queue'[e])
            /\ r \in Entries(queue[e]) => r \in Entries(queue'[e])
      /\ \A e \in BOOLEAN : e # d => queue'[e] = queue[e]
      /\ queue'[d] = Append(q, p)
  BY <1>0, <1>3, PushKeeps DEF Join
<1>5. /\ Entries(Append(q, p)) = Entries(q) \union {p}
      /\ \A x : Once(x, q) /\ (x = p => p \notin Entries(q)) => Once(x, Append(q, p))
      /\ Head(Append(q, p)) = IF q = << >> THEN p ELSE Head(q)
  BY <1>0, AppendEntries
<1> HIDE DEF d, q
<1>6. Placed(p)'
  <2>1. Placed(p)
    BY DEF DayQueues, AllPlaced
  <2>2. p \in Entries(queue'[d]) /\ Once(p, queue'[d])
    BY <1>2, <1>4, <1>5, <2>1 DEF Placed, d, q
  <2>3. \A e \in BOOLEAN : e # d => p \notin Entries(queue'[e])
    BY <1>4, <2>1 DEF Placed, d
  <2> QED BY <1>1, <2>2, <2>3 DEF Placed, InQueue, Near, Lined, d
<1>7. AllPlaced'
  <2>1. ASSUME NEW r \in Parties, r # p PROVE Placed(r)'
    BY <1>1, <1>4, <2>1, OtherPlaced DEF DayQueues, AllPlaced
  <2> QED BY <1>6, <2>1 DEF AllPlaced
<1>8. NoLostWakeup'
  <2> SUFFICES ASSUME NEW e \in BOOLEAN, NEW r \in First(queue'[e]),
                      pc'[r] \in Asleep, track[r] = e, r \notin wake
               PROVE  groups_on_bridge > 0 /\ bridge_direction # e
    BY <1>1 DEF NoLostWakeup
  <2>1. TypeOK'
    BY JoinTypes
  <2>2. r \in Parties
    BY <2>1, FirstIsParty DEF TypeOK
  <2>3. r # p /\ pc[r] \in Asleep
    BY <1>1, <2>2 DEF Asleep
  <2>4. r \in First(queue[e])
    <3>1. CASE e = d
      BY <1>4, <1>5, <2>3, <3>1 DEF First, q
    <3>2. CASE e # d
      BY <1>4, <3>2
    <3> QED BY <3>1, <3>2
  <2> QED BY <2>3, <2>4 DEF DayQueues, NoLostWakeup
<1> QED BY <1>7, <1>8 DEF DayQueues

LEMMA CheckFirstQueue ==
    ASSUME TypeOK, DayQueues, NEW p \in Parties, CheckFirst(p)
    PROVE  DayQueues'
<1>1. /\ pc[p] = "queued" /\ track[p] \in BOOLEAN
      /\ UNCHANGED << track, queue, groups_on_bridge, bridge_direction >>
  BY DEF CheckFirst, TypeOK, bridgeVars
<1>2. queue[track[p]] # << >>
  <2>1. queue[track[p]] \in Seq(Parties) /\ p \in Entries(queue[track[p]])
    BY <1>1, TheQueues DEF DayQueues, AllPlaced, Placed, InQueue, Lined
  <2> QED BY <2>1, EntryOfNonempty
<1>3. CASE Head(queue[track[p]]) = p /\ Goto(p, "first") /\ UNCHANGED wake
  <2>1. AllPlaced'
    BY <1>1, <1>3, PlaceFrame DEF DayQueues, InQueue, Lined
  <2>2. NoLostWakeup'
    BY <1>1, <1>3, WakeFrame DEF DayQueues, Asleep, bridgeVars
  <2> QED BY <2>1, <2>2 DEF DayQueues
<1>4. CASE Head(queue[track[p]]) # p /\ Goto(p, "asleep1") /\ wake \subseteq wake'
  <2>1. AllPlaced'
    BY <1>1, <1>4, PlaceFrame DEF DayQueues, InQueue, Lined, Near
  <2>2. SUFFICES ASSUME NEW e \in BOOLEAN, NEW r \in First(queue[e]),
                        pc'[r] \in Asleep, track[r] = e, r \notin wake
                 PROVE  groups_on_bridge > 0 /\ bridge_direction # e
    BY <1>1, <1>4, <2>1 DEF DayQueues, NoLostWakeup
  <2>3. r \in Parties /\ r # p
    BY <1>4, <2>2, FirstIsParty DEF TypeOK, First
  <2>4. pc'[r] = pc[r]
    BY <1>4, <2>3, PlaceOf
  <2> QED BY <2>2, <2>4 DEF DayQueues, NoLostWakeup
<1> QED BY <1>2, <1>3, <1>4 DEF CheckFirst, First

(* Whoever takes the bridge over was the first of its queue; the first of  *)
(* the other one now waits for it.                                         *)
LEMMA TryPassQueue ==
    ASSUME TypeOK, DayInv, DayQueues, NEW p \in Parties, TryPass(p)
    PROVE  DayQueues'
<1>1. /\ pc[p] = "trying" /\ track[p] \in BOOLEAN /\ bridge_direction \in BOOLEAN
      /\ UNCHANGED << track, queue, wake >>
  BY DEF TryPass, TypeOK
<1>2. PICK l \in {"asleep2", "entering"} :
        /\ Goto(p, l)
        /\ l = "asleep2" =>
              /\ bridge_direction # track[p] /\ groups_on_bridge # 0
              /\ UNCHANGED << bridge_direction, groups_on_bridge >>
        /\ l = "entering" =>
              /\ bridge_direction = track[p] \/ groups_on_bridge = 0
              /\ bridge_direction' = track[p] /\ groups_on_bridge' = groups_on_bridge + 1
  BY DEF TryPass, bridgeVars
<1>3. AllPlaced'
  BY <1>1, <1>2, PlaceFrame DEF DayQueues, InQueue, Lined, Near
<1>4. groups_on_bridge \in Nat
  <2>1. Using \in SUBSET Parties
    BY DEF Using
  <2> QED BY <2>1, PartiesFinite DEF DayInv, GroupsCounted
<1>5. Head(queue[track[p]]) = p
  BY <1>1 DEF DayQueues, AllPlaced, Placed, Near
<1>6. \A q \in Parties : pc'[q] = IF q = p THEN l ELSE pc[q]
  BY <1>2, PlaceOf
<1>7. SUFFICES ASSUME NEW e \in BOOLEAN, NEW r \in First(queue[e]),
                      pc'[r] \in Asleep, track[r] = e, r \notin wake
               PROVE  groups_on_bridge' > 0 /\ bridge_direction' # e
  BY <1>1, <1>3 DEF DayQueues, NoLostWakeup
<1>8. r \in Parties /\ r = Head(queue[e])
  BY <1>7, FirstIsParty DEF TypeOK, First
<1>9. CASE r = p
  <2>1. l = "asleep2"
    BY <1>2, <1>6, <1>7, <1>8, <1>9 DEF Asleep
  <2>2. groups_on_bridge > 0
    BY <1>2, <1>4, <2>1
  <2> QED BY <1>2, <1>7, <1>9, <2>1, <2>2
<1>10. CASE r # p
  <2>1. groups_on_bridge > 0 /\ bridge_direction # e
    BY <1>6, <1>7, <1>8, <1>10 DEF DayQueues, NoLostWakeup
  <2>2. e # track[p]
    BY <1>5, <1>8, <1>10
  <2>3. groups_on_bridge' > 0
    BY <1>2, <1>4, <2>1
  <2> QED BY <1>2, <2>1, <2>2, <2>3
<1> QED BY <1>9, <1>10

LEMMA MovesQueue ==
    ASSUME TypeOK, DayQueues, NEW p \in Parties, Moves(p)
    PROVE  DayQueues'
<1>1. PICK l \in PartyStates :
          /\ Goto(p, l)
          /\ << pc[p], l >> \in
               { << "awake1", "queued" >>, << "first", "trying" >>, << "awake2", "trying" >>,
                 << "entering", "popping" >>, << "entering", "entered" >>,
                 << "entered", "popping" >>, << "crossing", "gathering" >>,
                 << "crossing", "leaving" >> }
  BY DEF Moves
<1>2. /\ l \in InQueue <=> pc[p] \in InQueue
      /\ l \in Near => pc[p] \in Near
      /\ l \notin Asleep
  BY <1>1 DEF InQueue, Near, Lined, Asleep
<1>3. UNCHANGED << track, queue, bridgeVars >> /\ wake \subseteq wake'
  BY DEF Moves
<1>4. AllPlaced'
  BY <1>1, <1>2, <1>3, PlaceFrame DEF DayQueues
<1>5. NoLostWakeup'
  BY <1>1, <1>2, <1>3, WakeFrame DEF DayQueues
<1> QED BY <1>4, <1>5 DEF DayQueues

LEMMA WakeUpQueue ==
    ASSUME TypeOK, DayQueues, NEW p \in Parties, WakeUp(p)
    PROVE  DayQueues'
<1>1. /\ pc[p] \in Asleep \union {"waiting"} /\ Goto(p, Woken(pc[p]))
      /\ UNCHANGED << track, queue, bridgeVars >> /\ wake \subseteq wake' \union {p}
  BY DEF WakeUp, bridgeVars
<1>2. /\ Woken(pc[p]) \in InQueue <=> pc[p] \in InQueue
      /\ Woken(pc[p]) \in Near => pc[p] \in Near
      /\ Woken(pc[p]) \notin Asleep
  BY <1>1 DEF Woken, InQueue, Near, Lined, Asleep
<1>3. AllPlaced'
  BY <1>1, <1>2, PlaceFrame DEF DayQueues
<1>4. NoLostWakeup'
  BY <1>1, <1>2, WakeFrame DEF DayQueues
<1> QED BY <1>3, <1>4 DEF DayQueues

(* The entry that is taken off the queue is the party's own, and the next  *)
(* in line is woken.                                                       *)
LEMMA StartCrossingQueue ==
    ASSUME TypeOK, DayQueues, NEW p \in Parties, StartCrossing(p)
    PROVE  DayQueues'
<1> DEFINE d == track[p]
<1>1. /\ pc[p] = "popping" /\ d \in BOOLEAN /\ Pop(d)
      /\ wake' = wake \union First(queue'[d])
      /\ UNCHANGED << track, groups_on_bridge, bridge_direction >>
  BY DEF StartCrossing, TypeOK, bridgeVars
<1>2. \A r \in Parties : pc'[r] = IF r = p THEN "crossing" ELSE pc[r]
  BY PlaceOf DEF StartCrossing
<1>3. /\ p \in Entries(queue[d]) /\ Once(p, queue[d]) /\ Head(queue[d]) = p
      /\ \A e \in BOOLEAN : e # d => p \notin Entries(queue[e])
  BY <1>1 DEF DayQueues, AllPlaced, Placed, InQueue, Near
<1> HIDE DEF d
<1>4. /\ \A r, e : e \in BOOLEAN =>
            /\ Keeps(r, queue[e], queue'[e])
            /\ r \in Entries(queue[e]) /\ r # Head(queue[d]) => r \in Entries(queue'[e])
      /\ \A e \in BOOLEAN : e # d => queue'[e] = queue[e]
      /\ \A r : r \in Entries(queue[d]) /\ r = Head(queue[d]) /\ Once(r, queue[d]) =>
            r \notin Entries(queue'[d])
  BY <1>1, PopKeeps
<1>5. Placed(p)'
  <2>1. p \notin Entries(queue'[d]) /\ Once(p, queue'[d])
    BY <1>1, <1>3, <1>4 DEF Keeps
  <2>2. \A e \in BOOLEAN : e # d => p \notin Entries(queue'[e])
    BY <1>3, <1>4
  <2> QED BY <1>1, <1>2, <2>1, <2>2 DEF Placed, InQueue, Near, Lined, d
<1>6. AllPlaced'
  <2>1. ASSUME NEW r \in Parties, r # p PROVE Placed(r)'
    BY <1>1, <1>2, <1>3, <1>4, <2>1, OtherPlaced DEF DayQueues, AllPlaced
  <2> QED BY <1>5, <2>1 DEF AllPlaced
<1>7. NoLostWakeup'
  <2> SUFFICES ASSUME NEW e \in BOOLEAN, NEW r \in First(queue'[e]),
                      pc'[r] \in Asleep, track[r] = e, r \notin wake'
               PROVE  groups_on_bridge > 0 /\ bridge_direction # e
    BY <1>1 DEF NoLostWakeup
  <2>1. e # d
    BY <1>1
  <2>2. r \in First(queue[e])
    BY <1>4, <2>1
  <2>3. r \in Parties
    BY <2>2, FirstIsParty DEF TypeOK
  <2>4. pc[r] \in Asleep
    BY <1>2, <2>3 DEF Asleep
  <2> QED BY <1>1, <2>2, <2>4 DEF DayQueues, NoLostWakeup
<1> QED BY <1>6, <1>7 DEF DayQueues

(* Whoever leaves the bridge goes the direction of the bridge, so the      *)
(* first of the opposite queue, whom it wakes, is the one that waits.      *)
LEMMA LeaveBridgeQueue ==
    ASSUME TypeOK, DayInv, DayQueues, NEW p \in Parties,
           pc[p] \in {"gathering", "leaving"}, LeaveBridge(p)
    PROVE  DayQueues'
<1>1. /\ Goto(p, "elsewhere") /\ UNCHANGED << track, queue, bridge_direction >>
      /\ wake' = wake \union First(queue[~track[p]])
      /\ track[p] \in BOOLEAN /\ bridge_direction \in BOOLEAN
  BY DEF LeaveBridge, TypeOK
<1>2. AllPlaced'
  BY <1>1, PlaceFrame DEF DayQueues, InQueue, Lined, Near
<1>3. track[p] = bridge_direction
  BY DEF DayInv, DirectionKept, Using, Admitted
<1>4. SUFFICES ASSUME NEW e \in BOOLEAN, NEW r \in First(queue[e]),
                      pc'[r] \in Asleep, track[r] = e, r \notin wake'
               PROVE  FALSE
  BY <1>1, <1>2 DEF DayQueues, NoLostWakeup
<1>5. r \in Parties
  BY <1>4, FirstIsParty DEF TypeOK
<1>6. pc[r] \in Asleep
  BY <1>1, <1>4, <1>5, PlaceOf DEF Asleep
<1>7. bridge_direction # e
  BY <1>1, <1>4, <1>6 DEF DayQueues, NoLostWakeup
<1>8. e = ~track[p]
  BY <1>1, <1>3, <1>7
<1> QED BY <1>1, <1>4, <1>8

LEMMA PartyQueue ==
    ASSUME TypeOK, QueueHasRoom, DayInv, DayQueues, NEW p \in Parties, PartyDayStep(p)
    PROVE  DayQueues'
<1>1. CASE UNCHANGED << pc, track, wake, queue, bridgeVars >>
  BY <1>1 DEF DayQueues, AllPlaced, Placed, NoLostWakeup, bridgeVars
<1> QED BY <1>1, JoinQueue, CheckFirstQueue, WakeUpQueue, TryPassQueue, MovesQueue,
           StartCrossingQueue, LeaveBridgeQueue
        DEF PartyDayStep

(* A step of which the queues and those who wait there notice at most a    *)
(* wake-up.                                                                *)
LEMMA QuietQueue ==
    ASSUME TypeOK, DayQueues, UNCHANGED << track, queue, bridgeVars >>,
           \A p \in Parties : pc'[p] = pc[p] /\ (p \in wake => p \in wake')
    PROVE  DayQueues'
<1>1. AllPlaced'
  BY DEF DayQueues, AllPlaced, Placed
<1>2. \A d \in BOOLEAN : First(queue[d]) \subseteq Parties
  BY FirstIsParty DEF TypeOK
<1>3. NoLostWakeup'
  BY <1>2 DEF DayQueues, NoLostWakeup, bridgeVars
<1> QED BY <1>1, <1>3 DEF DayQueues

LEMMA ArriveQueue ==
    ASSUME TypeOK, DayQueues, NEW p \in Parties, NEW d \in BOOLEAN, pc[p] = "elsewhere",
           UNCHANGED << queue, bridgeVars >>, track' = [track EXCEPT ![p] = d],
           \A q \in Parties : /\ pc'[q] = IF q = p THEN "arrived" ELSE pc[q]
                              /\ q # p /\ q \in wake => q \in wake'
    PROVE  DayQueues'
<1>1. \A q \in Parties : track'[q] = IF q = p THEN d ELSE track[q]
  BY DEF TypeOK
<1>2. \A e \in BOOLEAN : p \notin Entries(queue[e])
  BY DEF DayQueues, AllPlaced, Placed, InQueue, Lined
<1>3. Once(p, queue[d])
  BY <1>2 DEF Once, Entries
<1>4. AllPlaced'
  <2>1. Placed(p)'
    BY <1>1, <1>2, <1>3 DEF Placed, InQueue, Near, Lined
  <2>2. ASSUME NEW q \in Parties, q # p PROVE Placed(q)'
    BY <1>1, <2>2 DEF DayQueues, AllPlaced, Placed
  <2> QED BY <2>1, <2>2 DEF AllPlaced
<1>5. NoLostWakeup'
  <2> SUFFICES ASSUME NEW e \in BOOLEAN, NEW r \in First(queue[e]),
                      pc'[r] \in Asleep, track'[r] = e, r \notin wake'
               PROVE  groups_on_bridge > 0 /\ bridge_direction # e
    BY DEF NoLostWakeup, bridgeVars
  <2>1. r \in Parties
    BY FirstIsParty DEF TypeOK
  <2>2. r # p
    BY <2>1 DEF Asleep
  <2> QED BY <1>1, <2>1, <2>2 DEF DayQueues, NoLostWakeup
<1> QED BY <1>4, <1>5 DEF DayQueues

LEMMA NextQueue ==
    TypeOK /\ ByDay /\ QueueHasRoom /\ NobodyTold /\ NobodyDismissed /\ DayInv /\ DayQueues /\ [Next]_vars
        => DayQueues'
<1> SUFFICES ASSUME TypeOK, ByDay, QueueHasRoom, NobodyTold, NobodyDismissed, DayInv, DayQueues,
                    [Next]_vars
             PROVE  DayQueues'
  OBVIOUS
<1>1. ASSUME NEW g \in Guides, GuideStep(g) PROVE DayQueues'
  BY <1>1, GuideByDay, PartyQueue DEF Parties
<1>2. ASSUME NEW v \in VIPs, VipStep(v) PROVE DayQueues'
  BY <1>2, VipByDay, PartyQueue DEF Parties
<1>3. ASSUME NEW m \in Members, MemberStep(m) PROVE DayQueues'
  <2>1. /\ \E l : Goto(m, l)
        /\ UNCHANGED << track, queue, bridgeVars >>
        /\ wake \subseteq wake' \union {m}
    BY <1>3 DEF MemberStep, WakeUp, MemberRead, MemberStepOn, MemberStepOff, MemberReport, bridgeVars
  <2>2. \A p \in Parties : pc'[p] = pc[p] /\ (p \in wake => p \in wake')
    BY <2>1, BridgeConstants DEF Goto, TypeOK, Processes
  <2> QED BY <2>1, <2>2, QuietQueue
<1>4. ASSUME NEW d \in BOOLEAN, NEW g \in Guides, GuideArrive(g, d) PROVE DayQueues'
  <2>1. g \in Parties
    BY DEF Parties
  <2>2. /\ pc[g] = "elsewhere" /\ UNCHANGED << queue, bridgeVars >>
        /\ track' = [track EXCEPT ![g] = d]
        /\ wake \subseteq wake'
    BY <1>4 DEF GuideArrive, SendGroupToQueue, bridgeVars
  <2>3. \A q \in Parties : pc'[q] = IF q = g THEN "arrived" ELSE pc[q]
    BY <1>4, BridgeConstants DEF GuideArrive, Group, Processes
  <2> QED BY <2>1, <2>2, <2>3, ArriveQueue
<1>5. ASSUME NEW d \in BOOLEAN, NEW v \in VIPs, VipArrive(v, d) PROVE DayQueues'
  <2>1. v \in Parties
    BY DEF Parties
  <2>2. /\ pc[v] = "elsewhere" /\ UNCHANGED << queue, bridgeVars >> /\ Goto(v, "arrived")
        /\ track' = [track EXCEPT ![v] = d]
        /\ wake \ {v} \subseteq wake'
    BY <1>5 DEF VipArrive, bridgeVars
  <2>3. \A q \in Parties : pc'[q] = IF q = v THEN "arrived" ELSE pc[q]
    BY <2>1, <2>2, PlaceOf
  <2> QED BY <2>1, <2>2, <2>3, ArriveQueue
<1>6. CASE Environment \/ UNCHANGED vars
  <2>1. \A g \in Guides : ~GuideTold(g)
    BY DEF GuideTold, NobodyTold
  <2>2. UNCHANGED << pc, track, queue, bridgeVars >> /\ wake \subseteq wake'
    BY <1>6, <2>1 DEF Environment, Nightfall, Daybreak, VipTold, Dismiss, Kill, vars, bridgeVars
  <2> QED BY <2>2, QuietQueue
<1> QED BY <1>1, <1>2, <1>3, <1>4, <1>5, <1>6 DEF Next, Arrivals

QueuesKept == DayKept /\ NobodyTold /\ DayQueues

LEMMA QueuesAreKept == ASSUME ByDay, QueueHasRoom PROVE Spec => []QueuesKept
<1>1. Init => NobodyTold /\ DayQueues
  <2> SUFFICES ASSUME Init PROVE NobodyTold /\ DayQueues
    OBVIOUS
  <2>1. \A p \in Parties : pc[p] = "elsewhere" /\ track[p] = TRUE
    BY BridgeConstants DEF Init, Processes
  <2>2. \A d \in BOOLEAN : queue[d] = << >>
    BY DEF Init
  <2>3. \A p \in Parties : Placed(p)
    <3>1. \A x : x \notin Entries(<< >>) /\ Once(x, << >>)
      BY EmptyEntries DEF Once
    <3> QED BY <2>1, <2>2, <3>1 DEF Placed, InQueue, Near, Lined
  <2> QED BY <2>2, <2>3 DEF Init, NobodyTold, DayQueues, AllPlaced, NoLostWakeup, First
<1>2. NoDismissals
  BY DEF ByDay, NoDismissals
<1>3. DayKept /\ NobodyTold /\ DayQueues /\ [Next]_vars => NobodyTold' /\ DayQueues'
  BY NextTold, NextQueue DEF DayKept
<1> HIDE DEF ByDay, QueueHasRoom, NoDismissals
<1> QED BY <1>1, <1>2, <1>3, DayHolds, PTL DEF Spec, QueuesKept

(* By day and in queues with room for everybody, for any guides, groups,   *)
(* VIPs and limit: the queues hold exactly the parties that wait, each of  *)
(* them once, although entries are pushed, popped and looked at in         *)
(* separate sections of MUTEX_BRIDGE.                                      *)
THEOREM BridgeQueueIsHonest == ASSUME ByDay, QueueHasRoom PROVE Spec => []QueueHonest
<1>1. QueuesKept => QueueHonest
  <2> SUFFICES ASSUME QueuesKept, NEW d \in BOOLEAN
               PROVE  /\ Entries(queue[d]) = {p \in Parties : track[p] = d /\ pc[p] \in InQueue}
                      /\ OnceEach(queue[d])
    BY DEF QueueHonest, Entries, OnceEach, InQueue
  <2>1. TypeOK /\ queue[d] \in Seq(Parties) /\ \A p \in Parties : Placed(p) /\ track[p] \in BOOLEAN
    BY TheQueues DEF QueuesKept, DayKept, DayQueues, AllPlaced, TypeOK
  <2>2. Entries(queue[d]) \subseteq Parties
    BY <2>1 DEF Entries
  <2>3. \A p \in Parties : p \in Entries(queue[d]) <=> track[p] = d /\ pc[p] \in InQueue
    BY <2>1 DEF Placed
  <2>4. \A p \in Entries(queue[d]) : Once(p, queue[d])
    BY <2>1, <2>2, <2>3 DEF Placed
  <2> QED BY <2>2, <2>3, <2>4, OnceEachIsOnce
<1> HIDE DEF ByDay, QueueHasRoom
<1> QED BY <1>1, QueuesAreKept, PTL

(* Under the same conditions no wake-up is lost: a sleeper at the head of  *)
(* a queue has one pending, or the other direction has the bridge and will *)
(* send one.                                                               *)
THEOREM BridgeWakesTheFirst == ASSUME ByDay, QueueHasRoom PROVE Spec => []NoLostWakeup
<1>1. QueuesKept => NoLostWakeup
  BY DEF QueuesKept, DayQueues
<1> HIDE DEF ByDay, QueueHasRoom
<1> QED BY <1>1, QueuesAreKept, PTL

(* A bridge of at least one seat: whoever waits for a seat with            *)
(* MUTEX_BRIDGE in its hand waits for somebody who needs no mutex to give  *)
(* one back.  The leaders ahead of it are past their own queue: it is      *)
(* first in the queue they have been first in.                             *)
THEOREM BridgeSeatComesFree ==
    ASSUME ByDay, QueueHasRoom, BridgeLimit > 0 PROVE Spec => []SeatComesFree
<1>1. QueuesKept => SeatComesFree
  <2> SUFFICES ASSUME QueuesKept, NEW p \in Parties, pc[p] = "entering", sem = 0
               PROVE  \/ \E q \in Parties : pc[q] = "crossing"
                      \/ \E m \in Members : pc[m] = "crossing"
    BY DEF SeatComesFree
  <2>1. Cardinality(Span) # 0
    BY SpanFinite, BridgeConstants DEF QueuesKept, DayKept, DayInv, SeatsCounted
  <2>2. Span # {}
    BY <2>1, FS_EmptySet
  <2>3. CASE \E m \in Members : pc[m] = "crossing"
    BY <2>3
  <2>4. CASE \E q \in Parties : pc[q] \in OnSpan
    <3>1. PICK q \in Parties : pc[q] \in OnSpan
      BY <2>4
    <3>2. track[q] = track[p]
      BY <3>1 DEF QueuesKept, DayKept, DayInv, DirectionKept, Using, Admitted
    <3>3. pc[q] # "entered" /\ pc[q] # "popping"
      BY <3>2 DEF QueuesKept, DayQueues, AllPlaced, Placed, Near
    <3> QED BY <3>1, <3>3 DEF OnSpan
  <2> QED BY <2>2, <2>3, <2>4 DEF Span, MembersCrossing
<1> HIDE DEF ByDay, QueueHasRoom
<1> QED BY <1>1, QueuesAreKept, PTL

----------------------------------------------------------------------------
(* By day and by night: the entries of the VIPs *)

(* The cashier has nothing to do with it, nor ever had. *)
Undisturbed(v) ==
    letters[v] = 0 /\ v \notin marked /\ v \notin kill_requested /\ vstatus[v] = "AT_BRIDGE"

Gone == {"elsewhere", "arrived", "crossing", "leaving"} \union Dismissed

(* A VIP has at most one entry, in the queue of its direction, none once   *)
(* it has left the queue or written to the cashier, and past the first     *)
(* loop its entry is the first.  (After dark others may take its entry     *)
(* away: ringbuffer_pop_front takes whatever is at the head.)              *)
VipPlaced(v) ==
    /\ Once(v, queue[track[v]])
    /\ \A e \in BOOLEAN : e # track[v] => v \notin Entries(queue[e])
    /\ v \in Entries(queue[track[v]]) =>
          /\ pc[v] \notin Gone /\ Undisturbed(v)
          /\ pc[v] \in Near => Head(queue[track[v]]) = v
    /\ pc[v] = "arrived" => Undisturbed(v)

VipsPlaced == \A v \in VIPs : VipPlaced(v)

SameRecord(v) ==
    /\ letters'[v] = letters[v] /\ vstatus'[v] = vstatus[v]
    /\ v \in marked' <=> v \in marked
    /\ v \in kill_requested' <=> v \in kill_requested

LEMMA OtherVip ==
    ASSUME TypeOK, NEW v \in VIPs, VipPlaced(v), SameRecord(v),
           pc'[v] = pc[v], track'[v] = track[v],
           \A e \in BOOLEAN : Keeps(v, queue[e], queue'[e])
    PROVE  VipPlaced(v)'
<1>1. track[v] \in BOOLEAN
  BY DEF TypeOK, Parties
<1>2. Undisturbed(v)' <=> Undisturbed(v)
  BY DEF Undisturbed, SameRecord
<1> QED BY <1>1, <1>2 DEF VipPlaced, Keeps

(* What a party does to its queue. *)
QueueStep(p) ==
    \/ UNCHANGED queue
    \/ Push(track[p], p) \/ Pop(track[p]) \/ Erase(track[p], p)

LEMMA OthersKept ==
    ASSUME TypeOK, NEW p \in Parties, QueueStep(p)
    PROVE  \A r \in Parties : r # p => \A e \in BOOLEAN : Keeps(r, queue[e], queue'[e])
<1>1. track[p] \in BOOLEAN
  BY DEF TypeOK
<1>2. CASE UNCHANGED queue
  BY <1>2 DEF Keeps
<1>3. CASE Push(track[p], p)
  BY <1>1, <1>3, PushKeeps
<1>4. CASE Pop(track[p])
  BY <1>1, <1>4, PopKeeps
<1>5. CASE Erase(track[p], p)
  BY <1>1, <1>5, EraseKeeps
<1> QED BY <1>2, <1>3, <1>4, <1>5 DEF QueueStep

LEMMA GuideQueueStep ==
    ASSUME TypeOK, NEW g \in Guides, GuideStep(g)
    PROVE  QueueStep(g) /\ UNCHANGED << track, vipVars >> /\ ((\E l : Goto(g, l)) \/ UNCHANGED pc)
<1>1. UNCHANGED << track, vipVars >> /\ ((\E l : Goto(g, l)) \/ UNCHANGED pc)
  BY DEF GuideStep, GuideJoin, Join, CheckFirst, WakeUp, GuideRecheck, GuideProceed, TryPass,
         GuideEnter, GuideRetry, StartCrossing, GuideCross, GuideCount, GuideLeave, LeaveBridge,
         SendGroupToQueue
<1>2. QueueStep(g)
  BY DEF GuideStep, GuideJoin, Join, CheckFirst, WakeUp, GuideRecheck, GuideProceed, TryPass,
         GuideEnter, GuideRetry, StartCrossing, GuideCross, GuideCount, GuideLeave, LeaveBridge,
         SendGroupToQueue, QueueStep
<1> QED BY <1>1, <1>2

LEMMA VipQueueStep ==
    ASSUME TypeOK, NEW v \in VIPs, VipStep(v)
    PROVE  /\ QueueStep(v) /\ UNCHANGED track /\ \E l : Goto(v, l)
           /\ \A w \in VIPs : w # v => SameRecord(w)
<1>1. UNCHANGED track /\ \E l : Goto(v, l)
  BY DEF VipStep, VipJoin, Join, CheckFirst, WakeUp, VipRecheck, VipProceed, TryPass, VipEnter,
         VipRetry, VipSendLeave, VipAwaitTicket, VipStartCrossing, StartCrossing, VipCross,
         VipLeave, LeaveBridge
<1>2. QueueStep(v)
  BY DEF VipStep, VipJoin, Join, CheckFirst, WakeUp, VipRecheck, VipProceed, TryPass, VipEnter,
         VipRetry, VipSendLeave, VipAwaitTicket, VipStartCrossing, StartCrossing, VipCross,
         VipLeave, LeaveBridge, QueueStep
<1>3. \A w \in VIPs : w # v => SameRecord(w)
  <2>1. CASE VipSendLeave(v) \/ VipAwaitTicket(v)
    BY <2>1 DEF VipSendLeave, VipAwaitTicket, SameRecord, TypeOK
  <2>2. CASE UNCHANGED vipVars
    BY <2>2 DEF vipVars, SameRecord
  <2>3. VipSendLeave(v) \/ VipAwaitTicket(v) \/ UNCHANGED vipVars
    BY DEF VipStep, VipJoin, Join, CheckFirst, WakeUp, VipRecheck, VipProceed, TryPass, VipEnter,
           VipRetry, VipStartCrossing, StartCrossing, VipCross, VipLeave, LeaveBridge
  <2> QED BY <2>1, <2>2, <2>3
<1> QED BY <1>1, <1>2, <1>3

(* A step of a VIP that leaves the queues alone. *)
LEMMA VipMoves ==
    ASSUME TypeOK, NEW v \in VIPs, VipPlaced(v), NEW l, Goto(v, l), l # "arrived",
           UNCHANGED << track, queue >>,
           v \in Entries(queue[track[v]]) =>
              /\ SameRecord(v) /\ l \notin Gone
              /\ l \in Near => pc[v] \in Near \/ Head(queue[track[v]]) = v
    PROVE  VipPlaced(v)'
<1>1. pc'[v] = l
  BY PlaceOf DEF Parties
<1> QED BY <1>1 DEF VipPlaced, Undisturbed, SameRecord

(* A VIP that has left the queue. *)
LEMMA VipIsOut ==
    ASSUME TypeOK, NEW v \in VIPs, NEW l, Goto(v, l), l # "arrived",
           \A e \in BOOLEAN : v \notin Entries(queue'[e]), UNCHANGED track
    PROVE  VipPlaced(v)'
<1>1. pc'[v] = l /\ track'[v] \in BOOLEAN
  BY PlaceOf DEF Parties, TypeOK
<1>2. \A e \in BOOLEAN : Once(v, queue'[e])
  BY DEF Once, Entries
<1> QED BY <1>1, <1>2 DEF VipPlaced

LEMMA VipKeepsPlace ==
    ASSUME TypeOK, NEW v \in VIPs, VipPlaced(v), VipStep(v)
    PROVE  VipPlaced(v)'
<1> DEFINE d == track[v]
           in == v \in Entries(queue[d])
<1>0. v \in Parties /\ d \in BOOLEAN /\ queue[d] \in Seq(Parties)
  BY TheQueues DEF Parties, TypeOK
<1>1. in => pc[v] \notin Gone /\ Undisturbed(v) /\ (pc[v] \in Near => Head(queue[d]) = v)
  BY DEF VipPlaced
<1> HIDE DEF d
<1>2. ASSUME UNCHANGED vipVars PROVE SameRecord(v)
  BY <1>2 DEF vipVars, SameRecord
<1>3. ASSUME NEW l, Goto(v, l), l # "arrived", Erase(d, v), UNCHANGED track
      PROVE  VipPlaced(v)'
  <2>1. \A e \in BOOLEAN : v \notin Entries(queue'[e])
    BY <1>0, <1>3, EraseKeeps DEF VipPlaced, d
  <2> QED BY <1>3, <2>1, VipIsOut
<1>4. CASE VipJoin(v)
  <2>1. /\ pc[v] = "arrived" /\ pc'[v] = "queued"
        /\ Push(d, v) /\ UNCHANGED << track, vipVars >>
    BY <1>0, <1>4, PlaceOf DEF VipJoin, Join, d
  <2>2. /\ \A e \in BOOLEAN : v \notin Entries(queue[e])
        /\ Undisturbed(v)
    BY <1>1, <2>1 DEF VipPlaced, Gone, d
  <2>3. /\ \A e \in BOOLEAN : e # d => queue'[e] = queue[e]
        /\ queue'[d] = queue[d] \/ queue'[d] = Append(queue[d], v)
    BY <1>0, <2>1, PushKeeps
  <2>4. Once(v, queue[d])
    BY <1>0, <2>2 DEF Once, Entries
  <2>5. Once(v, queue'[d])
    BY <1>0, <2>2, <2>3, <2>4, AppendEntries
  <2>6. Undisturbed(v)'
    BY <1>2, <2>1, <2>2 DEF Undisturbed, SameRecord
  <2> QED BY <2>1, <2>2, <2>3, <2>5, <2>6 DEF VipPlaced, Gone, Dismissed, Near, d
<1>5. CASE CheckFirst(v)
  <2>1. PICK l \in {"first", "asleep1"} :
           /\ Goto(v, l)
           /\ l = "first" /\ queue[d] # << >> => Head(queue[d]) = v
    BY <1>5 DEF CheckFirst, First, d
  <2>2. in => queue[d] # << >>
    BY <1>0, EntryOfNonempty
  <2>3. UNCHANGED << track, queue, vipVars >>
    BY <1>5 DEF CheckFirst
  <2> QED BY <1>2, <2>1, <2>2, <2>3, VipMoves DEF Gone, Dismissed, Near, d
<1>6. CASE WakeUp(v)
  <2>1. /\ pc[v] \in Asleep \union {"waiting"} /\ Goto(v, Woken(pc[v]))
        /\ UNCHANGED << track, queue, vipVars >>
    BY <1>6 DEF WakeUp
  <2>2. /\ Woken(pc[v]) \in {"awake1", "awake2", "reading"}
        /\ Woken(pc[v]) = "awake2" => pc[v] \in Near
    BY <2>1 DEF Woken, Asleep, Near
  <2> QED BY <1>2, <2>1, <2>2, VipMoves DEF Gone, Dismissed, Near
<1>7. CASE VipRecheck(v)
  <2>1. CASE Goto(v, "queued") /\ UNCHANGED queue
    <3>1. UNCHANGED << track, vipVars >>
      BY <1>7 DEF VipRecheck
    <3> QED BY <1>2, <2>1, <3>1, VipMoves DEF Gone, Dismissed, Near
  <2>2. CASE Goto(v, "walking1") /\ Erase(d, v)
    BY <1>3, <1>7, <2>2 DEF VipRecheck
  <2> QED BY <1>7, <2>1, <2>2 DEF VipRecheck, d
<1>8. CASE VipProceed(v)
  <2>1. /\ pc[v] = "first" /\ UNCHANGED << track, queue, vipVars >>
        /\ \/ Goto(v, "trying")
           \/ Goto(v, "elsewhere") /\ ~Undisturbed(v)
    BY <1>8 DEF VipProceed, HasLeft, Undisturbed
  <2> QED BY <1>1, <1>2, <2>1, VipMoves DEF Gone, Dismissed, Near, d
<1>9. CASE TryPass(v) \/ VipEnter(v)
  <2>1. /\ pc[v] \in Near /\ \E l \in {"asleep2", "entering", "entered"} : Goto(v, l)
        /\ UNCHANGED << track, queue, vipVars >>
    BY <1>9 DEF TryPass, VipEnter, Near
  <2> QED BY <1>2, <2>1, VipMoves DEF Gone, Dismissed
<1>10. CASE VipRetry(v)
  <2>1. UNCHANGED << track, vipVars >> /\ pc[v] = "awake2"
    BY <1>10 DEF VipRetry
  <2>2. CASE Goto(v, "refused") /\ v \in kill_requested /\ UNCHANGED queue
    BY <1>1, <2>1, <2>2, VipMoves DEF Undisturbed, d
  <2>3. CASE Goto(v, "trying") /\ UNCHANGED queue
    BY <1>2, <2>1, <2>3, VipMoves DEF Gone, Dismissed, Near
  <2>4. CASE Goto(v, "walking2") /\ Erase(d, v)
    BY <1>3, <2>1, <2>4
  <2> QED BY <1>10, <2>2, <2>3, <2>4 DEF VipRetry, d
<1>11. CASE VipSendLeave(v) \/ VipAwaitTicket(v) \/ VipCross(v) \/ VipLeave(v)
  <2>1. /\ pc[v] \in Gone /\ UNCHANGED << track, queue >>
        /\ \E l : l # "arrived" /\ Goto(v, l)
    BY <1>11 DEF VipSendLeave, VipAwaitTicket, VipCross, VipLeave, LeaveBridge, Gone, Dismissed
  <2> QED BY <1>1, <2>1, VipMoves DEF d
<1>12. CASE VipStartCrossing(v)
  <2>1. /\ pc[v] \in {"entered", "refused"} /\ UNCHANGED << track, queue, vipVars >>
        /\ \/ Goto(v, "popping")
           \/ Goto(v, "elsewhere") /\ ~Undisturbed(v)
    BY <1>12 DEF VipStartCrossing, HasLeft, Undisturbed
  <2> QED BY <1>1, <1>2, <2>1, VipMoves DEF Gone, Dismissed, Near, d
<1>13. CASE StartCrossing(v)
  <2>1. pc[v] = "popping" /\ Goto(v, "crossing") /\ Pop(d) /\ UNCHANGED track
    BY <1>13 DEF StartCrossing, d
  <2>2. /\ \A e \in BOOLEAN : e # d => queue'[e] = queue[e]
        /\ v \in Entries(queue'[d]) => v \in Entries(queue[d])
        /\ v \in Entries(queue[d]) /\ v = Head(queue[d]) /\ Once(v, queue[d]) =>
              v \notin Entries(queue'[d])
    BY <1>0, <2>1, PopKeeps DEF Keeps
  <2>3. \A e \in BOOLEAN : v \notin Entries(queue'[e])
    BY <1>1, <2>1, <2>2 DEF VipPlaced, Near, d
  <2> QED BY <2>1, <2>3, VipIsOut
<1> QED BY <1>4, <1>5, <1>6, <1>7, <1>8, <1>9, <1>10, <1>11, <1>12, <1>13 DEF VipStep

LEMMA NextVips == TypeOK /\ VipsPlaced /\ [Next]_vars => VipsPlaced'
<1> SUFFICES ASSUME TypeOK, VipsPlaced, [Next]_vars, NEW v \in VIPs PROVE VipPlaced(v)'
  BY DEF VipsPlaced
<1>0. v \in Parties /\ v \in Processes /\ VipPlaced(v) /\ v \notin Guides /\ v \notin Members
  BY BridgeConstants DEF VipsPlaced, Parties, Processes
<1>1. ASSUME pc'[v] = pc[v], track'[v] = track[v], UNCHANGED queue, SameRecord(v)
      PROVE  VipPlaced(v)'
  <2>1. \A e \in BOOLEAN : Keeps(v, queue[e], queue'[e])
    BY <1>1 DEF Keeps
  <2> QED BY <1>0, <1>1, <2>1, OtherVip
<1>2. ASSUME UNCHANGED vipVars PROVE SameRecord(v)
  BY <1>2 DEF vipVars, SameRecord
<1>3. ASSUME NEW p \in Processes, p # v, NEW l, Goto(p, l) PROVE pc'[v] = pc[v]
  BY <1>3 DEF Goto, TypeOK
<1>4. ASSUME NEW g \in Guides, GuideStep(g) PROVE VipPlaced(v)'
  <2>1. g \in Parties /\ g \in Processes /\ g # v
    BY <1>0 DEF Parties, Processes
  <2>2. /\ \A e \in BOOLEAN : Keeps(v, queue[e], queue'[e])
        /\ UNCHANGED << track, vipVars >> /\ pc'[v] = pc[v]
    BY <1>0, <1>3, <1>4, <2>1, GuideQueueStep, OthersKept
  <2> QED BY <1>0, <1>2, <2>2, OtherVip
<1>5. ASSUME NEW w \in VIPs, VipStep(w) PROVE VipPlaced(v)'
  <2>1. CASE w = v
    BY <1>0, <1>5, <2>1, VipKeepsPlace
  <2>2. CASE w # v
    <3>1. w \in Parties /\ w \in Processes
      BY DEF Parties, Processes
    <3>2. /\ \A e \in BOOLEAN : Keeps(v, queue[e], queue'[e])
          /\ SameRecord(v) /\ UNCHANGED track /\ pc'[v] = pc[v]
      BY <1>0, <1>3, <1>5, <2>2, <3>1, VipQueueStep, OthersKept
    <3> QED BY <1>0, <3>2, OtherVip
  <2> QED BY <2>1, <2>2
<1>6. ASSUME NEW m \in Members, MemberStep(m) PROVE VipPlaced(v)'
  <2>1. (\E l : Goto(m, l)) /\ UNCHANGED << track, queue, vipVars >>
    BY <1>6 DEF MemberStep, WakeUp, MemberRead, MemberStepOn, MemberStepOff, MemberReport
  <2> QED BY <1>0, <1>1, <1>2, <1>3, <2>1 DEF Processes
<1>7. ASSUME NEW g \in Guides, NEW d \in BOOLEAN, GuideArrive(g, d) PROVE VipPlaced(v)'
  <2>1. pc'[v] = pc[v] /\ track'[v] = track[v]
    BY <1>0, <1>7 DEF GuideArrive, Group, TypeOK
  <2>2. UNCHANGED << queue, vipVars >>
    BY <1>7 DEF GuideArrive, SendGroupToQueue
  <2> QED BY <1>1, <1>2, <2>1, <2>2
<1>8. ASSUME NEW w \in VIPs, NEW d \in BOOLEAN, VipArrive(w, d) PROVE VipPlaced(v)'
  <2>1. w \in Parties /\ w \in Processes
    BY DEF Parties, Processes
  <2>2. CASE w # v
    <3>1. track'[v] = track[v] /\ UNCHANGED queue /\ SameRecord(v)
      BY <1>8, <2>2 DEF VipArrive, TypeOK, SameRecord
    <3>2. pc'[v] = pc[v]
      BY <1>3, <1>8, <2>1, <2>2 DEF VipArrive
    <3> QED BY <1>1, <3>1, <3>2
  <2>3. CASE w = v
    <3>1. /\ pc[v] = "elsewhere" /\ pc'[v] = "arrived" /\ track'[v] = d /\ UNCHANGED queue
          /\ letters'[v] = 0 /\ v \notin marked' /\ v \notin kill_requested' /\ vstatus'[v] = "AT_BRIDGE"
      BY <1>0, <1>8, <2>3, PlaceOf DEF VipArrive, TypeOK
    <3>2. \A e \in BOOLEAN : v \notin Entries(queue'[e])
      BY <1>0, <3>1 DEF VipPlaced, Gone
    <3>3. Once(v, queue'[d])
      BY <3>2 DEF Once, Entries
    <3> QED BY <3>1, <3>2, <3>3 DEF VipPlaced, Undisturbed
  <2> QED BY <2>2, <2>3
<1>9. ASSUME NEW g \in Guides, GuideTold(g) PROVE VipPlaced(v)'
  <2>1. UNCHANGED << track, queue, vipVars >>
    BY <1>9 DEF GuideTold
  <2>2. pc'[v] = pc[v]
    BY <1>0, <1>3, <1>9 DEF GuideTold, Processes, Parties
  <2> QED BY <1>1, <1>2, <2>1, <2>2
<1>10. ASSUME NEW w \in VIPs, Dismiss(w) \/ Kill(w) PROVE VipPlaced(v)'
  <2>1. UNCHANGED << pc, track, queue >>
    BY <1>10 DEF Dismiss, Kill
  <2>2. CASE w # v
    <3>1. SameRecord(v)
      BY <1>10, <2>2 DEF Dismiss, Kill, TypeOK, SameRecord
    <3> QED BY <1>1, <2>1, <3>1
  <2>3. CASE w = v
    <3>1. ~Undisturbed(v)
      BY <1>10, <2>3 DEF Dismiss, Kill, Undisturbed
    <3> QED BY <1>0, <2>1, <3>1 DEF VipPlaced
  <2> QED BY <2>2, <2>3
<1>11. CASE \/ Nightfall \/ Daybreak \/ UNCHANGED vars
            \/ \E w \in VIPs : VipTold(w)
  <2>1. UNCHANGED << pc, track, queue, vipVars >>
    BY <1>11 DEF Nightfall, Daybreak, VipTold, vars
  <2> QED BY <1>1, <1>2, <2>1
<1> QED BY <1>4, <1>5, <1>6, <1>7, <1>8, <1>9, <1>10, <1>11 DEF Next, Arrivals, Environment

(* By day and by night, however often and at whatever moment a VIP is told *)
(* to leave, dismissed or killed, for any parties and any capacity: a VIP  *)
(* that has gone is in no queue, so check_if_first_secure never waits for  *)
(* a process that has ended.                                               *)
THEOREM BridgeHasNoGhostVip == Spec => []NoGhostVip
<1>1. Init => VipsPlaced
  <2> SUFFICES ASSUME Init, NEW v \in VIPs PROVE VipPlaced(v)
    BY DEF VipsPlaced
  <2>1. pc[v] = "elsewhere" /\ track[v] = TRUE
    BY BridgeConstants DEF Init, Processes, Parties
  <2>2. \A e \in BOOLEAN : queue[e] = << >>
    BY DEF Init
  <2>3. v \notin Entries(<< >>) /\ Once(v, << >>)
    BY EmptyEntries DEF Once
  <2> QED BY <2>1, <2>2, <2>3 DEF VipPlaced
<1>2. TypeOK /\ VipsPlaced /\ [Next]_vars => VipsPlaced'
  BY NextVips
<1>3. TypeOK /\ VipsPlaced => NoGhostVip
  <2> SUFFICES ASSUME TypeOK, VipsPlaced, NEW v \in VIPs, NEW d \in BOOLEAN, pc[v] = "elsewhere"
               PROVE  v \notin Entries(queue[d])
    BY DEF NoGhostVip, Entries
  <2>1. VipPlaced(v) /\ track[v] \in BOOLEAN
    BY DEF VipsPlaced, TypeOK, Parties
  <2> QED BY <2>1 DEF VipPlaced, Gone
<1> QED BY <1>1, <1>2, <1>3, BridgeTypes, PTL DEF Spec

=============================================================================
