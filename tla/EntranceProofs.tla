--------------------------- MODULE EntranceProofs ---------------------------
(***************************************************************************)
(* What holds of the way in and out for any visitors and families, any     *)
(* number of guides, any limits and any size of the message queue: the     *)
(* types, the room in the registry, and that every visitor with a ticket   *)
(* is in the hands of exactly one process.                                 *)
(***************************************************************************)
EXTENDS Entrance, FiniteSetTheorems, SequenceTheorems, TLAPS

----------------------------------------------------------------------------
(* Types *)

LEMMA QueueTypes ==
    \A S : \A q \in Seq(S) :
        /\ \A x \in S : Append(q, x) \in Seq(S)
        /\ q # << >> => Head(q) \in S /\ Tail(q) \in Seq(S)
OBVIOUS

LEMMA BecomeTypes ==
    ASSUME TypeOK, NEW v \in Visitors, NEW s \in VisitorStates, Become(v, s)
    PROVE  visitor' \in [Visitors -> VisitorStates]
BY DEF TypeOK, Become

LEMMA GuideGotoTypes ==
    ASSUME TypeOK, NEW g \in Guides, NEW l \in GuideStates, GuideGoto(g, l)
    PROVE  guide' \in [Guides -> GuideStates]
BY DEF TypeOK, GuideGoto

LEMMA InitTypes == Init => TypeOK
<1> SUFFICES ASSUME Init PROVE TypeOK
  OBVIOUS
<1>1. << >> \in Seq(Visitors) /\ << >> \in Seq(Registry)
  OBVIOUS
<1>2. fifo \in [BOOLEAN -> Seq(Visitors)] /\ group \in [Guides -> Seq(Registry)]
  BY <1>1 DEF Init
<1>3. visitor \in [Visitors -> VisitorStates] /\ guide \in [Guides -> GuideStates]
  BY DEF Init, VisitorStates, GuideStates
<1>4. visitors_data \in [Registry -> SUBSET Visitors] /\ held \in [Guides -> SUBSET Visitors]
  BY DEF Init
<1>5. visitor_sem \in Nat /\ visitors_today \in Nat /\ phase \in 0 .. LastPhase
  BY EntranceConstants DEF Init
<1>6. in_group \in [Guides -> Nat] /\ sent \in [Guides -> Nat]
  BY DEF Init
<1>7. night \in BOOLEAN /\ setup_today \in BOOLEAN /\ cashier_wake \in BOOLEAN
  BY DEF Init
<1>8. /\ cashier \in CashierStates /\ current \in SUBSET Visitors
      /\ tickets \in Seq(Visitors) /\ letters \in Seq(Visitors) /\ leave_park \subseteq Guides
  BY <1>1 DEF Init, CashierStates
<1> QED BY <1>2, <1>3, <1>4, <1>5, <1>6, <1>7, <1>8 DEF TypeOK

(* The steps of visitors. *)
LEMMA VisitorTypes ==
    ASSUME TypeOK, NEW v \in Visitors, Spawn(v) \/ VisitorStep(v)
    PROVE  TypeOK'
<1> USE DEF streetVars, deskVars, mailVars, guideVars
<1>0. /\ "spawned" \in VisitorStates /\ "zombie" \in VisitorStates /\ "gone" \in VisitorStates
      /\ "registered" \in VisitorStates /\ "queueing" \in VisitorStates /\ "lettered" \in VisitorStates
  BY DEF VisitorStates
<1>1. CASE Spawn(v)
  <2>1. visitor' \in [Visitors -> VisitorStates]
    BY <1>0, <1>1, BecomeTypes DEF Spawn
  <2>2. visitor_sem' \in Nat
    BY <1>1 DEF Spawn, TypeOK
  <2> QED BY <1>1, <2>1, <2>2 DEF Spawn, TypeOK
<1>2. CASE Register(v)
  <2>1. visitor' \in [Visitors -> VisitorStates]
    BY <1>0, <1>2, BecomeTypes DEF Register
  <2>2. visitors_data' \in [Registry -> SUBSET Visitors]
    <3>1. CASE UNCHANGED visitors_data
      BY <3>1 DEF TypeOK
    <3>2. ASSUME NEW i \in Registry, visitors_data' = [visitors_data EXCEPT ![i] = {v}]
          PROVE  visitors_data' \in [Registry -> SUBSET Visitors]
      BY <3>2 DEF TypeOK
    <3> QED BY <1>2, <3>1, <3>2 DEF Register
  <2> QED BY <1>2, <2>1, <2>2 DEF Register, TypeOK
<1>3. CASE Queue(v)
  <2>1. visitor' \in [Visitors -> VisitorStates]
    BY <1>0, <1>3, BecomeTypes DEF Queue
  <2>2. fifo' \in [BOOLEAN -> Seq(Visitors)]
    <3> DEFINE b == v \in VIPs
    <3>1. b \in BOOLEAN
      OBVIOUS
    <3>2. fifo' = [fifo EXCEPT ![b] = Append(@, v)]
      BY <1>3 DEF Queue
    <3> HIDE DEF b
    <3>3. Append(fifo[b], v) \in Seq(Visitors)
      BY <3>1 DEF TypeOK
    <3> QED BY <3>1, <3>2, <3>3 DEF TypeOK
  <2> QED BY <1>3, <2>1, <2>2 DEF Queue, TypeOK
<1>4. CASE VipLeave(v)
  <2>1. visitor' \in [Visitors -> VisitorStates]
    BY <1>0, <1>4, BecomeTypes DEF VipLeave
  <2>2. letters' \in Seq(Visitors)
    BY <1>4, QueueTypes DEF VipLeave, TypeOK
  <2> QED BY <1>4, <2>1, <2>2 DEF VipLeave, TypeOK
<1>5. CASE Exit(v)
  <2>1. visitor' \in [Visitors -> VisitorStates]
    BY <1>0, <1>5, BecomeTypes DEF Exit
  <2> QED BY <1>5, <2>1 DEF Exit, TypeOK
<1>6. CASE Reap(v)
  <2>1. visitor' \in [Visitors -> VisitorStates]
    BY <1>0, <1>6, BecomeTypes DEF Reap
  <2>2. visitor_sem' \in Nat
    BY <1>6 DEF Reap, TypeOK
  <2> QED BY <1>6, <2>1, <2>2 DEF Reap, TypeOK
<1> QED BY <1>1, <1>2, <1>3, <1>4, <1>5, <1>6 DEF VisitorStep

LEMMA CashierTypes ==
    ASSUME TypeOK, CashierStep \/ LeavingThread
    PROVE  TypeOK'
<1> USE DEF streetVars, deskVars, mailVars, guideVars
<1>0. "leaving" \in VisitorStates /\ "touring" \in VisitorStates /\ "admitted" \in VisitorStates
  BY DEF VisitorStates
<1>1. CASE Open \/ HungUp \/ CheckSlots \/ CashierWake
  BY <1>1 DEF Open, HungUp, CheckSlots, CashierWake, TypeOK, CashierStates
<1>2. CASE Top
  <2>1. cashier' \in CashierStates
    BY <1>2, Zenon DEF Top, TypeOK, CashierStates
  <2>2. night' \in BOOLEAN /\ setup_today' \in BOOLEAN
    BY <1>2, Zenon DEF Top, TypeOK
  <2>3. visitors_today' \in Nat
    BY <1>2, 0 \in Nat, Zenon DEF Top, TypeOK
  <2>4. leave_park' \subseteq Guides
    BY <1>2, Zenon DEF Top, TypeOK
  <2>5. UNCHANGED << visitor, streetVars, current, mailVars, guide, group, sent, in_group, held, phase >>
    BY <1>2, Zenon DEF Top
  <2> QED BY <2>1, <2>2, <2>3, <2>4, <2>5 DEF TypeOK
<1>3. CASE Flush
  <2>1. CASE tickets # << >> /\ tickets' = Tail(tickets) /\ Become(Head(tickets), "leaving")
             /\ UNCHANGED << cashier, setup_today >>
    <3>1. Head(tickets) \in Visitors /\ tickets' \in Seq(Visitors)
      BY <2>1, QueueTypes DEF TypeOK
    <3>2. visitor' \in [Visitors -> VisitorStates]
      BY <1>0, <2>1, <3>1, BecomeTypes
    <3> QED BY <1>3, <2>1, <3>1, <3>2 DEF Flush, TypeOK
  <2>2. CASE setup_today' = FALSE /\ cashier' = "polling" /\ UNCHANGED << visitor, tickets >>
    BY <1>3, <2>2 DEF Flush, TypeOK, CashierStates
  <2> QED BY <1>3, <2>1, <2>2 DEF Flush
<1>4. CASE Call
  <2>1. PICK b \in BOOLEAN :
          /\ fifo[b] # << >>
          /\ fifo' = [fifo EXCEPT ![b] = Tail(@)]
          /\ \/ Become(Head(fifo[b]), "leaving") /\ cashier' = "top" /\ UNCHANGED current
             \/ current' = {Head(fifo[b])} /\ cashier' = "selling" /\ UNCHANGED visitor
    BY <1>4 DEF Call
  <2>2. Head(fifo[b]) \in Visitors /\ Tail(fifo[b]) \in Seq(Visitors)
    BY <2>1, QueueTypes DEF TypeOK
  <2>3. fifo' \in [BOOLEAN -> Seq(Visitors)]
    BY <2>1, <2>2 DEF TypeOK
  <2>4. visitor' \in [Visitors -> VisitorStates]
    BY <1>0, <2>1, <2>2, BecomeTypes DEF TypeOK
  <2>5. current' \in SUBSET Visitors /\ cashier' \in CashierStates
    BY <2>1, <2>2 DEF TypeOK, CashierStates
  <2> QED BY <1>4, <2>3, <2>4, <2>5 DEF Call, TypeOK
<1>5. CASE Sell
  <2>1. PICK v \in current :
          \/ Become(v, "touring") /\ cashier' = "top" /\ current' = {}
          \/ Become(v, "admitted") /\ cashier' = "checking" /\ UNCHANGED current
    BY <1>5 DEF Sell
  <2>2. visitor' \in [Visitors -> VisitorStates]
    BY <1>0, <2>1, BecomeTypes DEF TypeOK
  <2>3. current' \in SUBSET Visitors /\ cashier' \in CashierStates /\ visitors_today' \in Nat
    BY <1>5, <2>1 DEF Sell, TypeOK, CashierStates
  <2> QED BY <1>5, <2>2, <2>3 DEF Sell, TypeOK
<1>6. CASE SendTicket
  <2>1. tickets' \in Seq(Visitors)
    BY <1>6, QueueTypes DEF SendTicket, TypeOK
  <2> QED BY <1>6, <2>1 DEF SendTicket, TypeOK, CashierStates
<1>7. CASE LeavingThread
  <2>1. Head(letters) \in Visitors /\ letters' \in Seq(Visitors)
    BY <1>7, QueueTypes DEF LeavingThread, TypeOK
  <2>2. visitor' \in [Visitors -> VisitorStates]
    BY <1>0, <1>7, <2>1, BecomeTypes DEF LeavingThread
  <2> QED BY <1>7, <2>1, <2>2 DEF LeavingThread, TypeOK
<1> QED BY <1>1, <1>2, <1>3, <1>4, <1>5, <1>6, <1>7 DEF CashierStep

LEMMA GuideTypes ==
    ASSUME TypeOK, NEW g \in Guides, GuideStep(g) \/ Command(g)
    PROVE  TypeOK'
<1> USE DEF streetVars, deskVars, mailVars, guideVars
<1>0. /\ "following" \in VisitorStates /\ "lettered" \in VisitorStates
      /\ \A l \in {"gathering", "asleep", "checking", "holding", "touring", "at cash"} : l \in GuideStates
  BY DEF VisitorStates, GuideStates
<1>1. CASE Take(g)
  <2>1. Head(tickets) \in Visitors /\ tickets' \in Seq(Visitors)
    BY <1>1, QueueTypes DEF Take, TypeOK
  <2>2. CASE /\ \E i \in Registry : group' = [group EXCEPT ![g] = Append(@, i)]
             /\ in_group' = [in_group EXCEPT ![g] = @ + Kids[Head(tickets)] + 1]
             /\ Become(Head(tickets), "following") /\ GuideGoto(g, "checking")
             /\ UNCHANGED held
    <3>1. visitor' \in [Visitors -> VisitorStates] /\ guide' \in [Guides -> GuideStates]
      BY <1>0, <2>1, <2>2, BecomeTypes, GuideGotoTypes
    <3>2. group' \in [Guides -> Seq(Registry)]
      BY <2>2, QueueTypes DEF TypeOK
    <3>3. in_group' \in [Guides -> Nat]
      <4>1. Kids[Head(tickets)] \in Nat
        BY <2>1, EntranceConstants
      <4>2. in_group \in [Guides -> Nat]
        BY DEF TypeOK
      <4>3. in_group[g] + Kids[Head(tickets)] + 1 \in Nat
        BY <4>1, <4>2
      <4> QED BY <2>2, <4>2, <4>3
    <3> QED BY <1>1, <2>1, <2>2, <3>1, <3>2, <3>3 DEF Take, TypeOK
  <2>3. CASE /\ held' = [held EXCEPT ![g] = {Head(tickets)}] /\ GuideGoto(g, "holding")
             /\ UNCHANGED << visitor, group, in_group >>
    <3>1. guide' \in [Guides -> GuideStates]
      BY <1>0, <2>3, GuideGotoTypes
    <3>2. held' \in [Guides -> SUBSET Visitors]
      BY <2>1, <2>3 DEF TypeOK
    <3> QED BY <1>1, <2>1, <2>3, <3>1, <3>2 DEF Take, TypeOK
  <2> QED BY <1>1, <2>2, <2>3 DEF Take
<1>2. CASE PutBack(g)
  <2>1. guide' \in [Guides -> GuideStates]
    BY <1>0, <1>2, GuideGotoTypes DEF PutBack
  <2>2. held' \in [Guides -> SUBSET Visitors]
    BY <1>2 DEF PutBack, TypeOK
  <2>3. tickets' \in Seq(Visitors)
    BY <1>2, QueueTypes DEF PutBack, TypeOK
  <2> QED BY <1>2, <2>1, <2>2, <2>3 DEF PutBack, TypeOK
<1>3. CASE FindNobody(g) \/ Rise(g) \/ GoOn(g) \/ Depart(g) \/ TourEnd(g)
  <2>1. guide' \in [Guides -> GuideStates]
    BY <1>0, <1>3, GuideGotoTypes DEF FindNobody, Rise, GoOn, Depart, TourEnd
  <2> QED BY <1>3, <2>1 DEF FindNobody, Rise, GoOn, Depart, TourEnd, TypeOK
<1>4. CASE Letter(g)
  <2>1. group[g] \in Seq(Registry) /\ sent[g] \in Nat /\ sent[g] < Len(group[g])
    BY <1>4 DEF Letter, TypeOK
  <2>2. group[g][sent[g] + 1] \in Registry
    BY <2>1
  <2>3. PICK v \in visitors_data[group[g][sent[g] + 1]] :
          letters' = Append(letters, v) /\ Become(v, "lettered")
    BY <1>4 DEF Letter
  <2>4. v \in Visitors
    BY <2>2, <2>3 DEF TypeOK
  <2>5. visitor' \in [Visitors -> VisitorStates] /\ letters' \in Seq(Visitors)
    BY <1>0, <2>3, <2>4, BecomeTypes, QueueTypes DEF TypeOK
  <2>6. sent' \in [Guides -> Nat]
    <3>1. sent \in [Guides -> Nat] /\ sent' = [sent EXCEPT ![g] = @ + 1]
      BY <1>4, Zenon DEF Letter, TypeOK
    <3> QED BY <3>1
  <2> QED BY <1>4, <2>5, <2>6 DEF Letter, TypeOK
<1>5. CASE Finish(g)
  <2>1. guide' \in [Guides -> GuideStates]
    BY <1>0, <1>5, GuideGotoTypes DEF Finish
  <2>2. in_group' \in [Guides -> Nat] /\ sent' \in [Guides -> Nat]
    BY <1>5 DEF Finish, TypeOK
  <2>3. << >> \in Seq(Registry)
    OBVIOUS
  <2>4. group' \in [Guides -> Seq(Registry)]
    BY <1>5, <2>3 DEF Finish, TypeOK
  <2> QED BY <1>5, <2>1, <2>2, <2>4 DEF Finish, TypeOK
<1>6. CASE Command(g)
  BY <1>6 DEF Command, TypeOK
<1> QED BY <1>1, <1>2, <1>3, <1>4, <1>5, <1>6 DEF GuideStep

LEMMA NextTypes == TypeOK /\ [Next]_vars => TypeOK'
<1> SUFFICES ASSUME TypeOK, [Next]_vars PROVE TypeOK'
  OBVIOUS
<1> USE DEF streetVars, deskVars, mailVars, guideVars
<1>1. CASE Clock
  <2>1. phase' \in 0 .. LastPhase
    <3>1. phase \in 0 .. LastPhase /\ LastPhase \in Nat
      BY EntranceConstants DEF TypeOK
    <3> QED BY <1>1, <3>1 DEF Clock
  <2> QED BY <1>1, <2>1 DEF Clock, TypeOK
<1>2. CASE CashierStep \/ LeavingThread
  BY <1>2, CashierTypes
<1>3. ASSUME NEW v \in Visitors, Spawn(v) \/ VisitorStep(v) PROVE TypeOK'
  BY <1>3, VisitorTypes
<1>4. ASSUME NEW g \in Guides, GuideStep(g) \/ Command(g) PROVE TypeOK'
  BY <1>4, GuideTypes
<1>5. CASE UNCHANGED vars
  BY <1>5 DEF TypeOK, vars
<1> QED BY <1>1, <1>2, <1>3, <1>4, <1>5 DEF Next

(* Every visitor, the desk, the queues and the guides stay what they are   *)
(* meant to be; visitor_sem never falls below zero.                        *)
THEOREM EntranceTypes == Spec => []TypeOK
<1> QED BY InitTypes, NextTypes, PTL DEF Spec
----------------------------------------------------------------------------
(* The letters of a guide *)

(* A guide sends no more letters than it has pointers, and only at the cash. *)
SentKept ==
    \A g \in Guides : sent[g] <= Len(group[g]) /\ (guide[g] # "at cash" => sent[g] = 0)

LEMMA InitSent == Init => SentKept
<1>1. Len(<< >>) = 0
  OBVIOUS
<1> QED BY <1>1 DEF Init, SentKept

LEMMA SentSame ==
    ASSUME SentKept, UNCHANGED << group, sent >>,
           \A g \in Guides : guide[g] = "at cash" => guide'[g] = "at cash"
    PROVE  SentKept'
BY DEF SentKept

LEMMA GuideSent ==
    ASSUME TypeOK, SentKept, NEW g \in Guides, GuideStep(g) \/ Command(g)
    PROVE  SentKept'
<1> USE DEF streetVars, deskVars, mailVars, guideVars
<1>1. CASE Take(g)
  <2>1. guide[g] = "gathering" /\ sent' = sent /\ guide[g] # "at cash"
    BY <1>1 DEF Take
  <2>2. \A h \in Guides : h # g => guide'[h] = guide[h]
    BY <1>1 DEF Take, GuideGoto, TypeOK
  <2>3. \A h \in Guides : h # g => group'[h] = group[h]
    BY <1>1 DEF Take, TypeOK
  <2>4. sent[g] = 0
    BY <2>1 DEF SentKept
  <2>5. group'[g] \in Seq(Registry)
    BY <1>1, GuideTypes DEF GuideStep, TypeOK
  <2>6. sent'[g] <= Len(group'[g]) /\ sent'[g] = 0
    BY <2>1, <2>4, <2>5
  <2> QED BY <2>1, <2>2, <2>3, <2>6 DEF SentKept
<1>2. CASE PutBack(g) \/ FindNobody(g) \/ Rise(g) \/ GoOn(g) \/ Depart(g) \/ TourEnd(g) \/ Command(g)
  <2>1. UNCHANGED << group, sent >>
    BY <1>2, Zenon DEF PutBack, FindNobody, Rise, GoOn, Depart, TourEnd, Command
  <2>2. \A h \in Guides : guide[h] = "at cash" => guide'[h] = "at cash"
    BY <1>2 DEF PutBack, FindNobody, Rise, GoOn, Depart, TourEnd, Command, GuideGoto, TypeOK
  <2> QED BY <2>1, <2>2, SentSame
<1>3. CASE Letter(g)
  <2>1. guide[g] = "at cash" /\ UNCHANGED << guide, group >> /\ sent[g] < Len(group[g])
    BY <1>3 DEF Letter
  <2>2. sent'[g] = sent[g] + 1 /\ \A h \in Guides : h # g => sent'[h] = sent[h]
    BY <1>3 DEF Letter, TypeOK
  <2>3. sent[g] \in Nat /\ group[g] \in Seq(Registry)
    BY DEF TypeOK
  <2>4. sent[g] + 1 <= Len(group[g])
    <3>1. sent[g] < Len(group[g])
      BY <2>1
    <3> QED BY <2>3, <3>1
  <2>5. ASSUME NEW h \in Guides
        PROVE  sent'[h] <= Len(group'[h]) /\ (guide'[h] # "at cash" => sent'[h] = 0)
    <3>1. CASE h = g
      BY <2>1, <2>2, <2>4, <3>1
    <3>2. CASE h # g
      BY <2>1, <2>2, <3>2 DEF SentKept
    <3> QED BY <3>1, <3>2
  <2> QED BY <2>5 DEF SentKept
<1>4. CASE Finish(g)
  <2>1. sent'[g] = 0 /\ \A h \in Guides : h # g => sent'[h] = sent[h] /\ group'[h] = group[h]
    BY <1>4 DEF Finish, TypeOK
  <2>2. \A h \in Guides : h # g => guide'[h] = guide[h]
    BY <1>4 DEF Finish, GuideGoto, TypeOK
  <2>3. group'[g] \in Seq(Registry)
    BY <1>4, GuideTypes DEF GuideStep, TypeOK
  <2>4. sent'[g] <= Len(group'[g])
    BY <2>1, <2>3
  <2> QED BY <2>1, <2>2, <2>4 DEF SentKept
<1> QED BY <1>1, <1>2, <1>3, <1>4 DEF GuideStep

LEMMA NextSent == TypeOK /\ SentKept /\ [Next]_vars => SentKept'
<1> SUFFICES ASSUME TypeOK, SentKept, [Next]_vars PROVE SentKept'
  OBVIOUS
<1>1. CASE UNCHANGED << guide, group, sent >>
  BY <1>1, SentSame
<1>2. ASSUME NEW g \in Guides, GuideStep(g) \/ Command(g) PROVE SentKept'
  BY <1>2, GuideSent
<1>3. CASE CashierStep \/ LeavingThread \/ Clock \/ UNCHANGED vars
  <2>1. UNCHANGED << guide, group, sent >>
    BY <1>3, Zenon DEF CashierStep, Open, Top, Flush, HungUp, Call, Sell, CheckSlots, CashierWake,
         SendTicket, LeavingThread, Clock, vars, guideVars
  <2> QED BY <1>1, <2>1
<1>4. ASSUME NEW v \in Visitors, Spawn(v) \/ VisitorStep(v) PROVE SentKept'
  <2>1. UNCHANGED << guide, group, sent >>
    BY <1>4, Zenon DEF Spawn, VisitorStep, Register, Queue, VipLeave, Exit, Reap, guideVars
  <2> QED BY <1>1, <2>1
<1> QED BY <1>2, <1>3, <1>4 DEF Next

----------------------------------------------------------------------------
(* Where everybody is *)

Elems(q) == {q[i] : i \in DOMAIN q}
Distinct(q) == \A i, j \in DOMAIN q : q[i] = q[j] => i = j

LEMMA AppendElems ==
    ASSUME NEW S, NEW q \in Seq(S), NEW x \in S
    PROVE  /\ Elems(Append(q, x)) = Elems(q) \union {x}
           /\ Distinct(q) /\ x \notin Elems(q) => Distinct(Append(q, x))
<1> DEFINE n == Len(q)
           r == Append(q, x)
<1>1. n \in Nat /\ DOMAIN q = 1 .. n /\ DOMAIN r = 1 .. n + 1
  OBVIOUS
<1>2. r[n + 1] = x /\ \A i \in 1 .. n : r[i] = q[i]
  OBVIOUS
<1> HIDE DEF n, r
<1>3. Elems(r) = Elems(q) \union {x}
  <2>1. \A i \in DOMAIN r : i \in DOMAIN q \/ i = n + 1
    BY <1>1
  <2>2. \A i \in DOMAIN q : i \in DOMAIN r
    BY <1>1
  <2>3. n + 1 \in DOMAIN r
    BY <1>1
  <2> QED BY <1>1, <1>2, <2>1, <2>2, <2>3 DEF Elems
<1>4. ASSUME Distinct(q), x \notin Elems(q), NEW i \in DOMAIN r, NEW j \in DOMAIN r, r[i] = r[j]
      PROVE  i = j
  <2>1. (i \in 1 .. n \/ i = n + 1) /\ (j \in 1 .. n \/ j = n + 1)
    BY <1>1
  <2>2. \A k \in 1 .. n : r[k] # x
    BY <1>1, <1>2, <1>4 DEF Elems
  <2> QED BY <1>1, <1>2, <1>4, <2>1, <2>2 DEF Distinct
<1> QED BY <1>3, <1>4 DEF r, Distinct

LEMMA TailElems ==
    ASSUME NEW S, NEW q \in Seq(S), q # << >>, Distinct(q)
    PROVE  /\ Elems(Tail(q)) = Elems(q) \ {Head(q)} /\ Distinct(Tail(q))
           /\ Head(q) \in Elems(q) /\ Elems(q) \subseteq S
<1> DEFINE n == Len(q)
           r == Tail(q)
<1>1. n \in Nat /\ n >= 1 /\ DOMAIN q = 1 .. n /\ DOMAIN r = 1 .. n - 1
  OBVIOUS
<1>2. q[1] = Head(q) /\ \A i \in 1 .. n - 1 : r[i] = q[i + 1]
  OBVIOUS
<1>2a. \A i \in 1 .. n : q[i] \in S
  OBVIOUS
<1> HIDE DEF n, r
<1>3. \A i \in 1 .. n - 1 : i + 1 \in 1 .. n /\ q[i + 1] # q[1]
  <2> TAKE i \in 1 .. n - 1
  <2>1. i + 1 \in 1 .. n /\ i + 1 # 1 /\ 1 \in 1 .. n
    BY <1>1
  <2> QED BY <1>1, <2>1 DEF Distinct
<1>4. \A j \in 1 .. n : q[j] # q[1] => j - 1 \in 1 .. n - 1 /\ r[j - 1] = q[j]
  <2> TAKE j \in 1 .. n
  <2> HAVE q[j] # q[1]
  <2>1. j # 1
    OBVIOUS
  <2>2. j - 1 \in 1 .. n - 1 /\ (j - 1) + 1 = j
    BY <1>1, <2>1
  <2> QED BY <1>2, <2>2
<1>5. Elems(r) = Elems(q) \ {q[1]}
  BY <1>1, <1>2, <1>3, <1>4 DEF Elems
<1>6. Distinct(r)
  <2> SUFFICES ASSUME NEW i \in 1 .. n - 1, NEW j \in 1 .. n - 1, r[i] = r[j]
               PROVE  i = j
    BY <1>1 DEF Distinct
  <2>1. i + 1 \in 1 .. n /\ j + 1 \in 1 .. n /\ q[i + 1] = q[j + 1]
    BY <1>2, <1>3
  <2>2. i + 1 = j + 1
    BY <1>1, <2>1 DEF Distinct
  <2> QED BY <1>1, <2>2
<1>7. q[1] \in Elems(q) /\ Elems(q) \subseteq S
  BY <1>1, <1>2a DEF Elems
<1> QED BY <1>2, <1>5, <1>6, <1>7 DEF r

LEMMA ElemsType ==
    ASSUME NEW S, NEW q \in Seq(S)
    PROVE  Elems(q) \subseteq S
BY DEF Elems

(* What is left of a sequence behind its first n elements. *)
LEMMA RestOfAppend ==
    ASSUME NEW S, NEW q \in Seq(S), NEW x \in S, NEW n \in Nat, n <= Len(q)
    PROVE  SubSeq(Append(q, x), n + 1, Len(q) + 1) = Append(SubSeq(q, n + 1, Len(q)), x)
<1> DEFINE m == Len(q)
           a == Append(q, x)
           r == SubSeq(q, n + 1, m)
           t == SubSeq(a, n + 1, m + 1)
<1>1. /\ m \in Nat /\ a \in Seq(S) /\ Len(a) = m + 1
      /\ a[m + 1] = x /\ \A i \in 1 .. m : a[i] = q[i] /\ q[i] \in S
  OBVIOUS
<1> HIDE DEF a, m
<1>2. /\ r \in Seq(S) /\ Len(r) = m - n /\ \A i \in 1 .. m - n : r[i] = q[n + i]
  <2>1. \A i \in n + 1 .. m : q[i] \in S
    BY <1>1
  <2>2. /\ r \in Seq(S) /\ Len(r) = IF n + 1 <= m THEN m - (n + 1) + 1 ELSE 0
        /\ \A i \in 1 .. m - (n + 1) + 1 : r[i] = q[n + 1 + i - 1]
    BY <1>1, <2>1, SubSeqProperties
  <2>3. n <= m
    BY DEF m
  <2> QED BY <1>1, <2>2, <2>3
<1>3. /\ t \in Seq(S) /\ Len(t) = m + 1 - n /\ \A i \in 1 .. m + 1 - n : t[i] = a[n + i]
  <2>1. \A i \in n + 1 .. m + 1 : a[i] \in S
    BY <1>1
  <2>2. /\ t \in Seq(S) /\ Len(t) = IF n + 1 <= m + 1 THEN m + 1 - (n + 1) + 1 ELSE 0
        /\ \A i \in 1 .. m + 1 - (n + 1) + 1 : t[i] = a[n + 1 + i - 1]
    BY <1>1, <2>1, SubSeqProperties
  <2>3. /\ n + 1 <= m + 1 /\ m + 1 - (n + 1) + 1 = m + 1 - n
        /\ \A i \in 1 .. m + 1 - n : n + 1 + i - 1 = n + i
    <3>1. n <= m
      BY DEF m
    <3> QED BY <1>1, <3>1
  <2> HIDE DEF t
  <2> QED BY <2>2, <2>3
<1>4. n <= m
  BY DEF m
<1> HIDE DEF r, t
<1>5. t = Append(r, x)
  <2>1. /\ Append(r, x) \in Seq(S) /\ Len(Append(r, x)) = m - n + 1
        /\ Append(r, x)[m - n + 1] = x /\ \A i \in 1 .. m - n : Append(r, x)[i] = r[i]
    BY <1>2
  <2>2. \A i \in 1 .. m - n : i \in 1 .. m + 1 - n /\ n + i \in 1 .. m
    BY <1>1, <1>4
  <2>3. \A i \in 1 .. m - n : t[i] = Append(r, x)[i]
    BY <1>1, <1>2, <1>3, <2>1, <2>2
  <2>4. t[m - n + 1] = x
    <3>1. m - n + 1 \in 1 .. m + 1 - n /\ n + (m - n + 1) = m + 1
      BY <1>1, <1>4
    <3> QED BY <1>1, <1>3, <3>1
  <2>5. \A i \in 1 .. Len(t) : t[i] = Append(r, x)[i]
    <3>1. \A i \in 1 .. m + 1 - n : i \in 1 .. m - n \/ i = m - n + 1
      BY <1>1, <1>4
    <3> QED BY <1>3, <2>1, <2>3, <2>4, <3>1
  <2>6. Len(t) = Len(Append(r, x))
    BY <1>1, <1>3, <2>1
  <2> QED BY <1>3, <2>1, <2>5, <2>6, SeqEqual
<1> QED BY <1>5 DEF a, m, r, t

LEMMA RestOfRest ==
    ASSUME NEW S, NEW q \in Seq(S), NEW n \in Nat, n < Len(q)
    PROVE  /\ SubSeq(q, n + 1, Len(q)) # << >>
           /\ Head(SubSeq(q, n + 1, Len(q))) = q[n + 1]
           /\ Tail(SubSeq(q, n + 1, Len(q))) = SubSeq(q, n + 2, Len(q))
<1>1. n + 1 \in 1 .. Len(q) /\ Len(q) \in n + 1 .. Len(q) /\ n + 1 + 1 = n + 2
  OBVIOUS
<1>2. /\ Head(SubSeq(q, n + 1, Len(q))) = q[n + 1]
      /\ Tail(SubSeq(q, n + 1, Len(q))) = SubSeq(q, n + 2, Len(q))
  BY <1>1, HeadTailOfSubSeq
<1>3. SubSeq(q, n + 1, Len(q)) # << >>
  <2>1. \A i \in n + 1 .. Len(q) : q[i] \in S
    OBVIOUS
  <2>2. Len(SubSeq(q, n + 1, Len(q))) = IF n + 1 <= Len(q) THEN Len(q) - (n + 1) + 1 ELSE 0
    BY <1>1, <2>1, SubSeqProperties
  <2>3. Len(q) - (n + 1) + 1 # 0 /\ n + 1 <= Len(q) /\ Len(<< >>) = 0
    OBVIOUS
  <2> QED BY <2>2, <2>3
<1> QED BY <1>2, <1>3

In(state) == {v \in Visitors : visitor[v] = state}

(* A slot holds at most one visitor and a visitor at most one slot, taken  *)
(* when it registers.                                                      *)
RegistryKept ==
    /\ \A i \in Registry : \A v, w \in visitors_data[i] : v = w
    /\ \A i, j \in Registry : visitors_data[i] \intersect visitors_data[j] # {} => i = j
    /\ \A i \in Registry : \A v \in visitors_data[i] : visitor[v] \notin {"unborn", "spawned"}

(* The semaphore counts the slots that no process was started for. *)
Living == {v \in Visitors : Exists(v)}
SlotsCounted == visitor_sem + Cardinality(Living) = VisitorsLimit

(* The desk: who queues for a ticket, and whom the cashier serves. *)
Serving == {"selling", "checking", "waiting", "sending"}
DeskKept ==
    /\ \A vip \in BOOLEAN : Distinct(fifo[vip]) /\ Elems(fifo[vip]) \subseteq In("queueing")
    /\ \A v \in Elems(fifo[TRUE]) : v \in VIPs
    /\ \A v \in Elems(fifo[FALSE]) : v \notin VIPs
    /\ \A v, w \in current : v = w
    /\ cashier \notin Serving => current = {}
    /\ cashier = "selling" => \A v \in current : /\ visitor[v] = "queueing"
                                                /\ \A vip \in BOOLEAN : v \notin Elems(fifo[vip])

(* Who has a ticket and no guide yet is at the desk, in the queue or held  *)
(* by a guide that has no room for it, and in one of these places only.    *)
AtDesk == IF cashier = "selling" THEN {} ELSE current
Held == UNION {held[g] : g \in Guides}
TicketsKept ==
    /\ Distinct(tickets)
    /\ Elems(tickets) \union Held \union AtDesk = In("admitted")
    /\ Elems(tickets) \intersect Held = {} /\ Elems(tickets) \intersect AtDesk = {}
    /\ Held \intersect AtDesk = {}
    /\ \A g, h \in Guides : held[g] \intersect held[h] # {} => g = h
    /\ \A g \in Guides : /\ \A v, w \in held[g] : v = w
                         /\ held[g] # {} => guide[g] = "holding"

LettersKept == Distinct(letters) /\ Elems(letters) = In("lettered")

(* A guide has a pointer to each member of its group, once, among those    *)
(* whose letter it has yet to send.  Of the others nothing is said: their  *)
(* slots may be anybody's.                                                 *)
ToSend == [g \in Guides |-> SubSeq(group[g], sent[g] + 1, Len(group[g]))]
GroupsKept ==
    /\ \A g \in Guides : Distinct(ToSend[g])
    /\ \A g, h \in Guides : Elems(ToSend[g]) \intersect Elems(ToSend[h]) # {} => g = h
    /\ \A g \in Guides : \A i \in Elems(ToSend[g]) :
           \E v \in In("following") : visitors_data[i] = {v}
    /\ \A v \in In("following") : \E g \in Guides : \E i \in Elems(ToSend[g]) : visitors_data[i] = {v}

Order == RegistryKept /\ SlotsCounted /\ DeskKept /\ TicketsKept /\ LettersKept /\ GroupsKept

----------------------------------------------------------------------------
(* What leaves a part of the order alone *)

LEMMA RegistrySame ==
    ASSUME TypeOK, RegistryKept, visitors_data' = visitors_data,
           \A v \in Visitors : visitor[v] \notin {"unborn", "spawned"} =>
                                  visitor'[v] \notin {"unborn", "spawned"}
    PROVE  RegistryKept'
BY DEF RegistryKept, TypeOK

LEMMA CountSame ==
    ASSUME SlotsCounted, visitor_sem' = visitor_sem,
           \A v \in Visitors : Exists(v)' <=> Exists(v)
    PROVE  SlotsCounted'
<1>1. Living' = Living
  BY DEF Living
<1> QED BY <1>1 DEF SlotsCounted

LEMMA DeskSame ==
    ASSUME TypeOK, DeskKept, UNCHANGED << fifo, current >>,
           \A v \in In("queueing") : visitor'[v] = "queueing",
           cashier' \notin Serving => cashier \notin Serving,
           cashier' = "selling" => cashier = "selling"
    PROVE  DeskKept'
BY DEF DeskKept, In, TypeOK

LEMMA TicketsSame ==
    ASSUME TicketsKept, UNCHANGED << tickets, held >>, AtDesk' = AtDesk,
           \A v \in Visitors : visitor'[v] = "admitted" <=> visitor[v] = "admitted",
           \A g \in Guides : guide[g] = "holding" => guide'[g] = "holding"
    PROVE  TicketsKept'
<1>1. In("admitted")' = In("admitted") /\ Held' = Held
  BY DEF In, Held
<1> QED BY <1>1 DEF TicketsKept

LEMMA LettersSame ==
    ASSUME LettersKept, letters' = letters,
           \A v \in Visitors : visitor'[v] = "lettered" <=> visitor[v] = "lettered"
    PROVE  LettersKept'
<1>1. In("lettered")' = In("lettered")
  BY DEF In
<1> QED BY <1>1 DEF LettersKept

LEMMA GroupsSame ==
    ASSUME GroupsKept, UNCHANGED << visitors_data, group, sent >>,
           \A v \in Visitors : visitor'[v] = "following" <=> visitor[v] = "following"
    PROVE  GroupsKept'
<1>1. In("following")' = In("following")
  BY DEF In
<1>2. ToSend' = ToSend
  BY DEF ToSend
<1> QED BY <1>1, <1>2 DEF GroupsKept

LEMMA Becomes ==
    ASSUME TypeOK, NEW v \in Visitors, NEW s, Become(v, s)
    PROVE  visitor'[v] = s /\ \A w \in Visitors : w # v => visitor'[w] = visitor[w]
BY DEF TypeOK, Become

(* Steps in which no visitor moves and nothing changes hands. *)
LEMMA QuietOrder ==
    ASSUME TypeOK, Order, UNCHANGED << visitor, visitors_data, visitor_sem, fifo, tickets, letters >>,
           UNCHANGED << held, group, sent, current >>,
           cashier' \notin Serving => cashier \notin Serving,
           cashier' = "selling" <=> cashier = "selling",
           \A g \in Guides : guide[g] = "holding" => guide'[g] = "holding"
    PROVE  Order'
<1>1. RegistryKept'
  BY RegistrySame DEF Order
<1>2. SlotsCounted'
  BY CountSame DEF Order, Exists
<1>3. DeskKept'
  BY DeskSame DEF Order, In
<1>4. AtDesk' = AtDesk
  BY DEF AtDesk
<1>5. TicketsKept'
  BY <1>4, TicketsSame DEF Order
<1>6. LettersKept' /\ GroupsKept'
  BY LettersSame, GroupsSame DEF Order
<1> QED BY <1>1, <1>2, <1>3, <1>5, <1>6 DEF Order
----------------------------------------------------------------------------
(* Visitors on their own *)

Apart == {"unborn", "spawned", "registered", "touring", "leaving", "zombie", "gone"}

LEMMA ApartSame ==
    ASSUME TypeOK, Order, NEW v \in Visitors, visitor[v] \in Apart, NEW s \in Apart, Become(v, s),
           UNCHANGED << fifo, tickets, letters, held, current, cashier, guide >>
    PROVE  DeskKept' /\ TicketsKept' /\ LettersKept'
<1>1. visitor'[v] = s /\ \A w \in Visitors : w # v => visitor'[w] = visitor[w]
  BY Becomes
<1>2. \A w \in Visitors, t \in {"queueing", "admitted", "lettered"} : visitor'[w] = t <=> visitor[w] = t
  BY <1>1 DEF Apart
<1>3. AtDesk' = AtDesk
  BY DEF AtDesk
<1>4. DeskKept'
  BY <1>2, DeskSame DEF Order, In
<1>5. TicketsKept'
  BY <1>2, <1>3, TicketsSame DEF Order
<1>6. LettersKept'
  BY <1>2, LettersSame DEF Order
<1> QED BY <1>4, <1>5, <1>6

LEMMA LivingFinite == \A A \in SUBSET Visitors : IsFiniteSet(A) /\ Cardinality(A) \in Nat
<1> TAKE A \in SUBSET Visitors
<1>1. IsFiniteSet(A)
  BY FS_Subset, EntranceConstants
<1> QED BY <1>1, FS_CardinalityType

LEMMA SpawnOrder ==
    ASSUME TypeOK, Order, NEW v \in Visitors, Spawn(v)
    PROVE  Order'
<1> USE DEF streetVars, deskVars, mailVars, guideVars
<1>1. visitor[v] = "unborn" /\ Become(v, "spawned") /\ visitor_sem' = visitor_sem - 1
  BY DEF Spawn
<1>2. visitor'[v] = "spawned" /\ \A w \in Visitors : w # v => visitor'[w] = visitor[w]
  BY <1>1, Becomes
<1>3. DeskKept' /\ TicketsKept' /\ LettersKept'
  BY <1>1, ApartSame DEF Spawn, Apart
<1>4. RegistryKept' /\ GroupsKept'
  BY <1>1, <1>2, RegistrySame, GroupsSame DEF Spawn, Order
<1>5. SlotsCounted'
  <2>1. Living' = Living \union {v} /\ v \notin Living /\ Living \in SUBSET Visitors
    BY <1>1, <1>2 DEF Living, Exists
  <2>2. IsFiniteSet(Living) /\ Cardinality(Living) \in Nat
    BY <2>1, LivingFinite
  <2>3. Cardinality(Living \union {v}) = Cardinality(Living) + 1
    BY <2>1, <2>2, FS_AddElement
  <2>4. Cardinality(Living') = Cardinality(Living) + 1
    BY <2>1, <2>3
  <2> QED BY <1>1, <2>2, <2>4, EntranceConstants DEF SlotsCounted, Order, TypeOK
<1> QED BY <1>3, <1>4, <1>5 DEF Order

LEMMA ReapOrder ==
    ASSUME TypeOK, Order, NEW v \in Visitors, Reap(v)
    PROVE  Order'
<1> USE DEF streetVars, deskVars, mailVars, guideVars
<1>1. visitor[v] = "zombie" /\ Become(v, "gone") /\ visitor_sem' = visitor_sem + 1
  BY DEF Reap
<1>2. visitor'[v] = "gone" /\ \A w \in Visitors : w # v => visitor'[w] = visitor[w]
  BY <1>1, Becomes
<1>3. DeskKept' /\ TicketsKept' /\ LettersKept'
  BY <1>1, ApartSame DEF Reap, Apart
<1>4. RegistryKept' /\ GroupsKept'
  BY <1>1, <1>2, RegistrySame, GroupsSame DEF Reap, Order
<1>5. SlotsCounted'
  <2>1. Living = Living' \union {v} /\ v \notin Living' /\ Living' \in SUBSET Visitors
    BY <1>1, <1>2 DEF Living, Exists
  <2>2. IsFiniteSet(Living') /\ Cardinality(Living') \in Nat
    BY <2>1, LivingFinite
  <2>3. Cardinality(Living' \union {v}) = Cardinality(Living') + 1
    BY <2>1, <2>2, FS_AddElement
  <2>4. Cardinality(Living) = Cardinality(Living') + 1
    BY <2>1, <2>3
  <2> QED BY <1>1, <2>2, <2>4, EntranceConstants DEF SlotsCounted, Order, TypeOK
<1> QED BY <1>3, <1>4, <1>5 DEF Order

LEMMA ExitOrder ==
    ASSUME TypeOK, Order, NEW v \in Visitors, Exit(v)
    PROVE  Order'
<1> USE DEF streetVars, deskVars, mailVars, guideVars
<1>1. visitor[v] = "leaving" /\ Become(v, "zombie")
  BY DEF Exit
<1>2. visitor'[v] = "zombie" /\ \A w \in Visitors : w # v => visitor'[w] = visitor[w]
  BY <1>1, Becomes
<1>3. DeskKept' /\ TicketsKept' /\ LettersKept'
  BY <1>1, ApartSame DEF Exit, Apart
<1>4. RegistryKept' /\ GroupsKept'
  BY <1>1, <1>2, RegistrySame, GroupsSame DEF Exit, Order
<1>5. SlotsCounted'
  BY <1>1, <1>2, CountSame DEF Exit, Exists, Order
<1> QED BY <1>3, <1>4, <1>5 DEF Order

LEMMA ToSendType ==
    ASSUME TypeOK, NEW g \in Guides
    PROVE  ToSend[g] \in Seq(Registry)
<1>1. group[g] \in Seq(Registry) /\ sent[g] \in Nat
  BY DEF TypeOK
<1>2. sent[g] + 1 \in Int /\ Len(group[g]) \in Int /\ \A i \in sent[g] + 1 .. Len(group[g]) : group[g][i] \in Registry
  BY <1>1
<1> QED BY <1>2, SubSeqProperties DEF ToSend

(* A slot that a guide has such a pointer to is taken. *)
LEMMA PointedIsTaken ==
    ASSUME GroupsKept, NEW g \in Guides, NEW i \in Elems(ToSend[g])
    PROVE  Taken(i) /\ \E w \in In("following") : visitors_data[i] = {w}
<1>1. PICK w \in In("following") : visitors_data[i] = {w}
  BY DEF GroupsKept
<1>2. Exists(w) /\ w \in visitors_data[i]
  BY <1>1 DEF In, Exists
<1> QED BY <1>1, <1>2 DEF Taken

LEMMA RegisterOrder ==
    ASSUME TypeOK, Order, NEW v \in Visitors, Register(v)
    PROVE  Order'
<1> USE DEF streetVars, deskVars, mailVars, guideVars
<1>1. visitor[v] = "spawned"
  BY DEF Register
<1>2. PICK s \in {"zombie", "registered"} :
        /\ Become(v, s)
        /\ \/ UNCHANGED visitors_data
           \/ \E i \in Registry : ~Taken(i) /\ visitors_data' = [visitors_data EXCEPT ![i] = {v}]
  BY DEF Register
<1>3. visitor'[v] = s /\ \A w \in Visitors : w # v => visitor'[w] = visitor[w]
  BY <1>2, Becomes
<1>4. DeskKept' /\ TicketsKept' /\ LettersKept'
  BY <1>1, <1>2, ApartSame DEF Register, Apart
<1>5. SlotsCounted'
  BY <1>1, <1>2, <1>3, CountSame DEF Register, Exists, Order
<1>6. CASE UNCHANGED visitors_data
  <2>1. RegistryKept' /\ GroupsKept'
    BY <1>1, <1>3, <1>6, RegistrySame, GroupsSame DEF Register, Order
  <2> QED BY <1>4, <1>5, <2>1 DEF Order
<1>7. ASSUME NEW i \in Registry, ~Taken(i), visitors_data' = [visitors_data EXCEPT ![i] = {v}]
      PROVE  Order'
  <2>1. /\ visitors_data'[i] = {v}
        /\ \A j \in Registry : j # i => visitors_data'[j] = visitors_data[j]
    BY <1>7 DEF TypeOK
  <2>2. \A j \in Registry : v \notin visitors_data[j]
    BY <1>1 DEF Order, RegistryKept
  <2>3. \A w \in Visitors : visitor'[w] = "following" <=> visitor[w] = "following"
    BY <1>1, <1>2, <1>3
  <2>4. RegistryKept'
    <3>1. \A j \in Registry : \A w, x \in visitors_data'[j] : w = x
      BY <2>1 DEF Order, RegistryKept
    <3>2. \A j, k \in Registry : visitors_data'[j] \intersect visitors_data'[k] # {} => j = k
      BY <2>1, <2>2 DEF Order, RegistryKept
    <3>3. \A j \in Registry : \A w \in visitors_data'[j] : visitor'[w] \notin {"unborn", "spawned"}
      <4>1. \A j \in Registry : \A w \in visitors_data[j] : w \in Visitors /\ w # v
        BY <2>2 DEF TypeOK
      <4> QED BY <1>2, <1>3, <2>1, <4>1 DEF Order, RegistryKept
    <3> QED BY <3>1, <3>2, <3>3 DEF RegistryKept
  <2>5. \A g \in Guides : \A j \in Elems(ToSend[g]) : j \in Registry /\ visitors_data'[j] = visitors_data[j]
    <3> TAKE g \in Guides
    <3> TAKE j \in Elems(ToSend[g])
    <3>1. Taken(j)
      BY PointedIsTaken DEF Order
    <3>2. j \in Registry
      BY ToSendType, ElemsType
    <3> QED BY <1>7, <2>1, <3>1, <3>2
  <2>6. GroupsKept'
    <3>1. In("following")' = In("following")
      BY <2>3 DEF In
    <3>2. ToSend' = ToSend
      BY DEF ToSend, Register
    <3> QED BY <2>5, <3>1, <3>2 DEF Order, GroupsKept
  <2> QED BY <1>4, <1>5, <2>4, <2>6 DEF Order
<1> QED BY <1>2, <1>6, <1>7

LEMMA QueueOrder ==
    ASSUME TypeOK, Order, NEW v \in Visitors, Queue(v)
    PROVE  Order'
<1> USE DEF streetVars, deskVars, mailVars, guideVars
<1>1. visitor[v] = "registered" /\ Become(v, "queueing")
  BY DEF Queue
<1>2. visitor'[v] = "queueing" /\ \A w \in Visitors : w # v => visitor'[w] = visitor[w]
  BY <1>1, Becomes
<1>3. RegistryKept' /\ GroupsKept' /\ LettersKept'
  BY <1>1, <1>2, RegistrySame, GroupsSame, LettersSame DEF Queue, Order
<1>4. SlotsCounted'
  BY <1>1, <1>2, CountSame DEF Queue, Exists, Order
<1>5. TicketsKept'
  <2>1. AtDesk' = AtDesk
    BY DEF Queue, AtDesk
  <2> QED BY <1>1, <1>2, <2>1, TicketsSame DEF Queue, Order
<1>6. DeskKept'
  <2>1. PICK b \in BOOLEAN : /\ b = TRUE => v \in VIPs
                             /\ b = FALSE => v \notin VIPs
                             /\ fifo' = [fifo EXCEPT ![b] = Append(@, v)]
    <3>1. fifo' = [fifo EXCEPT ![v \in VIPs] = Append(@, v)]
      BY DEF Queue
    <3>2. CASE v \in VIPs
      <4>1. (v \in VIPs) = TRUE
        BY <3>2
      <4> QED BY <3>1, <3>2, <4>1, Zenon
    <3>3. CASE v \notin VIPs
      <4>1. (v \in VIPs) = FALSE
        BY <3>3
      <4> QED BY <3>1, <3>3, <4>1, Zenon
    <3> QED BY <3>2, <3>3
  <2>2. v \notin Elems(fifo[TRUE]) /\ v \notin Elems(fifo[FALSE])
    BY <1>1 DEF Order, DeskKept, In
  <2>3. /\ Elems(Append(fifo[b], v)) = Elems(fifo[b]) \union {v}
        /\ Distinct(fifo[b]) => Distinct(Append(fifo[b], v))
    <3>1. fifo[b] \in Seq(Visitors) /\ v \notin Elems(fifo[b])
      BY <2>2 DEF TypeOK
    <3> QED BY <3>1, AppendElems
  <2>4. \A c \in BOOLEAN : fifo'[c] = IF c = b THEN Append(fifo[b], v) ELSE fifo[c]
    <3>1. fifo \in [BOOLEAN -> Seq(Visitors)] /\ fifo' = [fifo EXCEPT ![b] = Append(@, v)]
      BY <2>1, Zenon DEF TypeOK
    <3> QED BY <3>1
  <2>5. \A c \in BOOLEAN : /\ Distinct(fifo'[c])
                           /\ Elems(fifo'[c]) = IF c = b THEN Elems(fifo[b]) \union {v} ELSE Elems(fifo[c])
    BY <2>3, <2>4 DEF Order, DeskKept
  <2>6. In("queueing")' = In("queueing") \union {v}
    BY <1>1, <1>2 DEF In
  <2>7. \A c \in BOOLEAN : Distinct(fifo'[c]) /\ Elems(fifo'[c]) \subseteq In("queueing")'
    BY <2>5, <2>6 DEF Order, DeskKept
  <2>8. \A w \in Elems(fifo'[TRUE]) : w \in VIPs
    <3>1. Elems(fifo'[TRUE]) = IF TRUE = b THEN Elems(fifo[b]) \union {v} ELSE Elems(fifo[TRUE])
      BY <2>5
    <3>2. \A w \in Elems(fifo'[TRUE]) : w \in Elems(fifo[TRUE]) \/ (b = TRUE /\ w = v)
      BY <3>1
    <3>3. \A w \in Elems(fifo[TRUE]) : w \in VIPs
      BY DEF Order, DeskKept
    <3>4. b = TRUE => v \in VIPs
      BY <2>1, Zenon
    <3> QED BY <3>2, <3>3, <3>4, Zenon
  <2>9. \A w \in Elems(fifo'[FALSE]) : w \notin VIPs
    <3>1. Elems(fifo'[FALSE]) = IF FALSE = b THEN Elems(fifo[b]) \union {v} ELSE Elems(fifo[FALSE])
      BY <2>5
    <3>2. \A w \in Elems(fifo'[FALSE]) : w \in Elems(fifo[FALSE]) \/ (b = FALSE /\ w = v)
      BY <3>1
    <3> QED BY <2>1, <3>2 DEF Order, DeskKept
  <2>10. UNCHANGED << cashier, current >>
    BY DEF Queue
  <2>11. cashier = "selling" => \A w \in current : /\ visitor'[w] = "queueing"
                                                   /\ \A c \in BOOLEAN : w \notin Elems(fifo'[c])
    <3>1. SUFFICES ASSUME cashier = "selling", NEW w \in current
                   PROVE  /\ visitor'[w] = "queueing"
                          /\ \A c \in BOOLEAN : w \notin Elems(fifo'[c])
      OBVIOUS
    <3>2. visitor[w] = "queueing" /\ w # v /\ w \in Visitors /\ \A c \in BOOLEAN : w \notin Elems(fifo[c])
      BY <1>1, <3>1 DEF Order, DeskKept, TypeOK
    <3> QED BY <1>2, <2>5, <3>2
  <2> QED BY <2>7, <2>8, <2>9, <2>10, <2>11 DEF Order, DeskKept
<1> QED BY <1>3, <1>4, <1>5, <1>6 DEF Order

(* A letter more: from a VIP. *)
LEMMA VipLeaveOrder ==
    ASSUME TypeOK, Order, NEW v \in Visitors, VipLeave(v)
    PROVE  Order'
<1> USE DEF streetVars, deskVars, mailVars, guideVars
<1>1. visitor[v] = "touring" /\ Become(v, "lettered") /\ letters' = Append(letters, v)
  BY DEF VipLeave
<1>2. visitor'[v] = "lettered" /\ \A w \in Visitors : w # v => visitor'[w] = visitor[w]
  BY <1>1, Becomes
<1>3. RegistryKept' /\ GroupsKept'
  BY <1>1, <1>2, RegistrySame, GroupsSame DEF VipLeave, Order
<1>4. SlotsCounted' /\ DeskKept'
  BY <1>1, <1>2, CountSame, DeskSame DEF VipLeave, Exists, Order, In
<1>5. TicketsKept'
  <2>1. AtDesk' = AtDesk
    BY DEF VipLeave, AtDesk
  <2> QED BY <1>1, <1>2, <2>1, TicketsSame DEF VipLeave, Order
<1>6. LettersKept'
  <2>1. v \notin Elems(letters) /\ letters \in Seq(Visitors)
    BY <1>1 DEF Order, LettersKept, In, TypeOK
  <2>2. Elems(letters') = Elems(letters) \union {v} /\ Distinct(letters')
    BY <1>1, <2>1, AppendElems DEF Order, LettersKept
  <2>3. In("lettered")' = In("lettered") \union {v}
    BY <1>2 DEF In
  <2> QED BY <2>2, <2>3 DEF Order, LettersKept
<1> QED BY <1>3, <1>4, <1>5, <1>6 DEF Order
----------------------------------------------------------------------------
(* The cashier *)

LEMMA QuietCashier ==
    ASSUME TypeOK, Order,
           \/ Open \/ Top \/ HungUp \/ CheckSlots \/ CashierWake
           \/ (Flush /\ UNCHANGED << visitor, tickets >>)
    PROVE  Order'
<1> USE DEF streetVars, deskVars, mailVars, guideVars
<1>1. /\ UNCHANGED << visitor, visitors_data, visitor_sem, fifo, tickets, letters >>
      /\ UNCHANGED << held, group, sent, current, guide >>
  BY Zenon DEF Open, Top, HungUp, CheckSlots, CashierWake, Flush
<1>2. \/ cashier' = cashier
      \/ cashier \notin Serving /\ cashier' \notin Serving
      \/ cashier \in Serving \ {"selling"} /\ cashier' \in Serving \ {"selling"}
  <2>1. CASE Open \/ HungUp \/ CheckSlots \/ CashierWake
    BY <2>1 DEF Open, HungUp, CheckSlots, CashierWake, Serving
  <2>2. CASE Flush /\ UNCHANGED << visitor, tickets >>
    <3>1. cashier = "flushing" /\ (cashier' = cashier \/ cashier' = "polling")
      BY <2>2, Zenon DEF Flush
    <3> QED BY <3>1 DEF Serving
  <2>3. CASE Top
    <3>1. cashier = "top" /\ (cashier' = cashier \/ cashier' = "flushing" \/ cashier' = "polling")
      BY <2>3, Zenon DEF Top
    <3> QED BY <3>1 DEF Serving
  <2> QED BY <2>1, <2>2, <2>3
<1> QED BY <1>1, <1>2, QuietOrder DEF Serving

LEMMA FlushOrder ==
    ASSUME TypeOK, Order, Flush
    PROVE  Order'
<1> USE DEF streetVars, deskVars, mailVars, guideVars
<1>1. CASE UNCHANGED << visitor, tickets >>
  BY <1>1, QuietCashier
<1>2. CASE tickets # << >> /\ tickets' = Tail(tickets) /\ Become(Head(tickets), "leaving")
           /\ UNCHANGED cashier
  <2> DEFINE v == Head(tickets)
  <2>1. /\ Elems(tickets') = Elems(tickets) \ {v} /\ Distinct(tickets')
        /\ v \in Elems(tickets) /\ v \in Visitors
    BY <1>2, TailElems DEF TypeOK, Order, TicketsKept
  <2>2. visitor[v] = "admitted" /\ v \notin Held /\ v \notin AtDesk
    BY <2>1 DEF Order, TicketsKept, In
  <2>3. visitor'[v] = "leaving" /\ \A w \in Visitors : w # v => visitor'[w] = visitor[w]
    BY <1>2, <2>1, Becomes
  <2>4. UNCHANGED << visitors_data, visitor_sem, fifo, letters, held, group, sent, current, guide >>
    BY Zenon DEF Flush
  <2> HIDE DEF v
  <2>5. RegistryKept' /\ GroupsKept' /\ LettersKept'
    BY <2>2, <2>3, <2>4, RegistrySame, GroupsSame, LettersSame DEF Order
  <2>6. SlotsCounted' /\ DeskKept'
    BY <1>2, <2>2, <2>3, <2>4, CountSame, DeskSame DEF Exists, Order, In
  <2>7. TicketsKept'
    <3>1. AtDesk' = AtDesk /\ Held' = Held
      BY <1>2, <2>4 DEF AtDesk, Held
    <3>2. In("admitted")' = In("admitted") \ {v}
      BY <2>3 DEF In
    <3> QED BY <2>1, <2>2, <2>4, <3>1, <3>2 DEF Order, TicketsKept
  <2> QED BY <2>5, <2>6, <2>7 DEF Order
<1> QED BY <1>1, <1>2 DEF Flush

LEMMA CallOrder ==
    ASSUME TypeOK, Order, Call
    PROVE  Order'
<1> USE DEF streetVars, deskVars, mailVars, guideVars
<1>1. PICK b \in BOOLEAN :
        /\ fifo[b] # << >>
        /\ fifo' = [fifo EXCEPT ![b] = Tail(@)]
        /\ \/ Become(Head(fifo[b]), "leaving") /\ cashier' = "top" /\ UNCHANGED current
           \/ current' = {Head(fifo[b])} /\ cashier' = "selling" /\ UNCHANGED visitor
  BY DEF Call
<1> DEFINE v == Head(fifo[b])
<1>2. fifo[b] \in Seq(Visitors) /\ Distinct(fifo[b])
  BY DEF TypeOK, Order, DeskKept
<1>3. /\ Elems(Tail(fifo[b])) = Elems(fifo[b]) \ {v} /\ Distinct(Tail(fifo[b]))
      /\ v \in Elems(fifo[b]) /\ v \in Visitors
  BY <1>1, <1>2, TailElems
<1>4. \A c \in BOOLEAN : fifo'[c] = IF c = b THEN Tail(fifo[b]) ELSE fifo[c]
  <2>1. fifo \in [BOOLEAN -> Seq(Visitors)]
    BY DEF TypeOK
  <2> QED BY <1>1, <2>1
<1>5. UNCHANGED << visitors_data, visitor_sem, tickets, letters, held, group, sent, guide >>
      /\ cashier = "polling" /\ current = {}
  BY DEF Call, Order, DeskKept, Serving
<1> HIDE DEF v
<1>6. visitor[v] = "queueing" /\ \A c \in BOOLEAN : c # b => v \notin Elems(fifo[c])
  <2>1. visitor[v] = "queueing"
    BY <1>3 DEF Order, DeskKept, In
  <2>2. b = TRUE => v \in VIPs
    BY <1>3 DEF Order, DeskKept
  <2>3. b = FALSE => v \notin VIPs
    BY <1>3 DEF Order, DeskKept
  <2>4. \A w \in Elems(fifo[TRUE]) : w \in VIPs
    BY DEF Order, DeskKept
  <2>5. \A w \in Elems(fifo[FALSE]) : w \notin VIPs
    BY DEF Order, DeskKept
  <2>6. CASE b = TRUE
    BY <2>1, <2>2, <2>5, <2>6
  <2>7. CASE b = FALSE
    BY <2>1, <2>3, <2>4, <2>7
  <2> QED BY <2>6, <2>7
<1>7. \A c \in BOOLEAN : /\ Distinct(fifo'[c]) /\ Elems(fifo'[c]) \subseteq Elems(fifo[c]) \ {v}
  BY <1>3, <1>4, <1>6 DEF Order, DeskKept
<1>7a. /\ \A w \in Elems(fifo'[TRUE]) : w \in VIPs
       /\ \A w \in Elems(fifo'[FALSE]) : w \notin VIPs
  BY <1>7 DEF Order, DeskKept
<1>8. CASE Become(v, "leaving") /\ cashier' = "top" /\ UNCHANGED current
  <2>1. visitor'[v] = "leaving" /\ \A w \in Visitors : w # v => visitor'[w] = visitor[w]
    BY <1>3, <1>8, Becomes
  <2>2. RegistryKept' /\ GroupsKept' /\ LettersKept' /\ SlotsCounted'
    BY <1>5, <1>6, <2>1, RegistrySame, GroupsSame, LettersSame, CountSame DEF Order, Exists
  <2>3. AtDesk' = AtDesk
    BY <1>5, <1>8 DEF AtDesk
  <2>4. TicketsKept'
    BY <1>5, <1>6, <2>1, <2>3, TicketsSame DEF Order
  <2>5. In("queueing")' = In("queueing") \ {v}
    BY <2>1 DEF In
  <2>6. \A c \in BOOLEAN : Distinct(fifo'[c]) /\ Elems(fifo'[c]) \subseteq In("queueing")'
    BY <1>7, <2>5 DEF Order, DeskKept
  <2>7. DeskKept'
    BY <1>5, <1>7a, <1>8, <2>6 DEF DeskKept
  <2> QED BY <2>2, <2>4, <2>7 DEF Order
<1>9. CASE current' = {v} /\ cashier' = "selling" /\ UNCHANGED visitor
  <2>1. RegistryKept' /\ GroupsKept' /\ LettersKept' /\ SlotsCounted'
    BY <1>5, <1>9, RegistrySame, GroupsSame, LettersSame, CountSame DEF Order, Exists
  <2>2. AtDesk' = AtDesk
    BY <1>5, <1>9 DEF AtDesk
  <2>3. TicketsKept'
    BY <1>5, <1>9, <2>2, TicketsSame DEF Order
  <2>4. \A c \in BOOLEAN : Distinct(fifo'[c]) /\ Elems(fifo'[c]) \subseteq In("queueing")'
    BY <1>7, <1>9 DEF Order, DeskKept, In
  <2>5. \A w \in current' : visitor'[w] = "queueing" /\ \A c \in BOOLEAN : w \notin Elems(fifo'[c])
    BY <1>6, <1>7, <1>9
  <2>6. \A w, x \in current' : w = x
    BY <1>9
  <2>7. DeskKept'
    BY <1>7a, <1>9, <2>4, <2>5, <2>6 DEF DeskKept, Serving
  <2> QED BY <2>1, <2>3, <2>7 DEF Order
<1> QED BY <1>1, <1>8, <1>9 DEF v

LEMMA SellOrder ==
    ASSUME TypeOK, Order, Sell
    PROVE  Order'
<1> USE DEF streetVars, deskVars, mailVars, guideVars
<1>1. PICK v \in current :
        \/ Become(v, "touring") /\ cashier' = "top" /\ current' = {}
        \/ Become(v, "admitted") /\ cashier' = "checking" /\ UNCHANGED current
  BY DEF Sell
<1>2. /\ UNCHANGED << visitors_data, visitor_sem, fifo, tickets, letters, held, group, sent, guide >>
      /\ cashier = "selling"
  BY Zenon DEF Sell
<1>3. /\ v \in Visitors /\ visitor[v] = "queueing" /\ current = {v}
      /\ \A c \in BOOLEAN : v \notin Elems(fifo[c])
  BY <1>1, <1>2 DEF Order, DeskKept, TypeOK
<1>4. PICK s \in {"touring", "admitted"} :
        /\ Become(v, s)
        /\ s = "touring" => cashier' = "top" /\ current' = {}
        /\ s = "admitted" => cashier' = "checking" /\ current' = {v}
  BY <1>1, <1>3
<1>5. visitor'[v] = s /\ \A w \in Visitors : w # v => visitor'[w] = visitor[w]
  BY <1>3, <1>4, Becomes
<1>6. RegistryKept' /\ GroupsKept' /\ LettersKept' /\ SlotsCounted'
  BY <1>2, <1>3, <1>5, RegistrySame, GroupsSame, LettersSame, CountSame DEF Order, Exists
<1>7. DeskKept'
  <2>1. In("queueing")' = In("queueing") \ {v}
    BY <1>5 DEF In
  <2>2. \A c \in BOOLEAN : Distinct(fifo'[c]) /\ Elems(fifo'[c]) \subseteq In("queueing")'
    BY <1>2, <1>3, <2>1 DEF Order, DeskKept
  <2>3. /\ \A w \in Elems(fifo'[TRUE]) : w \in VIPs
        /\ \A w \in Elems(fifo'[FALSE]) : w \notin VIPs
    BY <1>2 DEF Order, DeskKept
  <2>4. (\A w, x \in current' : w = x) /\ cashier' # "selling" /\ (cashier' \notin Serving => current' = {})
    BY <1>4 DEF Serving
  <2> QED BY <2>2, <2>3, <2>4 DEF DeskKept
<1>8. TicketsKept'
  <2>1. AtDesk = {} /\ AtDesk' = (IF s = "admitted" THEN {v} ELSE {}) /\ Held' = Held
    BY <1>2, <1>4 DEF AtDesk, Held
  <2>2. In("admitted")' = In("admitted") \union AtDesk' /\ v \notin In("admitted")
    BY <1>3, <1>5, <2>1 DEF In
  <2>3. v \notin Elems(tickets) /\ v \notin Held
    BY <2>2 DEF Order, TicketsKept
  <2> QED BY <1>2, <2>1, <2>2, <2>3 DEF Order, TicketsKept
<1> QED BY <1>6, <1>7, <1>8 DEF Order

LEMMA SendTicketOrder ==
    ASSUME TypeOK, Order, SendTicket
    PROVE  Order'
<1> USE DEF streetVars, deskVars, mailVars, guideVars
<1>1. PICK v \in current : tickets' = Append(tickets, v)
  BY DEF SendTicket
<1>2. /\ UNCHANGED << visitor, visitors_data, visitor_sem, fifo, letters, held, group, sent, guide >>
      /\ cashier = "sending" /\ cashier' = "top" /\ current' = {}
  BY Zenon DEF SendTicket
<1>3. v \in Visitors /\ current = {v} /\ AtDesk = {v} /\ AtDesk' = {}
  BY <1>1, <1>2 DEF Order, DeskKept, TypeOK, AtDesk
<1>4. RegistryKept' /\ GroupsKept' /\ LettersKept' /\ SlotsCounted'
  BY <1>2, RegistrySame, GroupsSame, LettersSame, CountSame DEF Order, Exists
<1>5. DeskKept'
  BY <1>2 DEF Order, DeskKept, Serving, In
<1>6. TicketsKept'
  <2>1. v \notin Elems(tickets) /\ v \notin Held
    BY <1>3 DEF Order, TicketsKept
  <2>2. Elems(tickets') = Elems(tickets) \union {v} /\ Distinct(tickets')
    BY <1>1, <1>3, <2>1, AppendElems DEF Order, TicketsKept, TypeOK
  <2>3. Held' = Held /\ In("admitted")' = In("admitted")
    BY <1>2 DEF Held, In
  <2> QED BY <1>2, <1>3, <2>1, <2>2, <2>3 DEF Order, TicketsKept
<1> QED BY <1>4, <1>5, <1>6 DEF Order

LEMMA LeavingThreadOrder ==
    ASSUME TypeOK, Order, LeavingThread
    PROVE  Order'
<1> USE DEF streetVars, deskVars, mailVars, guideVars
<1> DEFINE v == Head(letters)
<1>1. letters # << >> /\ letters' = Tail(letters) /\ Become(v, "leaving")
  BY DEF LeavingThread
<1>2. /\ Elems(letters') = Elems(letters) \ {v} /\ Distinct(letters')
      /\ v \in Elems(letters) /\ v \in Visitors
  BY <1>1, TailElems DEF TypeOK, Order, LettersKept
<1> HIDE DEF v
<1>3. visitor[v] = "lettered"
  BY <1>2 DEF Order, LettersKept, In
<1>4. visitor'[v] = "leaving" /\ \A w \in Visitors : w # v => visitor'[w] = visitor[w]
  BY <1>1, <1>2, Becomes
<1>5. UNCHANGED << visitors_data, visitor_sem, fifo, tickets, held, group, sent, guide, cashier, current >>
  BY Zenon DEF LeavingThread
<1>6. RegistryKept' /\ GroupsKept' /\ SlotsCounted'
  BY <1>3, <1>4, <1>5, RegistrySame, GroupsSame, CountSame DEF Order, Exists
<1>7. DeskKept'
  BY <1>3, <1>4, <1>5, DeskSame DEF Order, In
<1>8. AtDesk' = AtDesk
  BY <1>5 DEF AtDesk
<1>9. TicketsKept'
  BY <1>3, <1>4, <1>5, <1>8, TicketsSame DEF Order
<1>10. LettersKept'
  <2>1. In("lettered")' = In("lettered") \ {v}
    BY <1>4 DEF In
  <2> QED BY <1>2, <2>1 DEF Order, LettersKept
<1> QED BY <1>6, <1>7, <1>9, <1>10 DEF Order

----------------------------------------------------------------------------
(* The guides *)

LEMMA QuietGuide ==
    ASSUME TypeOK, Order, NEW g \in Guides,
           FindNobody(g) \/ Rise(g) \/ GoOn(g) \/ Depart(g) \/ TourEnd(g) \/ Command(g)
    PROVE  Order'
<1> USE DEF streetVars, deskVars, mailVars, guideVars
<1>1. /\ UNCHANGED << visitor, visitors_data, visitor_sem, fifo, tickets, letters >>
      /\ UNCHANGED << held, group, sent, current, cashier >>
  BY Zenon DEF FindNobody, Rise, GoOn, Depart, TourEnd, Command
<1>2. \A h \in Guides : guide[h] = "holding" => guide'[h] = "holding"
  BY DEF FindNobody, Rise, GoOn, Depart, TourEnd, Command, GuideGoto, TypeOK
<1> QED BY <1>1, <1>2, QuietOrder

(* With the last letter sent nothing was left to forget. *)
LEMMA FinishOrder ==
    ASSUME TypeOK, Order, NEW g \in Guides, Finish(g)
    PROVE  Order'
<1> USE DEF streetVars, deskVars, mailVars, guideVars
<1>1. /\ UNCHANGED << visitor, visitors_data, visitor_sem, fifo, tickets, letters >>
      /\ UNCHANGED << held, current, cashier >>
  BY Zenon DEF Finish
<1>2. \A h \in Guides : guide[h] = "holding" => guide'[h] = "holding"
  BY DEF Finish, GuideGoto, TypeOK
<1>3. \A h \in Guides : ToSend'[h] = ToSend[h]
  <2>1. /\ group'[g] = << >> /\ sent'[g] = 0 /\ sent[g] = Len(group[g])
        /\ \A h \in Guides : h # g => group'[h] = group[h] /\ sent'[h] = sent[h]
    BY DEF Finish, TypeOK
  <2>2. ToSend[g] = << >>
    <3>1. sent[g] \in Nat
      BY DEF TypeOK
    <3>2. sent[g] + 1 \in Int /\ Len(group[g]) \in Int /\ Len(group[g]) < sent[g] + 1
      BY <2>1, <3>1
    <3> QED BY <3>2, SubSeqEmpty DEF ToSend
  <2>3. ToSend'[g] = << >>
    <3>1. Len(<< >>) = 0
      OBVIOUS
    <3>2. 0 + 1 \in Int /\ 0 \in Int /\ 0 < 0 + 1
      OBVIOUS
    <3>3. SubSeq(<< >>, 0 + 1, 0) = << >>
      BY <3>2, SubSeqEmpty
    <3> QED BY <2>1, <3>1, <3>3 DEF ToSend
  <2>4. \A h \in Guides : h # g => ToSend'[h] = ToSend[h]
    BY <2>1 DEF ToSend
  <2> QED BY <2>2, <2>3, <2>4
<1>4. GroupsKept'
  <2>1. In("following")' = In("following") /\ visitors_data' = visitors_data
    BY <1>1 DEF In
  <2> QED BY <1>3, <2>1 DEF Order, GroupsKept
<1>5. AtDesk' = AtDesk
  BY <1>1 DEF AtDesk
<1>6. RegistryKept' /\ SlotsCounted' /\ LettersKept'
  BY <1>1, RegistrySame, CountSame, LettersSame DEF Order, Exists
<1>7. DeskKept' /\ TicketsKept'
  BY <1>1, <1>2, <1>5, DeskSame, TicketsSame DEF Order, In
<1> QED BY <1>4, <1>6, <1>7 DEF Order

LEMMA TakeOrder ==
    ASSUME TypeOK, SentKept, Order, NEW g \in Guides, Take(g)
    PROVE  Order'
<1> USE DEF streetVars, deskVars, mailVars, guideVars
<1> DEFINE v == Head(tickets)
<1>1. /\ guide[g] = "gathering" /\ tickets # << >> /\ tickets' = Tail(tickets)
      /\ UNCHANGED << visitors_data, visitor_sem, fifo, letters, cashier, current, sent >>
  BY DEF Take
<1>2. /\ Elems(tickets') = Elems(tickets) \ {v} /\ Distinct(tickets')
      /\ v \in Elems(tickets) /\ v \in Visitors
  BY <1>1, TailElems DEF TypeOK, Order, TicketsKept
<1>3. visitor[v] = "admitted" /\ v \notin Held /\ v \notin AtDesk
  BY <1>2 DEF Order, TicketsKept, In
<1>4. AtDesk' = AtDesk
  BY <1>1 DEF AtDesk
<1>5. CASE /\ \E i \in Registry :
                visitors_data[i] = {v} /\ group' = [group EXCEPT ![g] = Append(@, i)]
           /\ Become(v, "following") /\ GuideGoto(g, "checking") /\ UNCHANGED held
  <2> HIDE DEF v
  <2>1. visitor'[v] = "following" /\ \A w \in Visitors : w # v => visitor'[w] = visitor[w]
    BY <1>2, <1>5, Becomes
  <2>2. RegistryKept' /\ LettersKept' /\ SlotsCounted'
    BY <1>1, <1>3, <2>1, RegistrySame, LettersSame, CountSame DEF Order, Exists
  <2>3. DeskKept'
    BY <1>1, <1>3, <2>1, DeskSame DEF Order, In
  <2>4. \A h \in Guides : guide[h] = "holding" => guide'[h] = "holding"
    BY <1>1, <1>5 DEF GuideGoto, TypeOK
  <2>5. TicketsKept'
    <3>1. In("admitted")' = In("admitted") \ {v}
      BY <2>1 DEF In
    <3>2. Held' = Held
      BY <1>5 DEF Held
    <3> QED BY <1>2, <1>3, <1>4, <1>5, <2>4, <3>1, <3>2 DEF Order, TicketsKept
  <2>6. PICK i \in Registry : visitors_data[i] = {v} /\ group' = [group EXCEPT ![g] = Append(@, i)]
    BY <1>5
  <2>7. \A h \in Guides : i \notin Elems(ToSend[h])
    <3>1. \A h \in Guides : \A j \in Elems(ToSend[h]) : \E w \in In("following") : visitors_data[j] = {w}
      BY DEF Order, GroupsKept
    <3>2. \A w \in In("following") : w # v
      BY <1>3 DEF In
    <3> QED BY <2>6, <3>1, <3>2
  <2>8. /\ Elems(ToSend'[g]) = Elems(ToSend[g]) \union {i} /\ Distinct(ToSend'[g])
        /\ \A h \in Guides : h # g => ToSend'[h] = ToSend[h]
    <3>1. ToSend[g] \in Seq(Registry) /\ Distinct(ToSend[g])
      BY ToSendType DEF Order, GroupsKept
    <3>2. Elems(Append(ToSend[g], i)) = Elems(ToSend[g]) \union {i} /\ Distinct(Append(ToSend[g], i))
      BY <2>7, <3>1, AppendElems
    <3>3. group'[g] = Append(group[g], i) /\ \A h \in Guides : h # g => group'[h] = group[h]
      BY <2>6 DEF TypeOK
    <3>4. group[g] \in Seq(Registry) /\ sent[g] \in Nat /\ sent[g] <= Len(group[g])
      BY DEF TypeOK, SentKept
    <3>5. Len(group'[g]) = Len(group[g]) + 1
      BY <3>3, <3>4
    <3>6. ToSend'[g] = Append(ToSend[g], i)
      <4>1. SubSeq(Append(group[g], i), sent[g] + 1, Len(group[g]) + 1)
              = Append(SubSeq(group[g], sent[g] + 1, Len(group[g])), i)
        BY <3>4, RestOfAppend
      <4> QED BY <1>1, <3>3, <3>5, <4>1 DEF ToSend
    <3>7. \A h \in Guides : h # g => ToSend'[h] = ToSend[h]
      BY <1>1, <3>3 DEF ToSend
    <3> QED BY <3>2, <3>6, <3>7
  <2>9. In("following")' = In("following") \union {v}
    BY <1>2, <2>1 DEF In
  <2>10. GroupsKept'
    <3>1. \A h \in Guides : Distinct(ToSend'[h])
      BY <2>8 DEF Order, GroupsKept
    <3>2. \A h, k \in Guides : Elems(ToSend'[h]) \intersect Elems(ToSend'[k]) # {} => h = k
      BY <2>7, <2>8 DEF Order, GroupsKept
    <3>3. \A h \in Guides : \A j \in Elems(ToSend'[h]) :
             \E w \in In("following")' : visitors_data[j] = {w}
      <4> TAKE h \in Guides
      <4> TAKE j \in Elems(ToSend'[h])
      <4>1. CASE j = i
        BY <2>6, <2>9, <4>1
      <4>2. CASE j # i
        <5>1. j \in Elems(ToSend[h])
          BY <2>8, <4>2
        <5>2. \E w \in In("following") : visitors_data[j] = {w}
          BY <5>1 DEF Order, GroupsKept
        <5> QED BY <2>9, <5>2
      <4> QED BY <4>1, <4>2
    <3>4. \A w \in In("following")' : \E h \in Guides : \E j \in Elems(ToSend'[h]) : visitors_data[j] = {w}
      BY <2>6, <2>8, <2>9 DEF Order, GroupsKept
    <3>5. visitors_data' = visitors_data
      BY <1>1
    <3>6. (\A h \in Guides : \A j \in Elems(ToSend[h]) :
             \E w \in In("following") : visitors_data[j] = {w})'
      BY <3>3, <3>5
    <3>7. (\A w \in In("following") : \E h \in Guides : \E j \in Elems(ToSend[h]) : visitors_data[j] = {w})'
      BY <3>4, <3>5
    <3> QED BY <3>1, <3>2, <3>6, <3>7 DEF GroupsKept
  <2> QED BY <2>2, <2>3, <2>5, <2>10 DEF Order
<1>6. CASE /\ held' = [held EXCEPT ![g] = {v}] /\ GuideGoto(g, "holding")
           /\ UNCHANGED << visitor, group >>
  <2> HIDE DEF v
  <2>1. RegistryKept' /\ LettersKept' /\ SlotsCounted' /\ GroupsKept'
    BY <1>1, <1>6, RegistrySame, LettersSame, CountSame, GroupsSame DEF Order, Exists
  <2>2. DeskKept'
    BY <1>1, <1>6, DeskSame DEF Order, In
  <2>3. held[g] = {}
    BY <1>1 DEF Order, TicketsKept
  <2>4. held'[g] = {v} /\ \A h \in Guides : h # g => held'[h] = held[h]
    BY <1>6 DEF TypeOK
  <2>5. guide'[g] = "holding" /\ \A h \in Guides : h # g => guide'[h] = guide[h]
    BY <1>6 DEF TypeOK, GuideGoto
  <2>6. Held' = Held \union {v}
    BY <2>3, <2>4 DEF Held
  <2>7. \A h \in Guides : v \notin held[h]
    BY <1>3 DEF Held
  <2>8. In("admitted")' = In("admitted")
    BY <1>6 DEF In
  <2>9. TicketsKept'
    <3>1. \A h, k \in Guides : held'[h] \intersect held'[k] # {} => h = k
      BY <2>4, <2>7 DEF Order, TicketsKept
    <3>2. \A h \in Guides : /\ \A w, x \in held'[h] : w = x
                            /\ held'[h] # {} => guide'[h] = "holding"
      BY <2>4, <2>5 DEF Order, TicketsKept
    <3> QED BY <1>2, <1>3, <1>4, <2>6, <2>8, <3>1, <3>2 DEF Order, TicketsKept
  <2> QED BY <2>1, <2>2, <2>9 DEF Order
<1> QED BY <1>5, <1>6 DEF Take

LEMMA PutBackOrder ==
    ASSUME TypeOK, Order, NEW g \in Guides, PutBack(g)
    PROVE  Order'
<1> USE DEF streetVars, deskVars, mailVars, guideVars
<1>1. PICK v \in held[g] : tickets' = Append(tickets, v)
  BY DEF PutBack
<1>2. /\ UNCHANGED << visitor, visitors_data, visitor_sem, fifo, letters, cashier, current, group, sent >>
      /\ held' = [held EXCEPT ![g] = {}] /\ GuideGoto(g, "checking")
  BY DEF PutBack
<1>3. held[g] = {v} /\ v \in Visitors /\ v \in Held
  BY <1>1 DEF Order, TicketsKept, TypeOK, Held
<1>4. RegistryKept' /\ LettersKept' /\ SlotsCounted' /\ GroupsKept'
  BY <1>2, RegistrySame, LettersSame, CountSame, GroupsSame DEF Order, Exists
<1>5. DeskKept'
  BY <1>2, DeskSame DEF Order, In
<1>6. held'[g] = {} /\ \A h \in Guides : h # g => held'[h] = held[h] /\ guide'[h] = guide[h]
  BY <1>2 DEF TypeOK, GuideGoto
<1>7. Held' = Held \ {v}
  <2>1. \A h \in Guides : h # g => v \notin held[h]
    BY <1>3 DEF Order, TicketsKept
  <2> QED BY <1>3, <1>6, <2>1 DEF Held
<1>8. v \notin Elems(tickets) /\ v \notin AtDesk /\ AtDesk' = AtDesk
  BY <1>2, <1>3 DEF Order, TicketsKept, AtDesk
<1>9. Elems(tickets') = Elems(tickets) \union {v} /\ Distinct(tickets')
  BY <1>1, <1>3, <1>8, AppendElems DEF Order, TicketsKept, TypeOK
<1>10. In("admitted")' = In("admitted")
  BY <1>2 DEF In
<1>11. TicketsKept'
  <2>1. \A h, k \in Guides : held'[h] \intersect held'[k] # {} => h = k
    BY <1>6 DEF Order, TicketsKept
  <2>2. \A h \in Guides : /\ \A w, x \in held'[h] : w = x
                          /\ held'[h] # {} => guide'[h] = "holding"
    BY <1>6 DEF Order, TicketsKept
  <2> QED BY <1>3, <1>7, <1>8, <1>9, <1>10, <2>1, <2>2 DEF Order, TicketsKept
<1> QED BY <1>4, <1>5, <1>11 DEF Order

LEMMA LetterOrder ==
    ASSUME TypeOK, Order, NEW g \in Guides, Letter(g)
    PROVE  Order'
<1> USE DEF streetVars, deskVars, mailVars, guideVars
<1> DEFINE i == group[g][sent[g] + 1]
<1>1. UNCHANGED << visitors_data, visitor_sem, fifo, tickets, held, cashier, current, guide, group >>
  BY DEF Letter
<1>2. PICK v \in visitors_data[i] : letters' = Append(letters, v) /\ Become(v, "lettered")
  BY DEF Letter
<1>3. /\ ToSend'[g] = Tail(ToSend[g]) /\ ToSend[g] # << >> /\ Head(ToSend[g]) = i
      /\ \A h \in Guides : h # g => ToSend'[h] = ToSend[h]
  <2>1. group[g] \in Seq(Registry) /\ sent[g] \in Nat /\ sent[g] < Len(group[g])
    BY DEF TypeOK, Letter
  <2>2. sent'[g] = sent[g] + 1 /\ \A h \in Guides : h # g => sent'[h] = sent[h]
    BY DEF TypeOK, Letter
  <2>3. /\ SubSeq(group[g], sent[g] + 1, Len(group[g])) # << >>
        /\ Head(SubSeq(group[g], sent[g] + 1, Len(group[g]))) = i
        /\ Tail(SubSeq(group[g], sent[g] + 1, Len(group[g]))) = SubSeq(group[g], sent[g] + 2, Len(group[g]))
    BY <2>1, RestOfRest
  <2>4. sent'[g] + 1 = sent[g] + 2
    BY <2>1, <2>2
  <2>5. ToSend'[g] = SubSeq(group[g], sent[g] + 2, Len(group[g]))
    BY <1>1, <2>4 DEF ToSend
  <2>6. \A h \in Guides : h # g => ToSend'[h] = ToSend[h]
    BY <1>1, <2>2 DEF ToSend
  <2> QED BY <2>3, <2>5, <2>6 DEF ToSend
<1>4. /\ Elems(ToSend'[g]) = Elems(ToSend[g]) \ {i} /\ Distinct(ToSend'[g])
      /\ i \in Elems(ToSend[g]) /\ i \in Registry
  <2>1. ToSend[g] \in Seq(Registry) /\ Distinct(ToSend[g])
    BY ToSendType DEF Order, GroupsKept
  <2>2. /\ Elems(Tail(ToSend[g])) = Elems(ToSend[g]) \ {i} /\ Distinct(Tail(ToSend[g]))
        /\ i \in Elems(ToSend[g]) /\ Elems(ToSend[g]) \subseteq Registry
    BY <1>3, <2>1, TailElems
  <2> QED BY <1>3, <2>2
<1> HIDE DEF i
<1>5. visitors_data[i] = {v} /\ v \in Visitors /\ visitor[v] = "following"
  <2>1. \E w \in In("following") : visitors_data[i] = {w}
    BY <1>4, PointedIsTaken DEF Order
  <2> QED BY <1>2, <2>1 DEF In
<1>6. visitor'[v] = "lettered" /\ \A w \in Visitors : w # v => visitor'[w] = visitor[w]
  BY <1>2, <1>5, Becomes
<1>7. RegistryKept' /\ SlotsCounted'
  BY <1>1, <1>5, <1>6, RegistrySame, CountSame DEF Order, Exists
<1>8. DeskKept'
  BY <1>1, <1>5, <1>6, DeskSame DEF Order, In
<1>9. AtDesk' = AtDesk
  BY <1>1 DEF AtDesk
<1>10. TicketsKept'
  BY <1>1, <1>5, <1>6, <1>9, TicketsSame DEF Order
<1>11. LettersKept'
  <2>1. v \notin Elems(letters)
    BY <1>5 DEF Order, LettersKept, In
  <2>2. Elems(letters') = Elems(letters) \union {v} /\ Distinct(letters')
    BY <1>2, <1>5, <2>1, AppendElems DEF Order, LettersKept, TypeOK
  <2>3. In("lettered")' = In("lettered") \union {v}
    BY <1>5, <1>6 DEF In
  <2> QED BY <2>2, <2>3 DEF Order, LettersKept
<1>12. GroupsKept'
  <2>1. /\ Elems(ToSend'[g]) = Elems(ToSend[g]) \ {i} /\ Distinct(ToSend'[g])
        /\ \A h \in Guides : h # g => ToSend'[h] = ToSend[h]
    BY <1>3, <1>4
  <2>2. In("following")' = In("following") \ {v}
    BY <1>6 DEF In
  <2>3. \A h \in Guides : \A j \in Elems(ToSend'[h]) : j \in Elems(ToSend[h]) /\ j \in Registry /\ j # i
    <3>1. \A h \in Guides : \A j \in Elems(ToSend[h]) : j \in Registry
      BY ToSendType, ElemsType
    <3>2. \A h \in Guides : h # g => i \notin Elems(ToSend[h])
      BY <1>4 DEF Order, GroupsKept
    <3> QED BY <2>1, <3>1, <3>2
  <2>4. \A h \in Guides : Distinct(ToSend'[h])
    BY <2>1 DEF Order, GroupsKept
  <2>5. \A h, k \in Guides : Elems(ToSend'[h]) \intersect Elems(ToSend'[k]) # {} => h = k
    BY <2>3 DEF Order, GroupsKept
  <2>6. \A h \in Guides : \A j \in Elems(ToSend'[h]) :
           \E w \in In("following")' : visitors_data[j] = {w}
    <3> TAKE h \in Guides
    <3> TAKE j \in Elems(ToSend'[h])
    <3>1. PICK w \in In("following") : visitors_data[j] = {w}
      BY <2>3, PointedIsTaken DEF Order
    <3>2. w # v
      BY <1>4, <1>5, <2>3, <3>1 DEF Order, RegistryKept
    <3> QED BY <2>2, <3>1, <3>2
  <2>7. \A w \in In("following")' : \E h \in Guides : \E j \in Elems(ToSend'[h]) : visitors_data[j] = {w}
    <3> TAKE w \in In("following")'
    <3>1. w # v /\ w \in In("following")
      BY <2>2
    <3>2. PICK h \in Guides : \E j \in Elems(ToSend[h]) : visitors_data[j] = {w}
      BY <3>1 DEF Order, GroupsKept
    <3>3. PICK j \in Elems(ToSend[h]) : visitors_data[j] = {w}
      BY <3>2
    <3>4. j # i
      BY <1>5, <3>1, <3>3
    <3> QED BY <2>1, <3>3, <3>4
  <2>8. visitors_data' = visitors_data
    BY <1>1
  <2>9. (\A h \in Guides : \A j \in Elems(ToSend[h]) :
           \E w \in In("following") : visitors_data[j] = {w})'
    BY <2>6, <2>8
  <2>10. (\A w \in In("following") : \E h \in Guides : \E j \in Elems(ToSend[h]) : visitors_data[j] = {w})'
    BY <2>7, <2>8
  <2> QED BY <2>4, <2>5, <2>9, <2>10 DEF GroupsKept
<1> QED BY <1>7, <1>8, <1>10, <1>11, <1>12 DEF Order
----------------------------------------------------------------------------
(* The order is an invariant *)

LEMMA InitOrder == Init => Order
<1> SUFFICES ASSUME Init PROVE Order
  OBVIOUS
<1>1. \A v \in Visitors : visitor[v] = "unborn"
  BY DEF Init
<1>2. Elems(<< >>) = {} /\ Distinct(<< >>)
  BY DEF Elems, Distinct
<1>3. RegistryKept
  BY DEF Init, RegistryKept
<1>4. SlotsCounted
  <2>1. Living = {}
    BY <1>1 DEF Living, Exists
  <2>2. Cardinality(Living) = 0
    BY <2>1, FS_EmptySet
  <2> QED BY <2>2, EntranceConstants DEF Init, SlotsCounted
<1>5. \A s \in {"queueing", "admitted", "following", "lettered"} : In(s) = {}
  BY <1>1 DEF In
<1>6. DeskKept
  BY <1>2 DEF Init, DeskKept, Serving
<1>7. TicketsKept
  <2>1. Held = {} /\ AtDesk = {}
    BY DEF Init, Held, AtDesk
  <2> QED BY <1>2, <1>5, <2>1 DEF Init, TicketsKept
<1>8. LettersKept /\ GroupsKept
  <2>1. Len(<< >>) = 0 /\ 0 \in Int /\ 0 + 1 \in Int /\ 0 < 0 + 1
    OBVIOUS
  <2>2. SubSeq(<< >>, 0 + 1, 0) = << >>
    BY <2>1, SubSeqEmpty
  <2>3. \A g \in Guides : ToSend[g] = << >>
    BY <2>1, <2>2 DEF Init, ToSend
  <2> QED BY <1>2, <1>5, <2>3 DEF Init, LettersKept, GroupsKept
<1> QED BY <1>3, <1>4, <1>6, <1>7, <1>8 DEF Order

LEMMA NextOrder == TypeOK /\ SentKept /\ Order /\ [Next]_vars => Order'
<1> SUFFICES ASSUME TypeOK, SentKept, Order, [Next]_vars PROVE Order'
  OBVIOUS
<1>1. CASE CashierStep
  BY <1>1, QuietCashier, FlushOrder, CallOrder, SellOrder, SendTicketOrder DEF CashierStep
<1>2. CASE LeavingThread
  BY <1>2, LeavingThreadOrder
<1>3. ASSUME NEW v \in Visitors, Spawn(v) \/ VisitorStep(v) PROVE Order'
  BY <1>3, SpawnOrder, RegisterOrder, QueueOrder, VipLeaveOrder, ExitOrder, ReapOrder DEF VisitorStep
<1>4. ASSUME NEW g \in Guides, GuideStep(g) \/ Command(g) PROVE Order'
  BY <1>4, QuietGuide, TakeOrder, PutBackOrder, LetterOrder, FinishOrder DEF GuideStep
<1>5. CASE Clock \/ UNCHANGED vars
  <2>1. /\ UNCHANGED << visitor, visitors_data, visitor_sem, fifo, tickets, letters >>
        /\ UNCHANGED << held, group, sent, current, cashier, guide >>
    BY <1>5, Zenon DEF Clock, vars, streetVars, deskVars, mailVars, guideVars
  <2> QED BY <2>1, QuietOrder
<1> QED BY <1>1, <1>2, <1>3, <1>4, <1>5 DEF Next

TypesAndOrder == TypeOK /\ SentKept /\ Order

LEMMA TypesAndOrderHold == Spec => []TypesAndOrder
<1>1. Init => TypesAndOrder
  BY InitTypes, InitSent, InitOrder DEF TypesAndOrder
<1>2. TypesAndOrder /\ [Next]_vars => TypesAndOrder'
  BY NextTypes, NextSent, NextOrder DEF TypesAndOrder
<1> QED BY <1>1, <1>2, PTL DEF Spec

----------------------------------------------------------------------------
(* Room in the registry *)

LEMMA RoomForOne ==
    ASSUME TypeOK, Order, NEW v \in Visitors, visitor[v] = "spawned"
    PROVE  \E i \in Registry : ~Taken(i)
<1> SUFFICES ASSUME \A i \in Registry : Taken(i) PROVE FALSE
  OBVIOUS
<1> DEFINE Others == Living \ {v}
           owner == [i \in Registry |-> CHOOSE w \in visitors_data[i] : Exists(w)]
<1>1. \A i \in Registry : owner[i] \in visitors_data[i] /\ Exists(owner[i])
  BY DEF Taken
<1>2. \A i \in Registry : owner[i] \in Others
  BY <1>1 DEF Order, RegistryKept, TypeOK, Living
<1>3. \A i, j \in Registry : owner[i] = owner[j] => i = j
  BY <1>1 DEF Order, RegistryKept
<1>4. owner \in [Registry -> Others]
  BY <1>2
<1> HIDE DEF owner, Others
<1>5. owner \in Injection(Registry, Others)
  BY <1>3, <1>4 DEF Injection, IsInjective
<1>6. IsFiniteSet(Living) /\ Cardinality(Living) \in Nat /\ v \in Living
  BY LivingFinite DEF Living, Exists
<1>7. IsFiniteSet(Others) /\ Cardinality(Others) = Cardinality(Living) - 1
  <2>1. Cardinality(Living \ {v}) = Cardinality(Living) - 1
    BY <1>6, FS_RemoveElement
  <2>2. IsFiniteSet(Living \ {v})
    BY <1>6, FS_RemoveElement
  <2> QED BY <2>1, <2>2 DEF Others
<1>8. Cardinality(Registry) <= Cardinality(Others)
  BY <1>5, <1>7, FS_Injection
<1>9. Cardinality(Registry) = VisitorsLimit
  <2>1. 1 \in Int /\ VisitorsLimit \in Int /\ VisitorsLimit >= 1
    BY EntranceConstants
  <2>2. Cardinality(1 .. VisitorsLimit) = IF 1 > VisitorsLimit THEN 0 ELSE VisitorsLimit - 1 + 1
    BY <2>1, FS_Interval
  <2> QED BY <2>1, <2>2 DEF Registry
<1>10. visitor_sem + Cardinality(Living) = VisitorsLimit /\ visitor_sem \in Nat
  BY DEF Order, SlotsCounted, TypeOK
<1> QED BY <1>6, <1>7, <1>8, <1>9, <1>10, EntranceConstants

(* visitor_sem leaves a slot of the registry for every visitor that has    *)
(* been started and has yet to register, whatever the limit and whoever    *)
(* comes and goes: register_visitor never turns anybody away.              *)
THEOREM EntranceHasRoom == Spec => []RegistryHasRoom
<1>1. TypesAndOrder => RegistryHasRoom
  BY RoomForOne DEF TypesAndOrder, RegistryHasRoom
<1> QED BY <1>1, TypesAndOrderHold, PTL

(* What a guide has yet to send is what Unsent says. *)
LEMMA UnsentIsToSend ==
    ASSUME TypeOK, SentKept, NEW g \in Guides
    PROVE  /\ Unsent(g) = {i \in DOMAIN group[g] : i > sent[g]}
           /\ \A i \in Unsent(g) : i - sent[g] \in DOMAIN ToSend[g] /\ ToSend[g][i - sent[g]] = group[g][i]
           /\ \A k \in DOMAIN ToSend[g] : sent[g] + k \in Unsent(g) /\ group[g][sent[g] + k] = ToSend[g][k]
<1> DEFINE n == sent[g]
           m == Len(group[g])
           r == ToSend[g]
<1>1. n \in Nat /\ m \in Nat /\ n <= m /\ DOMAIN group[g] = 1 .. m
      /\ \A i \in 1 .. m : group[g][i] \in Registry
  <2>1. sent[g] \in Nat /\ group[g] \in Seq(Registry)
    BY DEF TypeOK
  <2>2. sent[g] <= Len(group[g])
    BY DEF SentKept
  <2> QED BY <2>1, <2>2
<1>2. guide[g] # "at cash" => n = 0
  BY DEF SentKept
<1> HIDE DEF n, m, r
<1>3. Unsent(g) = {i \in 1 .. m : i > n}
  <2>1. n = 0 => \A i \in 1 .. m : i > n
    BY <1>1
  <2> QED BY <1>1, <1>2, <2>1, Zenon DEF Unsent, n
<1>4. r \in Seq(Registry) /\ DOMAIN r = 1 .. m - n /\ \A k \in 1 .. m - n : r[k] = group[g][n + k]
  <2>1. \A i \in n + 1 .. m : group[g][i] \in Registry
    BY <1>1
  <2>2. r = SubSeq(group[g], n + 1, m)
    BY DEF r, n, m, ToSend
  <2>3. /\ r \in Seq(Registry) /\ Len(r) = IF n + 1 <= m THEN m - (n + 1) + 1 ELSE 0
        /\ \A k \in 1 .. m - (n + 1) + 1 : r[k] = group[g][n + 1 + k - 1]
    BY <1>1, <2>1, <2>2, SubSeqProperties
  <2>4. Len(r) = m - n
    BY <1>1, <2>3
  <2>5. \A k \in 1 .. m - n : k \in 1 .. m - (n + 1) + 1 /\ n + 1 + k - 1 = n + k
    BY <1>1
  <2>6. DOMAIN r = 1 .. Len(r)
    BY <2>3
  <2> QED BY <2>3, <2>4, <2>5, <2>6
<1>5. \A i \in 1 .. m : i > n => i - n \in 1 .. m - n /\ n + (i - n) = i
  BY <1>1
<1>6. \A k \in 1 .. m - n : n + k \in 1 .. m /\ n + k > n
  BY <1>1
<1>7. \A i \in Unsent(g) : i - n \in DOMAIN r /\ r[i - n] = group[g][i]
  BY <1>3, <1>4, <1>5
<1>8. \A k \in DOMAIN r : n + k \in Unsent(g) /\ group[g][n + k] = r[k]
  BY <1>3, <1>4, <1>6
<1>9. Unsent(g) = {i \in DOMAIN group[g] : i > n}
  BY <1>1, <1>3
<1> QED BY <1>7, <1>8, <1>9 DEF n, r

(* The pointers of the guides are good on the whole tour and, at the cash, *)
(* until the letter is sent: so long the slot of the registry is given to  *)
(* nobody else, whoever comes and goes meanwhile.  Once its letter is sent *)
(* a visitor may be gone before its guide forgets it.                      *)
THEOREM EntrancePointersValid == Spec => []PointersValid
<1>1. TypesAndOrder => PointersValid
  <2> SUFFICES ASSUME TypeOK, SentKept, Order, NEW g \in Guides, NEW i \in Unsent(g)
               PROVE  \E v \in Visitors : visitors_data[group[g][i]] = {v} /\ visitor[v] = "following"
    BY DEF TypesAndOrder, PointersValid
  <2>1. group[g][i] \in Elems(ToSend[g])
    BY UnsentIsToSend DEF Elems
  <2>2. PICK v \in In("following") : visitors_data[group[g][i]] = {v}
    BY <2>1 DEF Order, GroupsKept
  <2> QED BY <2>2 DEF In
<1> QED BY <1>1, TypesAndOrderHold, PTL

----------------------------------------------------------------------------
(* Nobody is lost *)

LEMMA CountIn ==
    ASSUME NEW S, NEW q \in Seq(S), Distinct(q), NEW v
    PROVE  Cardinality(InQueue(v, q)) = IF v \in Elems(q) THEN 1 ELSE 0
<1>1. CASE v \in Elems(q)
  <2>1. PICK i \in DOMAIN q : q[i] = v
    BY <1>1 DEF Elems
  <2>2. InQueue(v, q) = {i}
    BY <2>1 DEF InQueue, Distinct
  <2>3. Cardinality({i}) = 1
    BY FS_Singleton
  <2> QED BY <1>1, <2>2, <2>3
<1>2. CASE v \notin Elems(q)
  <2>1. InQueue(v, q) = {}
    BY <1>2 DEF InQueue, Elems
  <2>2. Cardinality({}) = 0
    BY FS_EmptySet
  <2> QED BY <1>2, <2>1, <2>2
<1> QED BY <1>1, <1>2

LEMMA CountHeld ==
    ASSUME TicketsKept, NEW v \in Visitors
    PROVE  Cardinality({g \in Guides : v \in held[g]}) = IF v \in Held THEN 1 ELSE 0
<1>1. CASE v \in Held
  <2>1. PICK g \in Guides : v \in held[g]
    BY <1>1 DEF Held
  <2>2. {h \in Guides : v \in held[h]} = {g}
    BY <2>1 DEF TicketsKept
  <2>3. Cardinality({g}) = 1
    BY FS_Singleton
  <2> QED BY <1>1, <2>2, <2>3
<1>2. CASE v \notin Held
  <2>1. {h \in Guides : v \in held[h]} = {}
    BY <1>2 DEF Held
  <2>2. Cardinality({}) = 0
    BY FS_EmptySet
  <2> QED BY <1>2, <2>1, <2>2
<1> QED BY <1>1, <1>2

Pointers(v) == UNION {{g} \X InGroup(v, g) : g \in Guides}

LEMMA CountPointers ==
    ASSUME TypeOK, SentKept, RegistryKept, GroupsKept, NEW v \in Visitors
    PROVE  Cardinality(Pointers(v)) = IF v \in In("following") THEN 1 ELSE 0
<1>0. \A g \in Guides : \A i \in Unsent(g) :
         group[g][i] \in Elems(ToSend[g]) /\ group[g][i] \in Registry
  <2>1. \A g \in Guides : Elems(ToSend[g]) \subseteq Registry
    BY ToSendType, ElemsType
  <2>2. \A g \in Guides : \A i \in Unsent(g) : group[g][i] \in Elems(ToSend[g])
    BY UnsentIsToSend DEF Elems
  <2> QED BY <2>1, <2>2
<1>1. CASE v \in In("following")
  <2>1. PICK g \in Guides : \E j \in Elems(ToSend[g]) : visitors_data[j] = {v}
    BY <1>1 DEF GroupsKept
  <2>2. PICK i \in Unsent(g) : visitors_data[group[g][i]] = {v}
    <3>1. PICK k \in DOMAIN ToSend[g] : visitors_data[ToSend[g][k]] = {v}
      BY <2>1 DEF Elems
    <3>2. sent[g] + k \in Unsent(g) /\ group[g][sent[g] + k] = ToSend[g][k]
      BY UnsentIsToSend
    <3> QED BY <3>1, <3>2
  <2>3. ASSUME NEW h \in Guides, NEW k \in Unsent(h), visitors_data[group[h][k]] = {v}
        PROVE  h = g /\ k = i
    <3>1. group[h][k] = group[g][i]
      BY <1>0, <2>2, <2>3 DEF RegistryKept
    <3>2. h = g
      BY <1>0, <3>1 DEF GroupsKept
    <3>3. k - sent[g] = i - sent[g]
      <4>1. /\ k - sent[g] \in DOMAIN ToSend[g] /\ i - sent[g] \in DOMAIN ToSend[g]
            /\ ToSend[g][k - sent[g]] = ToSend[g][i - sent[g]]
        BY <3>1, <3>2, UnsentIsToSend
      <4> QED BY <4>1 DEF GroupsKept, Distinct
    <3>4. k \in Int /\ i \in Int /\ sent[g] \in Int
      <4>1. DOMAIN group[g] \subseteq Int /\ sent[g] \in Int
        BY DEF TypeOK
      <4>2. k \in DOMAIN group[g] /\ i \in DOMAIN group[g]
        BY <3>2 DEF Unsent
      <4> QED BY <4>1, <4>2
    <3> QED BY <3>2, <3>3, <3>4
  <2>4. Pointers(v) = {<< g, i >>}
    <3>1. << g, i >> \in Pointers(v)
      BY <2>2 DEF Pointers, InGroup
    <3>2. \A x \in Pointers(v) : x = << g, i >>
      BY <2>3 DEF Pointers, InGroup
    <3> QED BY <3>1, <3>2
  <2>5. Cardinality({<< g, i >>}) = 1
    BY FS_Singleton
  <2> QED BY <1>1, <2>4, <2>5
<1>2. CASE v \notin In("following")
  <2>1. \A g \in Guides : InGroup(v, g) = {}
    <3> SUFFICES ASSUME NEW g \in Guides, NEW i \in Unsent(g), visitors_data[group[g][i]] = {v}
                 PROVE  FALSE
      BY DEF InGroup
    <3>1. PICK w \in In("following") : visitors_data[group[g][i]] = {w}
      BY <1>0 DEF GroupsKept
    <3> QED BY <1>2, <3>1
  <2>2. Pointers(v) = {}
    BY <2>1 DEF Pointers
  <2>3. Cardinality({}) = 0
    BY FS_EmptySet
  <2> QED BY <1>2, <2>2, <2>3
<1> QED BY <1>1, <1>2

(* A visitor with a ticket is never forgotten and never counted twice, in  *)
(* whatever order it is sold a ticket, taken, put back, flushed and sent   *)
(* home, for any number of visitors and guides.                            *)
THEOREM EntranceLosesNobody == Spec => []NobodyLost
<1>1. TypesAndOrder => NobodyLost
  <2> SUFFICES ASSUME TypeOK, SentKept, Order, NEW v \in Visitors,
                      visitor[v] \in {"admitted", "following", "lettered"}
               PROVE  Cardinality(InQueue(v, tickets)) + Cardinality(InQueue(v, letters))
                        + Cardinality({g \in Guides : v \in held[g]})
                        + Cardinality(UNION {{g} \X InGroup(v, g) : g \in Guides})
                        + (IF v \in current THEN 1 ELSE 0) = 1
    BY DEF TypesAndOrder, NobodyLost
  <2>1. Cardinality(InQueue(v, tickets)) = IF v \in Elems(tickets) THEN 1 ELSE 0
    BY CountIn DEF TypeOK, Order, TicketsKept
  <2>2. Cardinality(InQueue(v, letters)) = IF v \in Elems(letters) THEN 1 ELSE 0
    BY CountIn DEF TypeOK, Order, LettersKept
  <2>3. Cardinality({g \in Guides : v \in held[g]}) = IF v \in Held THEN 1 ELSE 0
    BY CountHeld DEF Order
  <2>4. Cardinality(UNION {{g} \X InGroup(v, g) : g \in Guides}) =
          IF v \in In("following") THEN 1 ELSE 0
    <3>1. Cardinality(Pointers(v)) = IF v \in In("following") THEN 1 ELSE 0
      BY CountPointers DEF Order
    <3> QED BY <3>1 DEF Pointers
  <2>5. v \in current <=> v \in AtDesk
    BY DEF Order, DeskKept, AtDesk
  <2>6. CASE visitor[v] = "admitted"
    <3>1. v \in In("admitted") /\ v \notin In("following") /\ v \notin In("lettered")
      BY <2>6 DEF In
    <3>2. /\ v \notin Elems(letters)
          /\ v \in Elems(tickets) \union Held \union AtDesk
          /\ v \notin Elems(tickets) \intersect Held
          /\ v \notin Elems(tickets) \intersect AtDesk
          /\ v \notin Held \intersect AtDesk
      BY <3>1 DEF Order, LettersKept, TicketsKept
    <3> QED BY <2>1, <2>2, <2>3, <2>4, <2>5, <3>1, <3>2
  <2>7. CASE visitor[v] \in {"following", "lettered"}
    <3>1. v \notin In("admitted") /\ (v \in In("following") <=> v \notin In("lettered"))
      BY <2>7 DEF In
    <3>2. /\ v \in Elems(letters) <=> v \in In("lettered")
          /\ v \notin Elems(tickets) /\ v \notin Held /\ v \notin AtDesk
      BY <3>1 DEF Order, LettersKept, TicketsKept
    <3> QED BY <2>1, <2>2, <2>3, <2>4, <2>5, <3>1, <3>2
  <2> QED BY <2>6, <2>7
<1> QED BY <1>1, TypesAndOrderHold, PTL
=============================================================================
