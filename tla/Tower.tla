------------------------------- MODULE Tower -------------------------------
(***************************************************************************)
(* The observation tower: guide.c GS_AT_TOWER, visitor.c VS_AT_TOWER_QUEUE *)
(* to VS_GOING_DOWN_TOWER, and the signals that call a group down.         *)
(*                                                                         *)
(* A visitor's status is written by its guide and by the visitor itself,   *)
(* which reads it at the top of operate() ("reading") and acts on what it  *)
(* read.  The sections of MUTEX_TOWER contain no other wait and nobody is  *)
(* killed here, so each is one step.  The next attraction of the tour is   *)
(* the bridge, as far as check-ins and the status tell it.                 *)
(***************************************************************************)
EXTENDS Integers, Sequences, FiniteSets

CONSTANTS Guides,       \* the guide processes
          VIPs,         \* the VIP visitor processes, who do not queue
          Members,      \* the regular visitor processes
          GuideOf,      \* GuideOf[m]: asigned_guide of m
          Family,       \* Family[x]: visitor x and its kids
          Allowed,      \* the members with tower_allowed
          TowerLimit,   \* TOWER_LIMIT
          Capacity,     \* VISITORS_LIMIT, the capacity of the queue
          Commands,     \* bound: how many times a guide is told to leave
          Nights        \* bound: how many rounds of the cashier there are

Visitors == Members \union VIPs
Group(g) == {m \in Members : GuideOf[m] = g}
Seats(x) == Cardinality(Family[x])

ASSUME TowerConstants ==
    /\ IsFiniteSet(Guides) /\ IsFiniteSet(Visitors) /\ IsFiniteSet(UNION {Family[x] : x \in Visitors})
    /\ Guides \intersect Visitors = {} /\ VIPs \intersect Members = {}
    /\ GuideOf \in [Members -> Guides]
    /\ DOMAIN Family = Visitors
    /\ \A x \in Visitors : x \in Family[x]
    /\ \A x, y \in Visitors : x # y => Family[x] \intersect Family[y] = {}
    /\ Allowed \subseteq Members
    /\ TowerLimit \in Nat /\ Capacity \in Nat \ {0} /\ Commands \in Nat /\ Nights \in Nat

VARIABLES
    pc,           \* where each process is in its code
    status,       \* visitor_data_t.status
    wake,         \* members with SIG_WAKE_UP pending
    tower_queue,
    sem,          \* the value of SEM_TOWER
    inbox,        \* inbox[m]: check-ins of m in the guides' message queue
    checkins,     \* visitors_checkins of the guides
    told,         \* members with leave_tower or leave_park set
    signals,      \* members with SIG_LEAVE_TOWER or SIG_LEAVE_PARK on its way
    leave_park,   \* guides whose leave_park is set
    commands,     \* how many commands have been given
    nights        \* how many rounds of the cashier there have been

tourVars == << inbox, checkins >>
callVars == << told, signals, leave_park, commands, nights >>
vars == << pc, status, wake, tower_queue, sem, tourVars, callVars >>

AtRest == {"reading", "waiting"}
InLine == {"joined", "queued", "asleep", "awake", "popping"}
Aloft == {"up", "watching", "descending"}
VisitorStates == AtRest \union InLine \union Aloft \union
    {"excused", "queueing", "climbing", "reporting", "quitting", "crossing", "elsewhere"}
GuideStates == {"home", "at tower", "moving", "at bridge"}
Statuses == {"FOLLOWING_GUIDE", "AT_TOWER_QUEUE", "GOING_UP_TOWER", "AT_TOWER",
             "GOING_DOWN_TOWER", "AT_BRIDGE"}

TypeOK ==
    /\ pc \in [Guides \union Visitors -> GuideStates \union VisitorStates]
    /\ \A g \in Guides : pc[g] \in GuideStates
    /\ \A x \in Visitors : pc[x] \in VisitorStates
    /\ status \in [Visitors -> Statuses]
    /\ wake \subseteq Members
    /\ tower_queue \in Seq(Members)
    /\ sem \in Nat
    /\ inbox \in [Members -> Nat]
    /\ checkins \in [Guides -> Nat]
    /\ told \subseteq Members /\ signals \subseteq Members /\ leave_park \subseteq Guides
    /\ commands \in 0 .. Commands /\ nights \in 0 .. Nights

Init ==
    /\ pc = [p \in Guides \union Visitors |->
                IF p \in Guides THEN "home" ELSE IF p \in VIPs THEN "elsewhere" ELSE "reading"]
    /\ status = [x \in Visitors |-> "FOLLOWING_GUIDE"]
    /\ wake = {}
    /\ tower_queue = << >>
    /\ sem = TowerLimit
    /\ inbox = [m \in Members |-> 0]
    /\ checkins = [g \in Guides |-> 0]
    /\ told = {} /\ signals = {} /\ leave_park = {}
    /\ commands = 0 /\ nights = 0

Goto(p, label) == pc' = [pc EXCEPT ![p] = label]
Write(x, s) == status' = [status EXCEPT ![x] = s]
First(q) == IF q = << >> THEN {} ELSE {Head(q)}

----------------------------------------------------------------------------
(* Visitors *)

(* The top of operate(): what the visitor does is decided here, whatever   *)
(* is written to its status afterwards.  A visitor that follows its guide  *)
(* clears leave_tower and leave_park before it waits.                      *)
Read(x) ==
    /\ pc[x] = "reading"
    /\ told' = IF status[x] = "FOLLOWING_GUIDE" THEN told \ {x} ELSE told
    /\ Goto(x, CASE status[x] = "FOLLOWING_GUIDE" -> "waiting"
                 [] status[x] = "AT_TOWER_QUEUE" -> IF x \in Allowed THEN "queueing" ELSE "excused"
                 [] status[x] = "GOING_UP_TOWER" -> "climbing"
                 [] status[x] = "AT_TOWER" -> "watching"
                 [] status[x] = "GOING_DOWN_TOWER" -> "descending"
                 [] status[x] = "AT_BRIDGE" -> "crossing")
    /\ UNCHANGED << status, wake, tower_queue, sem, tourVars, signals, leave_park, commands, nights >>

WakeUp(m) ==
    /\ m \in wake
    /\ wake' = wake \ {m}
    /\ \/ pc[m] = "waiting" /\ Goto(m, "reading")
       \/ pc[m] = "asleep" /\ Goto(m, "awake")
    /\ UNCHANGED << status, tower_queue, sem, tourVars, callVars >>

Join(m) ==
    /\ pc[m] = "queueing"
    /\ tower_queue' = IF Len(tower_queue) < Capacity THEN Append(tower_queue, m) ELSE tower_queue
    /\ Goto(m, "joined")
    /\ UNCHANGED << status, wake, sem, tourVars, callVars >>

(* ringbuffer_contains, then ringbuffer_erase: the first entry of m goes. *)
Erase(m) ==
    LET entries == {i \in DOMAIN tower_queue : tower_queue[i] = m}
    IN  \/ entries = {} /\ UNCHANGED tower_queue
        \/ \E i \in entries :
              /\ \A j \in entries : i <= j
              /\ tower_queue' = [j \in 1 .. Len(tower_queue) - 1 |->
                                    IF j < i THEN tower_queue[j] ELSE tower_queue[j + 1]]

(* Called down before the first look at the queue. *)
Joined(m) ==
    /\ pc[m] = "joined"
    /\ \/ m \in told /\ Erase(m) /\ Write(m, "FOLLOWING_GUIDE") /\ Goto(m, "reporting")
       \/ m \notin told /\ Goto(m, "queued") /\ UNCHANGED << tower_queue, status >>
    /\ UNCHANGED << wake, sem, tourVars, callVars >>

(* check_if_first_secure.  With an empty queue first_element is never      *)
(* written; it holds the process id of some earlier call.                  *)
CheckFirst(m) ==
    /\ pc[m] = "queued"
    /\ \E first \in IF tower_queue = << >> THEN Members ELSE First(tower_queue) :
          IF first = m THEN Goto(m, "popping") /\ UNCHANGED wake
                       ELSE Goto(m, "asleep") /\ wake' = wake \union {first}
    /\ UNCHANGED << status, tower_queue, sem, tourVars, callVars >>

(* Called down while asleep: the break after the check-in leaves the       *)
(* waiting loop only, so the member goes on as if it were first in line.   *)
Awake(m) ==
    /\ pc[m] = "awake"
    /\ \/ m \in told /\ Erase(m) /\ Write(m, "FOLLOWING_GUIDE") /\ Goto(m, "quitting")
       \/ m \notin told /\ Goto(m, "queued") /\ UNCHANGED << tower_queue, status >>
    /\ UNCHANGED << wake, sem, tourVars, callVars >>

(* Mutant: the new first in line is not woken. *)
PopWakesNobody(m) ==
    /\ pc[m] = "popping"
    /\ tower_queue' = IF tower_queue = << >> THEN tower_queue ELSE Tail(tower_queue)
    /\ Write(m, "GOING_UP_TOWER")
    /\ Goto(m, "reading")
    /\ UNCHANGED << wake, sem, tourVars, callVars >>

(* Mutant: the entry stays in the queue. *)
PopNothing(m) ==
    /\ pc[m] = "popping"
    /\ wake' = wake \union First(tower_queue)
    /\ Write(m, "GOING_UP_TOWER")
    /\ Goto(m, "reading")
    /\ UNCHANGED << tower_queue, sem, tourVars, callVars >>

Pop(m) ==
    /\ pc[m] = "popping"
    /\ tower_queue' = IF tower_queue = << >> THEN tower_queue ELSE Tail(tower_queue)
    /\ wake' = wake \union First(tower_queue')
    /\ Write(m, "GOING_UP_TOWER")
    /\ Goto(m, "reading")
    /\ UNCHANGED << sem, tourVars, callVars >>

(* Mutant: a visitor takes one place, whatever the kids. *)
ClimbAlone(x) ==
    /\ pc[x] = "climbing"
    /\ sem >= 1 /\ sem' = sem - 1
    /\ Goto(x, "up")
    /\ UNCHANGED << status, wake, tower_queue, tourVars, callVars >>

(* Mutant: the places are taken without waiting for them. *)
ClimbAtOnce(x) ==
    /\ pc[x] = "climbing"
    /\ sem' = sem - Seats(x)
    /\ Goto(x, "up")
    /\ UNCHANGED << status, wake, tower_queue, tourVars, callVars >>

Climb(x) ==
    /\ pc[x] = "climbing"
    /\ sem >= Seats(x) /\ sem' = sem - Seats(x)
    /\ Goto(x, "up")
    /\ UNCHANGED << status, wake, tower_queue, tourVars, callVars >>

(* The way up, and then the view, come to an end. *)
Arrive(x) ==
    /\ pc[x] \in {"up", "watching"}
    /\ Write(x, IF pc[x] = "up" THEN "AT_TOWER" ELSE "GOING_DOWN_TOWER")
    /\ Goto(x, "reading")
    /\ UNCHANGED << wake, tower_queue, sem, tourVars, callVars >>

(* Mutant: the places are not given back. *)
DescendKeepsSeats(x) ==
    /\ pc[x] = "descending"
    /\ IF x \in VIPs THEN Goto(x, "elsewhere") /\ UNCHANGED status
                     ELSE Goto(x, "reporting") /\ Write(x, "FOLLOWING_GUIDE")
    /\ UNCHANGED << wake, tower_queue, sem, tourVars, callVars >>

Descend(x) ==
    /\ pc[x] = "descending"
    /\ sem' = sem + Seats(x)
    /\ IF x \in VIPs THEN Goto(x, "elsewhere") /\ UNCHANGED status
                     ELSE Goto(x, "reporting") /\ Write(x, "FOLLOWING_GUIDE")
    /\ UNCHANGED << wake, tower_queue, tourVars, callVars >>

(* Not allowed up the tower, or across the bridge. *)
Return(m) ==
    /\ pc[m] \in {"excused", "crossing"}
    /\ Write(m, "FOLLOWING_GUIDE")
    /\ Goto(m, "reporting")
    /\ UNCHANGED << wake, tower_queue, sem, tourVars, callVars >>

(* Mutant: a check-in may be sent again. *)
CheckInTwice(m) ==
    /\ pc[m] \in {"reporting", "quitting"}
    /\ inbox' = [inbox EXCEPT ![m] = @ + 1]
    /\ \/ Goto(m, IF pc[m] = "reporting" THEN "reading" ELSE "popping")
       \/ inbox[m] = 0 /\ UNCHANGED pc
    /\ UNCHANGED << status, wake, tower_queue, sem, checkins, callVars >>

CheckIn(m) ==
    /\ pc[m] \in {"reporting", "quitting"}
    /\ inbox' = [inbox EXCEPT ![m] = @ + 1]
    /\ Goto(m, IF pc[m] = "reporting" THEN "reading" ELSE "popping")
    /\ UNCHANGED << status, wake, tower_queue, sem, checkins, callVars >>

(* A VIP comes from the bridge or the ferry and goes up without queueing. *)
VipArrive(v) ==
    /\ pc[v] = "elsewhere"
    /\ Write(v, "GOING_UP_TOWER")
    /\ Goto(v, "reading")
    /\ UNCHANGED << wake, tower_queue, sem, tourVars, callVars >>

----------------------------------------------------------------------------
(* Guides *)

(* The status of each member is written and the member woken. *)
Send(g, s) ==
    /\ status' = [x \in Visitors |-> IF x \in Group(g) THEN s ELSE status[x]]
    /\ wake' = wake \union Group(g)

Home(m) == pc[m] \in AtRest /\ status[m] = "FOLLOWING_GUIDE" /\ inbox[m] = 0

(* A guide comes to the tower with a new group: new processes under the    *)
(* names of the old ones, which have to be home by then.                   *)
GuideArrive(g) ==
    /\ pc[g] = "home"
    /\ \A m \in Group(g) : Home(m)
    /\ Send(g, "AT_TOWER_QUEUE")
    /\ pc' = [p \in Guides \union Visitors |->
                 IF p = g THEN "at tower" ELSE IF p \in Group(g) THEN "reading" ELSE pc[p]]
    /\ checkins' = [checkins EXCEPT ![g] = 0]
    /\ told' = told \ Group(g) /\ signals' = signals \ Group(g)
    /\ leave_park' = leave_park \ {g}
    /\ UNCHANGED << tower_queue, sem, inbox, commands, nights >>

visitors_in_group(g) == Cardinality(UNION {Family[m] : m \in Group(g)})

GuideCount(g) ==
    /\ pc[g] \in {"at tower", "at bridge"}
    /\ checkins[g] < visitors_in_group(g)
    /\ \E m \in Group(g) :
          /\ inbox[m] > 0
          /\ inbox' = [inbox EXCEPT ![m] = @ - 1]
          /\ checkins' = [checkins EXCEPT ![g] = @ + Seats(m)]
    /\ UNCHANGED << pc, status, wake, tower_queue, sem, callVars >>

(* Mutant: the guide waits for all but one. *)
GuideLeaveTowerEarly(g) ==
    /\ pc[g] = "at tower"
    /\ checkins[g] + 1 >= visitors_in_group(g)
    /\ Goto(g, IF g \in leave_park THEN "home" ELSE "moving")
    /\ UNCHANGED << status, wake, tower_queue, sem, tourVars, callVars >>

GuideLeaveTower(g) ==
    /\ pc[g] = "at tower"
    /\ checkins[g] >= visitors_in_group(g)
    /\ Goto(g, IF g \in leave_park THEN "home" ELSE "moving")
    /\ UNCHANGED << status, wake, tower_queue, sem, tourVars, callVars >>

(* The next attraction begins, and ends when everybody has checked in. *)
GuideNext(g) ==
    /\ pc[g] = "moving"
    /\ Send(g, "AT_BRIDGE")
    /\ checkins' = [checkins EXCEPT ![g] = 0]
    /\ Goto(g, "at bridge")
    /\ UNCHANGED << tower_queue, sem, inbox, callVars >>

GuideLeaveNext(g) ==
    /\ pc[g] = "at bridge"
    /\ checkins[g] >= visitors_in_group(g)
    /\ Goto(g, "home")
    /\ UNCHANGED << status, wake, tower_queue, sem, tourVars, callVars >>

----------------------------------------------------------------------------
(* Called down *)

(* handle_leave_tower passes the operator's signal on to the group, and    *)
(* handle_leave_park, at nightfall, the cashier's.                         *)
GuideTold(g) ==
    /\ pc[g] # "home"
    /\ commands < Commands /\ commands' = commands + 1
    /\ signals' = signals \union Group(g)
    /\ leave_park' \in {leave_park, leave_park \union {g}}
    /\ UNCHANGED << pc, status, wake, tower_queue, sem, tourVars, told, nights >>

(* The signal arrives.  A visitor inside sigwaitinfo returns from it, one  *)
(* that has not entered it yet does not notice.                            *)
MemberTold(m) ==
    /\ m \in signals
    /\ signals' = signals \ {m}
    /\ told' = told \union {m}
    /\ \/ pc[m] = "asleep" /\ Goto(m, "awake")
       \/ pc[m] = "waiting" /\ Goto(m, "reading")
       \/ UNCHANGED pc
    /\ UNCHANGED << status, wake, tower_queue, sem, tourVars, leave_park, commands, nights >>

(* The cashier's round at nightfall wakes every visitor. *)
Round ==
    /\ nights < Nights /\ nights' = nights + 1
    /\ wake' = wake \union Members
    /\ UNCHANGED << pc, status, tower_queue, sem, tourVars, told, signals, leave_park, commands >>

----------------------------------------------------------------------------
GuideStep(g) == GuideCount(g) \/ GuideLeaveTower(g) \/ GuideNext(g) \/ GuideLeaveNext(g)

MemberStep(m) ==
    \/ Read(m) \/ WakeUp(m) \/ Join(m) \/ Joined(m) \/ CheckFirst(m) \/ Awake(m) \/ Pop(m)
    \/ Climb(m) \/ Arrive(m) \/ Descend(m) \/ Return(m) \/ CheckIn(m)

VipStep(v) == Read(v) \/ Climb(v) \/ Arrive(v) \/ Descend(v)

Arrivals == (\E g \in Guides : GuideArrive(g)) \/ (\E v \in VIPs : VipArrive(v))

Calls == (\E g \in Guides : GuideTold(g)) \/ (\E m \in Members : MemberTold(m)) \/ Round

Next ==
    \/ \E g \in Guides : GuideStep(g)
    \/ \E m \in Members : MemberStep(m)
    \/ \E v \in VIPs : VipStep(v)
    \/ Arrivals
    \/ Calls

(* Every process is scheduled; nothing says that parties keep arriving.    *)
Fairness ==
    /\ \A g \in Guides : WF_vars(GuideStep(g))
    /\ \A m \in Members : WF_vars(MemberStep(m))
    /\ \A v \in VIPs : WF_vars(VipStep(v))

Spec == Init /\ [][Next]_vars
FairSpec == Spec /\ Fairness

----------------------------------------------------------------------------
(* Properties *)

(* On the tower: on the way up, at the top, on the way down, or between    *)
(* two of them.                                                            *)
OnTower ==
    {x \in Visitors : \/ pc[x] \in Aloft
                      \/ pc[x] = "reading" /\ status[x] \in {"AT_TOWER", "GOING_DOWN_TOWER"}}

(* config.h: TOWER_LIMIT is the limit of people allowed on the tower at    *)
(* once, kids counted, whoever is called down and whenever.                *)
WithinTowerLimit == Cardinality(UNION {Family[x] : x \in OnTower}) <= TowerLimit

(* A place that is taken has somebody on it. *)
NoPlaceLost == sem + Cardinality(UNION {Family[x] : x \in OnTower}) = TowerLimit

(* A guide stays at the tower while a member of its group queues, climbs,  *)
(* watches or comes down.                                                  *)
GuideWaits ==
    \A m \in Members :
        m \in OnTower \/ pc[m] \in InLine \union {"climbing", "quitting"} =>
            pc[GuideOf[m]] = "at tower"

(* Each member checks in once, for itself and its kids, and the guide      *)
(* counts it once: what it has counted are the people of those that are    *)
(* back and whose check-in is no longer in the message queue.              *)
CheckedInOnce ==
    \A g \in Guides : pc[g] = "at tower" =>
        /\ \A m \in Group(g) : inbox[m] <= 1
        /\ checkins[g] = Cardinality(UNION {Family[m] : m \in {n \in Group(g) : Home(n)}})

(* The queue holds exactly the members that wait in it, once each.         *)
QueueHonest ==
    /\ {tower_queue[i] : i \in DOMAIN tower_queue} = {m \in Members : pc[m] \in InLine}
    /\ \A i, j \in DOMAIN tower_queue : tower_queue[i] = tower_queue[j] => i = j

(* The first in line never sleeps without a wake-up pending.               *)
NoLostWakeup == \A m \in First(tower_queue) : pc[m] = "asleep" => m \in wake

(* Once parties stop arriving, everybody comes down and goes home.         *)
Drains == []<><< Arrivals >>_vars \/ <>[](\A g \in Guides : pc[g] = "home")
=============================================================================
