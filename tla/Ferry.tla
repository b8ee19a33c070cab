------------------------------- MODULE Ferry -------------------------------
(***************************************************************************)
(* The ferry: guide.c GS_AT_FERRY with try_board_ferry, visitor.c          *)
(* VS_AT_FERRY_BOARDING and VS_AWAITING_FERRY_START of VIPs and of group   *)
(* members with try_board_ferry_vip, and the cashier's round at nightfall. *)
(*                                                                         *)
(* The party that takes the first seat is the captain: it waits for the    *)
(* others in its line, sails and wakes the passengers.  The sections of    *)
(* MUTEX_FERRY block on nothing (SEM_FERRY is looked at before it is       *)
(* taken, the voyage is slept through with the mutex), so each is one      *)
(* step.  Nobody is killed here.                                           *)
(***************************************************************************)
EXTENDS Integers, Sequences, FiniteSets

CONSTANTS Guides,       \* the guide processes
          VIPs,         \* the VIP visitor processes
          Members,      \* the regular visitor processes
          GuideOf,      \* GuideOf[m]: asigned_guide of m
          Family,       \* Family[m]: m and the kids with it
          FerryLimit,   \* FERRY_LIMIT
          Capacity,     \* VISITORS_LIMIT, the capacity of the queues
          Evenings,     \* bound: how many evenings are looked at, 0 or 1
          Visits        \* bound: how many parties come, or 0 for no bound

Parties == Guides \union VIPs
Processes == Parties \union Members
Group(p) == {m \in Members : GuideOf[m] = p}
Visitors(p) == UNION {Family[m] : m \in Group(p)}
visitors_in_group(p) == Cardinality(Visitors(p))
Places(p) == 1 + visitors_in_group(p)

ASSUME FerryConstants ==
    /\ IsFiniteSet(Guides) /\ IsFiniteSet(VIPs) /\ IsFiniteSet(Members)
    /\ Guides \intersect VIPs = {} /\ Parties \intersect Members = {}
    /\ GuideOf \in [Members -> Guides]
    /\ DOMAIN Family = Members /\ IsFiniteSet(UNION {Family[m] : m \in Members})
    /\ \A m \in Members : m \in Family[m] /\ Family[m] \intersect Parties = {}
    /\ \A m, n \in Members : m # n => Family[m] \intersect Family[n] = {}
    /\ FerryLimit \in Nat /\ Capacity \in Nat \ {0} /\ Evenings \in {0, 1} /\ Visits \in Nat
    /\ \A p \in Parties : Places(p) <= FerryLimit

VARIABLES
    pc,                \* where each process is in its code
    track,             \* clockwise_track, vip_clockwise_track
    wake,              \* processes with SIG_WAKE_UP pending
    status,            \* visitor_data_t.status of the members
    inbox,             \* inbox[m]: check-ins of m in the guides' message queue
    checkins,          \* visitors_checkins of the guides
    queue,             \* the four queues: of VIPs (TRUE) or guides, and by direction
    ferry_side,        \* the shore the ferry is at
    ferry_seats,       \* parties that took a seat; the first stays after a voyage
    ferry_seats_taken,
    ferry_leader,      \* parties whose flag ferry_leader is set
    sem,               \* the value of SEM_FERRY
    leave_park,        \* guides whose leave_park is set
    signals,           \* members with SIG_LEAVE_PARK on its way
    phase,             \* "day", "night" (the cashier makes its round), "closed"
    untold,            \* guides the cashier has not yet told of the night
    visits             \* how many parties have come, if that is bounded

groupVars == << status, inbox, checkins >>
ferryVars == << ferry_side, ferry_seats, ferry_seats_taken, ferry_leader, sem >>
nightVars == << leave_park, signals, phase, untold >>
vars == << pc, track, wake, groupVars, queue, ferryVars, nightVars, visits >>

Asleep == {"asleep1", "asleep2", "asleep3", "asleep4", "waiting", "seated"}
Lined == {"queued", "asleep1", "awake1", "trying", "asleep2", "awake2"}
Boarding == {"popping", "boarding", "asleep3", "sailing"}
Aboard == Boarding \union {"asleep4", "landed", "gathering"}
PartyStates == {"elsewhere", "released"} \union Lined \union Aboard
MemberStates == {"reading", "waiting", "seated", "landing"}
Lines == BOOLEAN \X BOOLEAN

TypeOK ==
    /\ pc \in [Processes -> PartyStates \union MemberStates]
    /\ \A p \in Parties : pc[p] \in PartyStates
    /\ \A m \in Members : pc[m] \in MemberStates
    /\ track \in [Parties -> BOOLEAN]
    /\ wake \subseteq Processes
    /\ status \in [Members -> {"FOLLOWING_GUIDE", "AT_FERRY_BOARDING", "AWAITING_FERRY_START"}]
    /\ inbox \in [Members -> Nat] /\ checkins \in [Guides -> Nat]
    /\ queue \in [Lines -> Seq(Parties)]
    /\ ferry_side \in BOOLEAN /\ ferry_seats \in Seq(Parties) /\ ferry_seats_taken \in Nat
    /\ ferry_leader \subseteq Parties /\ sem \in Nat
    /\ leave_park \subseteq Guides /\ signals \subseteq Members
    /\ phase \in {"day", "night", "closed"} /\ untold \subseteq Guides /\ visits \in Nat

Init ==
    /\ pc = [p \in Processes |-> IF p \in Members THEN "reading" ELSE "elsewhere"]
    /\ track = [p \in Parties |-> TRUE]
    /\ wake = {}
    /\ status = [m \in Members |-> "FOLLOWING_GUIDE"]
    /\ inbox = [m \in Members |-> 0] /\ checkins = [g \in Guides |-> 0]
    /\ queue = [l \in Lines |-> << >>]
    /\ ferry_side = TRUE /\ ferry_seats = << >> /\ ferry_seats_taken = 0
    /\ ferry_leader = {} /\ sem = FerryLimit
    /\ leave_park = {} /\ signals = {} /\ phase = "day" /\ untold = {} /\ visits = 0

Goto(p, label) == pc' = [pc EXCEPT ![p] = label]
First(q) == IF q = << >> THEN {} ELSE {Head(q)}
Line(p) == << p \in VIPs, track[p] >>

(* Whom a party that goes wakes on one shore: VIPs come before guides.     *)
NextInLine(q, d) ==
    IF q[<< TRUE, d >>] # << >> THEN First(q[<< TRUE, d >>]) ELSE First(q[<< FALSE, d >>])

(* A guide goes by its flag, a VIP by the clock. *)
Called(p) == p \in leave_park \/ (p \in VIPs /\ phase # "day")

(* sigwaitinfo returns. *)
Woken(label) ==
    CASE label = "asleep1" -> "awake1"
      [] label = "asleep2" -> "awake2"
      [] label = "asleep3" -> "sailing"
      [] label = "asleep4" -> "landed"
      [] label = "waiting" -> "reading"
      [] label = "seated" -> "landing"

WakeUp(p) ==
    /\ pc[p] \in Asleep /\ p \in wake
    /\ wake' = wake \ {p}
    /\ Goto(p, Woken(pc[p]))
    /\ UNCHANGED << track, groupVars, queue, ferryVars, nightVars, visits >>

----------------------------------------------------------------------------
(* The queues, for guides and VIPs *)

(* The party comes from its last attraction, the members with it, in some  *)
(* direction and with the wake-ups nobody has waited for yet, and joins    *)
(* its line; one that is called goes on to the cash at once.               *)
(* ringbuffer_push_back refuses an element when the buffer is full.        *)
Arrive(p, d) ==
    /\ pc[p] = "elsewhere" /\ ~Called(p)
    /\ IF Visits = 0 THEN UNCHANGED visits ELSE visits < Visits /\ visits' = visits + 1
    /\ track' = [track EXCEPT ![p] = d]
    /\ \E stale \in SUBSET ({p} \union Group(p)) :
          wake' = (wake \ ({p} \union Group(p))) \union stale
    /\ queue' = [queue EXCEPT ![<< p \in VIPs, d >>] = IF Len(@) < Capacity THEN Append(@, p) ELSE @]
    /\ Goto(p, "queued")
    /\ UNCHANGED << groupVars, ferryVars, nightVars >>

(* check_if_first_secure, with first_element unwritten when the queue is   *)
(* empty.  A guide that is first and told to leave goes and leaves its     *)
(* entry behind.                                                           *)
CheckFirst(p) ==
    /\ pc[p] = "queued"
    /\ \E first \in IF queue[Line(p)] = << >> THEN Parties ELSE First(queue[Line(p)]) :
          \/ /\ first = p
             /\ Goto(p, IF p \in leave_park THEN "elsewhere" ELSE "trying")
             /\ UNCHANGED wake
          \/ first # p /\ wake' = wake \union {first} /\ Goto(p, "asleep1")
    /\ UNCHANGED << track, groupVars, queue, ferryVars, nightVars, visits >>

(* ringbuffer_contains, then ringbuffer_erase: the first entry of p goes. *)
Erase(p) ==
    LET q == queue[Line(p)]
        entries == {i \in DOMAIN q : q[i] = p}
    IN  \/ entries = {} /\ UNCHANGED queue
        \/ \E i \in entries :
              /\ \A j \in entries : i <= j
              /\ queue' = [queue EXCEPT ![Line(p)] =
                             [j \in 1 .. Len(q) - 1 |-> IF j < i THEN q[j] ELSE q[j + 1]]]

(* Woken while not first. *)
Recheck(p) ==
    /\ pc[p] = "awake1"
    /\ \/ Called(p) /\ Erase(p) /\ Goto(p, "elsewhere")
       \/ ~Called(p) /\ Goto(p, "queued") /\ UNCHANGED queue
    /\ UNCHANGED << track, wake, groupVars, ferryVars, nightVars, visits >>

(* Woken after the ferry refused it. *)
Retry(p) ==
    /\ pc[p] = "awake2"
    /\ \/ /\ Called(p) /\ Erase(p) /\ Goto(p, "elsewhere")
          /\ wake' = wake \union First(queue'[Line(p)])
       \/ ~Called(p) /\ Goto(p, "trying") /\ UNCHANGED << queue, wake >>
    /\ UNCHANGED << track, groupVars, ferryVars, nightVars, visits >>

----------------------------------------------------------------------------
(* On board *)

Fits(p) == sem >= Places(p) /\ ferry_seats_taken < FerryLimit

(* Mutant: SEM_FERRY is taken without looking at it first. *)
TryBoardUnseen(p) ==
    /\ pc[p] = "trying"
    /\ ferry_side' = IF ferry_seats_taken = 0 THEN track[p] ELSE ferry_side
    /\ \/ /\ ferry_side' # track[p]
          /\ Goto(p, "asleep2")
          /\ UNCHANGED << ferry_seats, ferry_seats_taken, ferry_leader, sem >>
       \/ /\ ferry_side' = track[p]
          /\ sem' = sem - Places(p)
          /\ ferry_seats' = IF ferry_seats_taken = 0 THEN << p >> ELSE Append(ferry_seats, p)
          /\ ferry_leader' = IF ferry_seats_taken = 0 THEN ferry_leader \union {p} ELSE ferry_leader \ {p}
          /\ ferry_seats_taken' = ferry_seats_taken + 1
          /\ Goto(p, "popping")
    /\ UNCHANGED << track, wake, groupVars, queue, nightVars, visits >>

(* try_board_ferry, try_board_ferry_vip: an empty ferry is called over; a  *)
(* party that does not fit signals ferry_seats[0], the captain of this     *)
(* voyage or of the last.                                                  *)
TryBoard(p) ==
    /\ pc[p] = "trying"
    /\ ferry_side' = IF ferry_seats_taken = 0 THEN track[p] ELSE ferry_side
    /\ \/ /\ ferry_side' # track[p]
          /\ Goto(p, "asleep2")
          /\ UNCHANGED << wake, ferry_seats, ferry_seats_taken, ferry_leader, sem >>
       \/ /\ ferry_side' = track[p] /\ ~Fits(p)
          /\ wake' = wake \union First(ferry_seats)
          /\ Goto(p, "asleep2")
          /\ UNCHANGED << ferry_seats, ferry_seats_taken, ferry_leader, sem >>
       \/ /\ ferry_side' = track[p] /\ Fits(p)
          /\ sem' = sem - Places(p)
          /\ ferry_seats' = IF ferry_seats_taken = 0 THEN << p >> ELSE Append(ferry_seats, p)
          /\ ferry_leader' = IF ferry_seats_taken = 0 THEN ferry_leader \union {p} ELSE ferry_leader \ {p}
          /\ ferry_seats_taken' = ferry_seats_taken + 1
          /\ Goto(p, "popping")
          /\ UNCHANGED wake
    /\ UNCHANGED << track, groupVars, queue, nightVars, visits >>

(* Mutant: the entry stays in the queue. *)
PopNothing(p) ==
    /\ pc[p] = "popping"
    /\ wake' = wake \union NextInLine(queue, track[p]) \union Group(p)
    /\ status' = [m \in Members |-> IF m \in Group(p) THEN "AT_FERRY_BOARDING" ELSE status[m]]
    /\ checkins' = [g \in Guides |-> IF g = p THEN 0 ELSE checkins[g]]
    /\ Goto(p, "boarding")
    /\ UNCHANGED << track, inbox, queue, ferryVars, nightVars, visits >>

(* The entry is taken off the queue and the next in line woken; then a     *)
(* guide tells its group to board ...                                      *)
PopEntry(p) ==
    /\ pc[p] = "popping"
    /\ queue' = [queue EXCEPT ![Line(p)] = IF @ = << >> THEN @ ELSE Tail(@)]
    /\ wake' = wake \union NextInLine(queue', track[p]) \union Group(p)
    /\ status' = [m \in Members |-> IF m \in Group(p) THEN "AT_FERRY_BOARDING" ELSE status[m]]
    /\ checkins' = [g \in Guides |-> IF g = p THEN 0 ELSE checkins[g]]
    /\ Goto(p, "boarding")
    /\ UNCHANGED << track, inbox, ferryVars, nightVars, visits >>

(* ... and counts the check-ins, here and after the voyage. *)
GuideCount(g) ==
    /\ pc[g] \in {"boarding", "gathering"} /\ checkins[g] < visitors_in_group(g)
    /\ \E m \in Group(g) :
          /\ inbox[m] > 0
          /\ inbox' = [inbox EXCEPT ![m] = @ - 1]
          /\ checkins' = [checkins EXCEPT ![g] = @ + Cardinality(Family[m])]
    /\ UNCHANGED << pc, track, wake, status, queue, ferryVars, nightVars, visits >>

AllCheckedIn(p) == p \in Guides => checkins[p] >= visitors_in_group(p)

(* The captain waits when somebody queues on its shore; a passenger tells  *)
(* ferry_seats[0] that it is ready, and waits for the end of the voyage.   *)
Depart(p) ==
    /\ pc[p] = "boarding" /\ AllCheckedIn(p)
    /\ \/ /\ p \in ferry_leader
          /\ Goto(p, IF NextInLine(queue, track[p]) # {} THEN "asleep3" ELSE "sailing")
          /\ UNCHANGED wake
       \/ p \notin ferry_leader /\ wake' = wake \union First(ferry_seats) /\ Goto(p, "asleep4")
    /\ UNCHANGED << track, groupVars, queue, ferryVars, nightVars, visits >>

(* Mutant: the seats stay taken. *)
SailKeepsSeats(p) ==
    /\ pc[p] = "sailing"
    /\ wake' = wake \union {ferry_seats[i] : i \in 2 .. ferry_seats_taken}
    /\ ferry_leader' = ferry_leader \ {p}
    /\ ferry_side' = ~track[p]
    /\ Goto(p, "landed")
    /\ UNCHANGED << track, groupVars, queue, ferry_seats, ferry_seats_taken, sem, nightVars, visits >>

(* The voyage, whole: the passengers are woken on the other shore.  Of     *)
(* ferry_seats only the first, and of ferry_leader nothing, is read before *)
(* it is written again.                                                    *)
Sail(p) ==
    /\ pc[p] = "sailing"
    /\ wake' = wake \union {ferry_seats[i] : i \in 2 .. ferry_seats_taken}
    /\ ferry_seats' = SubSeq(ferry_seats, 1, 1)
    /\ ferry_seats_taken' = 0
    /\ ferry_leader' = ferry_leader \ {p}
    /\ ferry_side' = ~track[p]
    /\ Goto(p, "landed")
    /\ UNCHANGED << track, groupVars, queue, sem, nightVars, visits >>

(* Mutant: the check-ins are not reset after the voyage. *)
AlightNoReset(g) ==
    /\ pc[g] = "landed"
    /\ wake' = wake \union Group(g)
    /\ Goto(g, "gathering")
    /\ UNCHANGED << track, groupVars, queue, ferryVars, nightVars, visits >>

(* Mutant: a guide gives back its own place only. *)
ReleaseOne(p) ==
    /\ \/ p \in VIPs /\ pc[p] = "landed"
       \/ pc[p] = "gathering" /\ AllCheckedIn(p)
    /\ sem' = sem + 1
    /\ Goto(p, "released")
    /\ UNCHANGED << track, wake, groupVars, queue, ferry_side, ferry_seats, ferry_seats_taken,
                    ferry_leader, nightVars, visits >>

(* The guide alerts its group to start disembarking. *)
Alight(g) ==
    /\ pc[g] = "landed"
    /\ wake' = wake \union Group(g)
    /\ checkins' = [checkins EXCEPT ![g] = 0]
    /\ Goto(g, "gathering")
    /\ UNCHANGED << track, status, inbox, queue, ferryVars, nightVars, visits >>

Release(p) ==
    /\ \/ p \in VIPs /\ pc[p] = "landed"
       \/ pc[p] = "gathering" /\ AllCheckedIn(p)
    /\ sem' = sem + Places(p)
    /\ Goto(p, "released")
    /\ UNCHANGED << track, wake, groupVars, queue, ferry_side, ferry_seats, ferry_seats_taken,
                    ferry_leader, nightVars, visits >>

(* Mutant: only the shore the party comes from is told. *)
CallNextHere(p) ==
    /\ pc[p] = "released"
    /\ wake' = wake \union NextInLine(queue, track[p])
    /\ Goto(p, "elsewhere")
    /\ UNCHANGED << track, groupVars, queue, ferryVars, nightVars, visits >>

(* One party on each shore is woken. *)
CallNext(p) ==
    /\ pc[p] = "released"
    /\ wake' = wake \union UNION {NextInLine(queue, d) : d \in BOOLEAN}
    /\ Goto(p, "elsewhere")
    /\ UNCHANGED << track, groupVars, queue, ferryVars, nightVars, visits >>

----------------------------------------------------------------------------
(* Group members *)

(* The top of operate(): a member told to board checks in and then waits   *)
(* for the end of the voyage.                                              *)
Read(m) ==
    /\ pc[m] = "reading"
    /\ \/ status[m] = "FOLLOWING_GUIDE" /\ Goto(m, "waiting") /\ UNCHANGED << status, inbox >>
       \/ status[m] = "AWAITING_FERRY_START" /\ Goto(m, "seated") /\ UNCHANGED << status, inbox >>
       \/ /\ status[m] = "AT_FERRY_BOARDING"
          /\ status' = [status EXCEPT ![m] = "AWAITING_FERRY_START"]
          /\ inbox' = [inbox EXCEPT ![m] = @ + 1]
          /\ UNCHANGED pc
    /\ UNCHANGED << track, wake, checkins, queue, ferryVars, nightVars, visits >>

Land(m) ==
    /\ pc[m] = "landing"
    /\ status' = [status EXCEPT ![m] = "FOLLOWING_GUIDE"]
    /\ inbox' = [inbox EXCEPT ![m] = @ + 1]
    /\ Goto(m, "reading")
    /\ UNCHANGED << track, wake, checkins, queue, ferryVars, nightVars, visits >>

----------------------------------------------------------------------------
(* Nightfall *)

(* The cashier may be waiting for a visitor all night. *)
Nightfall ==
    /\ Evenings = 1 /\ phase = "day"
    /\ \/ phase' = "night" /\ untold' = Guides
       \/ phase' = "closed" /\ UNCHANGED untold
    /\ UNCHANGED << pc, track, wake, groupVars, queue, ferryVars, leave_park, signals, visits >>

Interrupted(p) == IF pc[p] \in Asleep THEN Goto(p, Woken(pc[p])) ELSE UNCHANGED pc

(* SIG_LEAVE_PARK ends the wait of whoever is in sigwaitinfo, whatever it  *)
(* waits for; the guide's handler passes it on to the group.               *)
GuideTold(g) ==
    /\ g \in untold
    /\ untold' = untold \ {g}
    /\ leave_park' = leave_park \union {g}
    /\ signals' = signals \union Group(g)
    /\ Interrupted(g)
    /\ UNCHANGED << track, wake, groupVars, queue, ferryVars, phase, visits >>

MemberTold(m) ==
    /\ m \in signals
    /\ signals' = signals \ {m}
    /\ Interrupted(m)
    /\ UNCHANGED << track, wake, groupVars, queue, ferryVars, leave_park, phase, untold, visits >>

(* After the guides, every visitor is woken. *)
Round ==
    /\ phase = "night" /\ untold = {}
    /\ phase' = "closed"
    /\ wake' = wake \union VIPs \union Members
    /\ UNCHANGED << pc, track, groupVars, queue, ferryVars, leave_park, signals, untold, visits >>

----------------------------------------------------------------------------
PartyStep(p) ==
    \/ CheckFirst(p) \/ WakeUp(p) \/ Recheck(p) \/ Retry(p) \/ TryBoard(p) \/ PopEntry(p)
    \/ Depart(p) \/ Sail(p) \/ Release(p) \/ CallNext(p)

GuideStep(g) == PartyStep(g) \/ GuideCount(g) \/ Alight(g)

MemberStep(m) == WakeUp(m) \/ Read(m) \/ Land(m) \/ MemberTold(m)

Arrivals == \E p \in Parties, d \in BOOLEAN : Arrive(p, d)

CashierStep == Round \/ \E g \in Guides : GuideTold(g)

Next ==
    \/ \E g \in Guides : GuideStep(g)
    \/ \E v \in VIPs : PartyStep(v)
    \/ \E m \in Members : MemberStep(m)
    \/ Arrivals \/ Nightfall \/ CashierStep

(* Every process is scheduled; nothing says that parties keep arriving.    *)
Fairness ==
    /\ \A g \in Guides : WF_vars(GuideStep(g))
    /\ \A v \in VIPs : WF_vars(PartyStep(v))
    /\ \A m \in Members : WF_vars(MemberStep(m))
    /\ WF_vars(CashierStep)

Spec == Init /\ [][Next]_vars
FairSpec == Spec /\ Fairness

----------------------------------------------------------------------------
(* Properties *)

OnFerry == {p \in Parties : pc[p] \in Aboard}

(* The places of SEM_FERRY that are taken are those of the parties that    *)
(* have boarded and not yet given them back: no more people are on board   *)
(* than FERRY_LIMIT, and no place is lost.                                 *)
PlacesKept ==
    sem + Cardinality(OnFerry \union UNION {Visitors(p) : p \in OnFerry}) = FerryLimit

(* A ferry with seats taken has exactly one captain that has yet to sail,  *)
(* it sits in the first seat, and its shore is where the ferry is.         *)
Captains == {p \in ferry_leader : pc[p] \in Boarding}
OneCaptain ==
    IF ferry_seats_taken = 0 THEN Captains = {}
    ELSE Captains = {ferry_seats[1]} /\ track[ferry_seats[1]] = ferry_side

(* A guide goes on only with its whole group: everybody is back with it    *)
(* and no check-in is left over for the next attraction.                   *)
GuideWaits ==
    \A m \in Members : pc[GuideOf[m]] \notin Aboard =>
        status[m] = "FOLLOWING_GUIDE" /\ pc[m] \in {"reading", "waiting"} /\ inbox[m] = 0

(* A queue holds exactly the parties that wait there, once each, until     *)
(* guides are told to leave.  VIPs withdraw their entries always.          *)
QueueHonest ==
    \A l \in Lines : l[1] \/ leave_park = {} =>
        /\ {queue[l][i] : i \in DOMAIN queue[l]} =
             {p \in Parties : Line(p) = l /\ pc[p] \in Lined \union {"popping"}}
        /\ \A i, j \in DOMAIN queue[l] : queue[l][i] = queue[l][j] => i = j

(* Once parties stop arriving, everybody gets across by day. *)
Drains ==
    \/ []<><< Arrivals >>_vars
    \/ <>(phase # "day")
    \/ <>[](\A p \in Parties : pc[p] = "elsewhere")
=============================================================================
