------------------------------- MODULE Bridge -------------------------------
(***************************************************************************)
(* The suspension bridge: guide.c GS_AT_BRIDGE with try_pass_bridge and    *)
(* check_if_first_secure, visitor.c VS_AT_BRIDGE of VIPs and of group      *)
(* members, and what the cashier does to both at nightfall.                *)
(*                                                                         *)
(* Every process runs on its own; a program counter says between which     *)
(* blocking or lock-protected pieces of its code it is.  A piece of code   *)
(* under MUTEX_BRIDGE is one step, except that try_pass_bridge blocks on   *)
(* SEM_BRIDGE while it holds the mutex, so it is two.                      *)
(***************************************************************************)
EXTENDS Integers, Sequences, FiniteSets

CONSTANTS Guides,       \* the guide processes
          VIPs,         \* the VIP visitor processes
          Members,      \* the regular visitor processes
          GuideOf,      \* GuideOf[m]: asigned_guide of m
          Family,       \* Family[m]: m and the kids with it, 1 + kids_count people
          BridgeLimit,  \* BRIDGE_LIMIT
          Capacity,     \* VISITORS_LIMIT, the capacity of the queues
          LastPhase     \* bound: the days (even) and nights (odd) looked at

Parties == Guides \union VIPs
Processes == Parties \union Members
Group(g) == {m \in Members : GuideOf[m] = g}
Seats(m) == Cardinality(Family[m])

ASSUME BridgeConstants ==
    /\ IsFiniteSet(Guides) /\ IsFiniteSet(VIPs) /\ IsFiniteSet(Members)
    /\ Guides \intersect VIPs = {} /\ Parties \intersect Members = {}
    /\ GuideOf \in [Members -> Guides]
    /\ DOMAIN Family = Members
    /\ IsFiniteSet(UNION {Family[m] : m \in Members})
    /\ \A m \in Members : m \in Family[m] /\ Family[m] \intersect Parties = {}
    /\ \A m, n \in Members : m # n => Family[m] \intersect Family[n] = {}
    /\ BridgeLimit \in Nat /\ Capacity \in Nat \ {0} /\ LastPhase \in Nat

VARIABLES
    pc,                \* where each process is in its code
    track,             \* clockwise_track, vip_clockwise_track
    wake,              \* processes with SIG_WAKE_UP pending
    leave_park,        \* guides whose leave_park is set
    status,            \* visitor_data_t.status of the members
    inbox,             \* members whose check-in is in the guides' message queue
    checkins,          \* visitors_checkins of the guides
    queue,             \* bridge_queue_clockwise (TRUE), bridge_queue_aclockwise
    bridge_direction, groups_on_bridge,
    mutex, sem,        \* the values of MUTEX_BRIDGE and SEM_BRIDGE
    phase,             \* what b_get_time_of_day() tells: day 0, night 1, day 2, ...
    untold,            \* guides and VIPs the cashier has not yet told of the night
    vstatus,           \* visitor_data_t.status of the VIPs
    letters,           \* leave messages of each VIP the cashier has not answered
    marked,            \* VIPs between the cashier's status write and its SIGINT
    kill_requested     \* VIPs that have had the SIGINT

clockVars == << phase, untold >>
vipVars == << vstatus, letters, marked, kill_requested >>
groupVars == << status, inbox, checkins >>
bridgeVars == << bridge_direction, groups_on_bridge >>
vars == << pc, track, wake, leave_park, groupVars, queue, bridgeVars, mutex, sem,
           clockVars, vipVars >>

Asleep == {"asleep1", "asleep2"}
Lined == {"queued", "asleep1", "awake1", "first", "trying", "asleep2", "awake2"}
OnSpan == {"entered", "popping", "crossing"}
Admitted == OnSpan \union {"entering", "gathering", "leaving"}
Dismissed == {"walking1", "sent1", "walking2", "sent2", "refused"}
PartyStates == {"elsewhere", "arrived"} \union Lined \union Admitted \union Dismissed
MemberStates == {"reading", "waiting", "boarding", "crossing", "reporting"}

TypeOK ==
    /\ pc \in [Processes -> PartyStates \union MemberStates]
    /\ \A p \in Parties : pc[p] \in PartyStates
    /\ \A m \in Members : pc[m] \in MemberStates
    /\ track \in [Parties -> BOOLEAN]
    /\ wake \subseteq Processes
    /\ leave_park \subseteq Guides
    /\ status \in [Members -> {"FOLLOWING_GUIDE", "AT_BRIDGE_QUEUE", "AT_BRIDGE"}]
    /\ inbox \subseteq Members
    /\ checkins \in [Guides -> Nat]
    /\ queue \in [BOOLEAN -> Seq(Parties)]
    /\ bridge_direction \in BOOLEAN
    /\ groups_on_bridge \in Int /\ mutex \in Nat /\ sem \in Nat
    /\ phase \in 0 .. LastPhase
    /\ untold \subseteq Parties
    /\ vstatus \in [VIPs -> {"AT_BRIDGE", "AWAITING_TICKET", "LEAVING"}]
    /\ letters \in [VIPs -> Nat]
    /\ marked \subseteq VIPs /\ kill_requested \subseteq VIPs

Init ==
    /\ pc = [p \in Processes |-> IF p \in Members THEN "reading" ELSE "elsewhere"]
    /\ track = [p \in Parties |-> TRUE]
    /\ wake = {}
    /\ leave_park = {}
    /\ status = [m \in Members |-> "FOLLOWING_GUIDE"]
    /\ inbox = {}
    /\ checkins = [g \in Guides |-> 0]
    /\ queue = [d \in BOOLEAN |-> << >>]
    /\ bridge_direction = TRUE
    /\ groups_on_bridge = 0
    /\ mutex = 1
    /\ sem = BridgeLimit
    /\ phase = 0
    /\ untold = {}
    /\ vstatus = [v \in VIPs |-> "AT_BRIDGE"]
    /\ letters = [v \in VIPs |-> 0]
    /\ marked = {} /\ kill_requested = {}

----------------------------------------------------------------------------
(* The clock, semaphores, queues and signals *)

night == phase % 2 = 1

Goto(p, label) == pc' = [pc EXCEPT ![p] = label]

(* b_sem_p(MUTEX_BRIDGE, &kill_requested) returns without the mutex when   *)
(* it sees kill_requested set; the b_sem_v at the end of the section       *)
(* raises the mutex all the same.  (A signal between its test and semop    *)
(* goes unseen, so a killed process may also take the mutex.)              *)
Section(p) ==
    \/ mutex > 0 /\ mutex' = mutex
    \/ p \in kill_requested /\ mutex' = mutex + 1

First(q) == IF q = << >> THEN {} ELSE {Head(q)}

(* ringbuffer_push_back refuses an element when the buffer is full. *)
Push(d, p) ==
    queue' = IF Len(queue[d]) < Capacity
             THEN [queue EXCEPT ![d] = Append(@, p)]
             ELSE queue

Pop(d) ==
    queue' = IF queue[d] = << >> THEN queue ELSE [queue EXCEPT ![d] = Tail(@)]

(* ringbuffer_contains, then ringbuffer_erase: the first entry of p goes. *)
Erase(d, p) ==
    LET entries == {i \in DOMAIN queue[d] : queue[d][i] = p}
    IN  \/ entries = {} /\ UNCHANGED queue
        \/ \E i \in entries :
              /\ \A j \in entries : i <= j
              /\ queue' = [queue EXCEPT ![d] =
                             [j \in 1 .. Len(@) - 1 |-> IF j < i THEN @[j] ELSE @[j + 1]]]

(* sigwaitinfo returns: a pending SIG_WAKE_UP is consumed. *)
Woken(label) ==
    CASE label = "asleep1" -> "awake1"
      [] label = "asleep2" -> "awake2"
      [] label = "waiting" -> "reading"

WakeUp(p) ==
    /\ pc[p] \in Asleep \union {"waiting"}
    /\ p \in wake
    /\ wake' = wake \ {p}
    /\ Goto(p, Woken(pc[p]))
    /\ UNCHANGED << track, leave_park, groupVars, queue, bridgeVars, mutex, sem,
                    clockVars, vipVars >>

----------------------------------------------------------------------------
(* The queue, for guides and VIPs *)

Join(p) ==
    /\ Section(p)
    /\ Push(track[p], p)
    /\ Goto(p, "queued")
    /\ UNCHANGED << track, wake, leave_park, groupVars, bridgeVars, sem, clockVars, vipVars >>

(* check_if_first_secure.  With an empty queue first_element is never      *)
(* written; it holds the process id of some earlier call.                  *)
CheckFirst(p) ==
    /\ pc[p] = "queued"
    /\ Section(p)
    /\ \E first \in IF queue[track[p]] = << >> THEN Parties ELSE First(queue[track[p]]) :
          \/ /\ first = p
             /\ Goto(p, "first")
             /\ UNCHANGED wake
          \/ /\ first # p
             /\ wake' = wake \union {first}
             /\ Goto(p, "asleep1")
    /\ UNCHANGED << track, leave_park, groupVars, queue, bridgeVars, sem, clockVars, vipVars >>

(* Mutant: a refused party goes to sleep with the mutex. *)
TryPassKeepsMutex(p) ==
    /\ pc[p] = "trying"
    /\ mutex > 0 /\ mutex' = mutex - 1
    /\ \/ /\ bridge_direction # track[p] /\ groups_on_bridge # 0
          /\ Goto(p, "asleep2")
          /\ UNCHANGED bridgeVars
       \/ /\ bridge_direction = track[p] \/ groups_on_bridge = 0
          /\ bridge_direction' = track[p]
          /\ groups_on_bridge' = groups_on_bridge + 1
          /\ Goto(p, "entering")
    /\ UNCHANGED << track, wake, leave_park, groupVars, queue, sem, clockVars, vipVars >>

(* Mutant: a refused party is counted. *)
TryPassCountsRefused(p) ==
    /\ pc[p] = "trying"
    /\ groups_on_bridge' = groups_on_bridge + 1
    /\ \/ /\ bridge_direction # track[p] /\ groups_on_bridge # 0
          /\ Section(p)
          /\ Goto(p, "asleep2")
          /\ UNCHANGED bridge_direction
       \/ /\ bridge_direction = track[p] \/ groups_on_bridge = 0
          /\ mutex > 0 /\ mutex' = mutex - 1
          /\ bridge_direction' = track[p]
          /\ Goto(p, "entering")
    /\ UNCHANGED << track, wake, leave_park, groupVars, queue, sem, clockVars, vipVars >>

(* Mutant: the direction is turned without looking at groups_on_bridge. *)
TryPassTurns(p) ==
    /\ pc[p] = "trying"
    /\ mutex > 0 /\ mutex' = mutex - 1
    /\ bridge_direction' = track[p]
    /\ groups_on_bridge' = groups_on_bridge + 1
    /\ Goto(p, "entering")
    /\ UNCHANGED << track, wake, leave_park, groupVars, queue, sem, clockVars, vipVars >>

(* try_pass_bridge up to b_sem_p(SEM_BRIDGE): the direction is taken over  *)
(* when nobody is on the bridge; otherwise the party sleeps and tries      *)
(* again.  An admitted party keeps the mutex.                              *)
TryPass(p) ==
    /\ pc[p] = "trying"
    /\ \/ /\ bridge_direction # track[p] /\ groups_on_bridge # 0
          /\ Section(p)
          /\ Goto(p, "asleep2")
          /\ UNCHANGED bridgeVars
       \/ /\ bridge_direction = track[p] \/ groups_on_bridge = 0
          /\ \/ mutex > 0 /\ mutex' = mutex - 1
             \/ p \in kill_requested /\ mutex' = mutex
          /\ bridge_direction' = track[p]
          /\ groups_on_bridge' = groups_on_bridge + 1
          /\ Goto(p, "entering")
    /\ UNCHANGED << track, wake, leave_park, groupVars, queue, sem, clockVars, vipVars >>

(* Mutant: the entry stays in the queue. *)
StartCrossingNoPop(p) ==
    /\ pc[p] = "popping"
    /\ Section(p)
    /\ wake' = wake \union First(queue[track[p]])
    /\ Goto(p, "crossing")
    /\ UNCHANGED << track, leave_park, groupVars, queue, bridgeVars, sem, clockVars, vipVars >>

(* Take the own entry off the queue and wake the next in line. *)
StartCrossing(p) ==
    /\ pc[p] = "popping"
    /\ Section(p)
    /\ Pop(track[p])
    /\ wake' = wake \union First(queue'[track[p]])
    /\ Goto(p, "crossing")
    /\ UNCHANGED << track, leave_park, groupVars, bridgeVars, sem, clockVars, vipVars >>

(* Mutant: the first of the own queue is woken. *)
LeaveBridgeWakesOwn(p) ==
    /\ Section(p)
    /\ groups_on_bridge' = groups_on_bridge - 1
    /\ wake' = wake \union First(queue[track[p]])
    /\ Goto(p, "elsewhere")
    /\ UNCHANGED << track, leave_park, groupVars, queue, bridge_direction, sem, clockVars, vipVars >>

(* The party is across: it wakes the first of the opposite queue. *)
LeaveBridge(p) ==
    /\ Section(p)
    /\ groups_on_bridge' = groups_on_bridge - 1
    /\ wake' = wake \union First(queue[~track[p]])
    /\ Goto(p, "elsewhere")
    /\ UNCHANGED << track, leave_park, groupVars, queue, bridge_direction, sem, clockVars, vipVars >>

----------------------------------------------------------------------------
(* Guides *)

(* GS_AT_BRIDGE begins by sending the group to wait at the bridge. *)
SendGroupToQueue(g) ==
    /\ status' = [m \in Members |-> IF m \in Group(g) THEN "AT_BRIDGE_QUEUE" ELSE status[m]]
    /\ UNCHANGED << inbox, checkins, queue, bridgeVars, mutex, sem, clockVars, vipVars >>

(* The rest of the last tour, GS_AT_CASH, which clears leave_park, and     *)
(* GS_GATHERING_GROUP lie behind the guide: it arrives with a new group,   *)
(* in a new direction and perhaps with a SIG_WAKE_UP of the ferry queue    *)
(* pending.                                                                *)
GuideArrive(g, d) ==
    /\ pc[g] = "elsewhere"
    /\ track' = [track EXCEPT ![g] = d]
    /\ leave_park' = leave_park \ {g}
    /\ \E stale \in SUBSET {g} : wake' = wake \union Group(g) \union stale
    /\ pc' = [p \in Processes |->
                 IF p = g THEN "arrived" ELSE IF p \in Group(g) THEN "reading" ELSE pc[p]]
    /\ SendGroupToQueue(g)

GuideJoin(g) ==
    /\ pc[g] = "arrived"
    /\ \/ /\ g \in leave_park
          /\ Goto(g, "elsewhere")
          /\ UNCHANGED << track, wake, leave_park, groupVars, queue, bridgeVars, mutex, sem,
                          clockVars, vipVars >>
       \/ g \notin leave_park /\ Join(g)

(* Woken while not first: leave the queue when told so, else look again. *)
GuideRecheck(g) ==
    /\ pc[g] = "awake1"
    /\ \/ /\ g \in leave_park
          /\ Section(g)
          /\ Erase(track[g], g)
          /\ Goto(g, "elsewhere")
       \/ /\ g \notin leave_park
          /\ Goto(g, "queued")
          /\ UNCHANGED << queue, mutex >>
    /\ UNCHANGED << track, wake, leave_park, groupVars, bridgeVars, sem, clockVars, vipVars >>

(* First in line: a guide told to leave returns to operate() with its      *)
(* status still GS_AT_BRIDGE, which enters the case again.                 *)
GuideProceed(g) ==
    /\ pc[g] = "first"
    /\ \/ /\ g \in leave_park
          /\ wake' = wake \union Group(g)
          /\ Goto(g, "arrived")
          /\ UNCHANGED << track, leave_park >>
          /\ SendGroupToQueue(g)
       \/ /\ g \notin leave_park
          /\ Goto(g, "trying")
          /\ UNCHANGED << track, wake, leave_park, groupVars, queue, bridgeVars, mutex, sem,
                          clockVars, vipVars >>

(* The second half of try_pass_bridge: with SEM_BRIDGE taken, the group is *)
(* told to cross and the mutex released.                                   *)
GuideEnter(g) ==
    /\ pc[g] = "entering"
    /\ sem > 0
    /\ sem' = sem - 1
    /\ mutex' = mutex + 1
    /\ status' = [m \in Members |-> IF m \in Group(g) THEN "AT_BRIDGE" ELSE status[m]]
    /\ wake' = wake \union Group(g)
    /\ Goto(g, "popping")
    /\ UNCHANGED << track, leave_park, inbox, checkins, queue, bridgeVars, clockVars, vipVars >>

GuideRetry(g) ==
    /\ pc[g] = "awake2"
    /\ \/ /\ g \in leave_park
          /\ Section(g)
          /\ Erase(track[g], g)
          /\ wake' = wake \union First(queue'[track[g]])
          /\ Goto(g, "elsewhere")
       \/ /\ g \notin leave_park
          /\ Goto(g, "trying")
          /\ UNCHANGED << queue, mutex, wake >>
    /\ UNCHANGED << track, leave_park, groupVars, bridgeVars, sem, clockVars, vipVars >>

(* Mutant: the check-ins of the last tour are not reset. *)
GuideCrossNoReset(g) ==
    /\ pc[g] = "crossing"
    /\ sem' = sem + 1
    /\ Goto(g, "gathering")
    /\ UNCHANGED << track, wake, leave_park, groupVars, queue, bridgeVars, mutex, clockVars, vipVars >>

GuideCross(g) ==
    /\ pc[g] = "crossing"
    /\ sem' = sem + 1
    /\ checkins' = [checkins EXCEPT ![g] = 0]
    /\ Goto(g, "gathering")
    /\ UNCHANGED << track, wake, leave_park, status, inbox, queue, bridgeVars, mutex,
                    clockVars, vipVars >>

visitors_in_group(g) == Cardinality(UNION {Family[m] : m \in Group(g)})

GuideCount(g) ==
    /\ pc[g] = "gathering"
    /\ checkins[g] < visitors_in_group(g)
    /\ \E m \in inbox \intersect Group(g) :
          /\ inbox' = inbox \ {m}
          /\ checkins' = [checkins EXCEPT ![g] = @ + Seats(m)]
    /\ UNCHANGED << pc, track, wake, leave_park, status, queue, bridgeVars, mutex, sem,
                    clockVars, vipVars >>

(* Mutant: the guide does not wait for its group. *)
GuideLeaveEarly(g) == pc[g] = "gathering" /\ LeaveBridge(g)

GuideLeave(g) ==
    /\ pc[g] = "gathering"
    /\ checkins[g] >= visitors_in_group(g)
    /\ LeaveBridge(g)

(* SIGUSR2 arrives: handle_leave_park sets the flag.  A guide inside       *)
(* sigwaitinfo returns from it; one that has not entered it yet does not   *)
(* notice.  (The handler passes the signal on to the group, whose members  *)
(* at most read their unchanged status again.)                             *)
GuideTold(g) ==
    /\ g \in untold
    /\ untold' = untold \ {g}
    /\ leave_park' = leave_park \union {g}
    /\ \/ pc[g] \in Asleep /\ Goto(g, Woken(pc[g]))
       \/ UNCHANGED pc
    /\ UNCHANGED << track, wake, groupVars, queue, bridgeVars, mutex, sem, phase, vipVars >>

----------------------------------------------------------------------------
(* Group members *)

MemberRead(m) ==
    /\ pc[m] = "reading"
    /\ Goto(m, IF status[m] = "AT_BRIDGE" THEN "boarding" ELSE "waiting")
    /\ UNCHANGED << track, wake, leave_park, groupVars, queue, bridgeVars, mutex, sem,
                    clockVars, vipVars >>

(* Mutant: a visitor takes one seat, whatever the kids. *)
MemberStepOnAlone(m) ==
    /\ pc[m] = "boarding"
    /\ sem >= 1
    /\ sem' = sem - 1
    /\ Goto(m, "crossing")
    /\ UNCHANGED << track, wake, leave_park, groupVars, queue, bridgeVars, mutex,
                    clockVars, vipVars >>

(* Mutant: a visitor takes its seats without waiting for them. *)
MemberStepOnAtOnce(m) ==
    /\ pc[m] = "boarding"
    /\ sem' = sem - Seats(m)
    /\ Goto(m, "crossing")
    /\ UNCHANGED << track, wake, leave_park, groupVars, queue, bridgeVars, mutex,
                    clockVars, vipVars >>

MemberStepOn(m) ==
    /\ pc[m] = "boarding"
    /\ sem >= Seats(m)
    /\ sem' = sem - Seats(m)
    /\ Goto(m, "crossing")
    /\ UNCHANGED << track, wake, leave_park, groupVars, queue, bridgeVars, mutex,
                    clockVars, vipVars >>

MemberStepOff(m) ==
    /\ pc[m] = "crossing"
    /\ sem' = sem + Seats(m)
    /\ Goto(m, "reporting")
    /\ UNCHANGED << track, wake, leave_park, groupVars, queue, bridgeVars, mutex,
                    clockVars, vipVars >>

(* The status is set back before the check-in is sent, so an answer of the *)
(* guide is never overwritten.                                             *)
MemberReport(m) ==
    /\ pc[m] = "reporting"
    /\ status' = [status EXCEPT ![m] = "FOLLOWING_GUIDE"]
    /\ inbox' = inbox \union {m}
    /\ Goto(m, "reading")
    /\ UNCHANGED << track, wake, leave_park, checkins, queue, bridgeVars, mutex, sem,
                    clockVars, vipVars >>

----------------------------------------------------------------------------
(* VIPs *)

(* A VIP comes to the bridge only by day; v stands for a new process once  *)
(* the previous one has ended.  It may bring a SIG_WAKE_UP of the cashier  *)
(* or of another queue along.                                              *)
VipArrive(v, d) ==
    /\ pc[v] = "elsewhere"
    /\ letters[v] = 0 /\ v \notin marked
    /\ ~night
    /\ track' = [track EXCEPT ![v] = d]
    /\ vstatus' = [vstatus EXCEPT ![v] = "AT_BRIDGE"]
    /\ kill_requested' = kill_requested \ {v}
    /\ \E stale \in SUBSET {v} : wake' = (wake \ {v}) \union stale
    /\ Goto(v, "arrived")
    /\ UNCHANGED << leave_park, groupVars, queue, bridgeVars, mutex, sem, clockVars, letters, marked >>

VipJoin(v) ==
    /\ pc[v] = "arrived"
    /\ Join(v)

(* Mutant: a VIP that leaves forgets its entry in the queue. *)
VipRecheckNoErase(v) ==
    /\ pc[v] = "awake1"
    /\ Goto(v, IF night THEN "walking1" ELSE "queued")
    /\ UNCHANGED << track, wake, leave_park, groupVars, queue, bridgeVars, mutex, sem,
                    clockVars, vipVars >>

VipRecheck(v) ==
    /\ pc[v] = "awake1"
    /\ \/ /\ night
          /\ Section(v)
          /\ Erase(track[v], v)
          /\ Goto(v, "walking1")
       \/ /\ ~night
          /\ Goto(v, "queued")
          /\ UNCHANGED << queue, mutex >>
    /\ UNCHANGED << track, wake, leave_park, groupVars, bridgeVars, sem, clockVars, vipVars >>

(* The check behind both waiting loops.  It recognises a VIP that has      *)
(* left the queue only while it is still night and only as long as the     *)
(* cashier has not written VS_LEAVING over VS_AWAITING_TICKET.             *)
HasLeft(v) == night /\ vstatus[v] = "AWAITING_TICKET"

VipProceed(v) ==
    /\ pc[v] = "first"
    /\ Goto(v, IF v \in kill_requested \/ HasLeft(v) THEN "elsewhere" ELSE "trying")
    /\ UNCHANGED << track, wake, leave_park, groupVars, queue, bridgeVars, mutex, sem,
                    clockVars, vipVars >>

(* The second half of try_pass_bridge_vip. *)
VipEnter(v) ==
    /\ pc[v] = "entering"
    /\ \/ sem > 0 /\ sem' = sem - 1
       \/ v \in kill_requested /\ sem' = sem
    /\ mutex' = mutex + 1
    /\ Goto(v, "entered")
    /\ UNCHANGED << track, wake, leave_park, groupVars, queue, bridgeVars, clockVars, vipVars >>

VipRetry(v) ==
    /\ pc[v] = "awake2"
    /\ \/ /\ v \in kill_requested
          /\ Goto(v, "refused")
          /\ UNCHANGED << queue, mutex, wake >>
       \/ /\ v \notin kill_requested /\ night
          /\ Section(v)
          /\ Erase(track[v], v)
          /\ wake' = wake \union First(queue'[track[v]])
          /\ Goto(v, "walking2")
       \/ /\ v \notin kill_requested /\ ~night
          /\ Goto(v, "trying")
          /\ UNCHANGED << queue, mutex, wake >>
    /\ UNCHANGED << track, leave_park, groupVars, bridgeVars, sem, clockVars, vipVars >>

(* The walk to the cashier ends with the leave message ...                 *)
VipSendLeave(v) ==
    /\ pc[v] \in {"walking1", "walking2"}
    /\ letters' = [letters EXCEPT ![v] = @ + 1]
    /\ Goto(v, IF pc[v] = "walking1" THEN "sent1" ELSE "sent2")
    /\ UNCHANGED << track, wake, leave_park, groupVars, queue, bridgeVars, mutex, sem,
                    clockVars, vstatus, marked, kill_requested >>

(* ... and only then the VIP writes its status.                            *)
VipAwaitTicket(v) ==
    /\ pc[v] \in {"sent1", "sent2"}
    /\ vstatus' = [vstatus EXCEPT ![v] = "AWAITING_TICKET"]
    /\ Goto(v, IF pc[v] = "sent1" THEN "first" ELSE "refused")
    /\ UNCHANGED << track, wake, leave_park, groupVars, queue, bridgeVars, mutex, sem,
                    clockVars, letters, marked, kill_requested >>

(* Behind the second loop, admitted or not. *)
VipStartCrossing(v) ==
    /\ pc[v] \in {"entered", "refused"}
    /\ Goto(v, IF HasLeft(v) THEN "elsewhere" ELSE "popping")
    /\ UNCHANGED << track, wake, leave_park, groupVars, queue, bridgeVars, mutex, sem,
                    clockVars, vipVars >>

(* Mutant: a VIP does not give its seat back. *)
VipCrossKeepsSeat(v) ==
    /\ pc[v] = "crossing"
    /\ Goto(v, "leaving")
    /\ UNCHANGED << track, wake, leave_park, groupVars, queue, bridgeVars, mutex, sem,
                    clockVars, vipVars >>

VipCross(v) ==
    /\ pc[v] = "crossing"
    /\ sem' = sem + 1
    /\ Goto(v, "leaving")
    /\ UNCHANGED << track, wake, leave_park, groupVars, queue, bridgeVars, mutex,
                    clockVars, vipVars >>

VipLeave(v) ==
    /\ pc[v] = "leaving"
    /\ LeaveBridge(v)

(* The cashier's leaving thread answers a leave message: first the status, *)
(* then SIGINT, whose handler also raises SIG_WAKE_UP.                     *)
Dismiss(v) ==
    /\ letters[v] > 0 /\ v \notin marked
    /\ letters' = [letters EXCEPT ![v] = @ - 1]
    /\ vstatus' = [vstatus EXCEPT ![v] = "LEAVING"]
    /\ marked' = marked \union {v}
    /\ UNCHANGED << pc, track, wake, leave_park, groupVars, queue, bridgeVars, mutex, sem,
                    clockVars, kill_requested >>

Kill(v) ==
    /\ v \in marked
    /\ marked' = marked \ {v}
    /\ kill_requested' = kill_requested \union {v}
    /\ wake' = wake \union {v}
    /\ UNCHANGED << pc, track, leave_park, groupVars, queue, bridgeVars, mutex, sem,
                    clockVars, vstatus, letters >>

----------------------------------------------------------------------------
(* Day and night *)

(* The cashier makes its round when it notices the night, which it does    *)
(* not when it waits in poll for a visitor all night long.                 *)
Nightfall ==
    /\ ~night /\ phase < LastPhase
    /\ phase' = phase + 1
    /\ untold' \in {Parties, {}}
    /\ UNCHANGED << pc, track, wake, leave_park, groupVars, queue, bridgeVars, mutex, sem, vipVars >>

(* The round is over long before the night is. *)
Daybreak ==
    /\ night /\ phase < LastPhase
    /\ untold = {}
    /\ phase' = phase + 1
    /\ UNCHANGED << pc, track, wake, leave_park, groupVars, queue, bridgeVars, mutex, sem,
                    untold, vipVars >>

(* The cashier's round at nightfall wakes every visitor.  (A group member  *)
(* that it wakes reads its status again and goes back to sleep.)           *)
VipTold(v) ==
    /\ v \in untold
    /\ untold' = untold \ {v}
    /\ wake' = wake \union {v}
    /\ UNCHANGED << pc, track, leave_park, groupVars, queue, bridgeVars, mutex, sem,
                    phase, vipVars >>

----------------------------------------------------------------------------
GuideStep(g) ==
    \/ GuideJoin(g) \/ CheckFirst(g) \/ WakeUp(g) \/ GuideRecheck(g) \/ GuideProceed(g)
    \/ TryPass(g) \/ GuideEnter(g) \/ GuideRetry(g) \/ StartCrossing(g)
    \/ GuideCross(g) \/ GuideCount(g) \/ GuideLeave(g)

VipStep(v) ==
    \/ VipJoin(v) \/ CheckFirst(v) \/ WakeUp(v) \/ VipRecheck(v) \/ VipProceed(v)
    \/ TryPass(v) \/ VipEnter(v) \/ VipRetry(v) \/ VipSendLeave(v) \/ VipAwaitTicket(v)
    \/ VipStartCrossing(v) \/ StartCrossing(v) \/ VipCross(v) \/ VipLeave(v)

MemberStep(m) ==
    WakeUp(m) \/ MemberRead(m) \/ MemberStepOn(m) \/ MemberStepOff(m) \/ MemberReport(m)

Arrivals ==
    \E d \in BOOLEAN :
        \/ \E g \in Guides : GuideArrive(g, d)
        \/ \E v \in VIPs : VipArrive(v, d)

Environment ==
    \/ Nightfall \/ Daybreak
    \/ \E g \in Guides : GuideTold(g)
    \/ \E v \in VIPs : VipTold(v) \/ Dismiss(v) \/ Kill(v)

Next ==
    \/ \E g \in Guides : GuideStep(g)
    \/ \E v \in VIPs : VipStep(v)
    \/ \E m \in Members : MemberStep(m)
    \/ Arrivals
    \/ Environment

(* Every process is scheduled; nothing says that parties keep arriving.    *)
Fairness ==
    /\ \A g \in Guides : WF_vars(GuideStep(g))
    /\ \A v \in VIPs : WF_vars(VipStep(v))
    /\ \A m \in Members : WF_vars(MemberStep(m))

Spec == Init /\ [][Next]_vars
FairSpec == Spec /\ Fairness

----------------------------------------------------------------------------
(* Properties *)

(* The party's leader has been admitted by try_pass_bridge and has not     *)
(* taken itself off groups_on_bridge yet.                                  *)
Using == {p \in Parties : pc[p] \in Admitted}
MembersCrossing == {m \in Members : pc[m] = "crossing"}

(* The people on the bridge, kids included. *)
Span == {p \in Parties : pc[p] \in OnSpan} \union UNION {Family[m] : m \in MembersCrossing}

(* config.h: BRIDGE_LIMIT is the limit of people allowed on the bridge at  *)
(* once, leaders and kids counted.                                         *)
WithinLimit == Cardinality(Span) <= BridgeLimit

(* Nobody is on the bridge against its direction, although a guide gives   *)
(* back its own seat long before its last member steps on.                 *)
OneDirection ==
    /\ \A p \in Using : track[p] = bridge_direction
    /\ \A m \in Members : pc[m] \in {"boarding", "crossing", "reporting"} =>
          GuideOf[m] \in Using /\ track[GuideOf[m]] = bridge_direction

(* groups_on_bridge counts the parties that use the bridge: it decides who *)
(* may turn the direction.                                                 *)
GroupsCounted == groups_on_bridge = Cardinality(Using)

(* At most one process at a time is inside the sections of MUTEX_BRIDGE.   *)
MutexBinary == mutex + Cardinality({p \in Parties : pc[p] = "entering"}) = 1

(* A guide goes on only after its whole group has crossed and checked in.  *)
GroupStaysTogether ==
    \A g \in Guides : pc[g] = "elsewhere" =>
        \A m \in Group(g) : pc[m] \in {"reading", "waiting"} /\ status[m] # "AT_BRIDGE" /\ m \notin inbox

(* A queue holds exactly the parties that wait there, once each. *)
QueueHonest ==
    \A d \in BOOLEAN :
        /\ {queue[d][i] : i \in DOMAIN queue[d]} =
             {p \in Parties : track[p] = d /\ pc[p] \in Lined \union {"entering", "entered", "popping"}}
        /\ \A i, j \in DOMAIN queue[d] : queue[d][i] = queue[d][j] => i = j

(* A VIP that has gone is in no queue, told to leave or not.               *)
NoGhostVip == \A v \in VIPs, d \in BOOLEAN :
    pc[v] = "elsewhere" => \A i \in DOMAIN queue[d] : queue[d][i] # v

(* The first of a queue sleeps without a wake-up pending only while the    *)
(* bridge is used in the other direction, by somebody who will wake it.    *)
NoLostWakeup ==
    \A d \in BOOLEAN : \A p \in First(queue[d]) :
        pc[p] \in Asleep /\ track[p] = d /\ p \notin wake =>
            groups_on_bridge > 0 /\ bridge_direction # d

(* MUTEX_BRIDGE is never lost: a killed VIP may raise it once too often,   *)
(* but never keeps it.                                                     *)
MutexNotLost == mutex + Cardinality({p \in Parties : pc[p] = "entering"}) >= 1

(* A party that waits for a seat, and keeps MUTEX_BRIDGE meanwhile, waits  *)
(* for somebody who does not need the mutex to give one back.              *)
SeatComesFree ==
    \A p \in Parties : pc[p] = "entering" /\ sem = 0 =>
        \/ \E q \in Parties : pc[q] = "crossing"
        \/ \E m \in Members : pc[m] = "crossing"

People(p) == {p} \union UNION {Family[m] : m \in Group(p)}

(* The people of parties that use the bridge who are across already: the   *)
(* leader, and the members that have stepped off.                          *)
Crossed ==
    {p \in Using : pc[p] \in {"gathering", "leaving"}} \union
    UNION {Family[m] : m \in {n \in Members :
        GuideOf[n] \in Using /\ (pc[n] = "reporting" \/ status[n] = "FOLLOWING_GUIDE")}}

(* The protocol of semaphores, signals and counters keeps what the bridge  *)
(* promises: one direction at a time, no more people than it carries, and  *)
(* no party let go before all of its people are across.                    *)
OneWay == INSTANCE OneWayBridge
             WITH direction <- bridge_direction, heading <- track, admitted <- Using,
                  span <- Span, crossed <- Crossed
ImplementsOneWayBridge == OneWay!Spec

(* Once parties stop arriving, everybody gets across. *)
Drains ==
    []<>(\E p \in Parties : pc[p] = "arrived") \/ <>[](\A p \in Parties : pc[p] = "elsewhere")
=============================================================================
