------------------------------ MODULE Entrance ------------------------------
(***************************************************************************)
(* From the street to the group and home again: the spawner and the reaper *)
(* of main.c, register_visitor and the first states of visitor.c, the      *)
(* cashier with its leaving thread, and GS_GATHERING_GROUP and GS_AT_CASH  *)
(* of guide.c.  The attractions between the two are one step here.         *)
(*                                                                         *)
(* The guides and the cashier share one message queue: its messages of     *)
(* type 1 (tickets) are visitors who wait for a guide, those of type 2     *)
(* (letters) are visitors who are leaving.                                 *)
(***************************************************************************)
EXTENDS Integers, Sequences, FiniteSets

CONSTANTS Visitors,       \* the visitor processes; no process id is used twice
          VIPs,           \* those with isVIP
          Kids,           \* Kids[v]: kids_count of v
          Guides,         \* the guide processes
          VisitorsLimit,  \* VISITORS_LIMIT
          GroupSize,      \* GROUP_SIZE
          Slots,          \* how many messages the message queue holds
          LastPhase       \* bound: the days (even) and nights (odd) looked at

ASSUME EntranceConstants ==
    /\ IsFiniteSet(Visitors) /\ VIPs \subseteq Visitors /\ Kids \in [Visitors -> Nat]
    /\ VisitorsLimit \in Nat \ {0} /\ GroupSize \in Nat \ {0} /\ Slots \in Nat /\ LastPhase \in Nat
    /\ \A v \in Visitors : 1 + Kids[v] <= GroupSize

VARIABLES
    visitor,        \* how far each visitor is: its process and its status
    visitors_data,  \* the registry: for each slot the visitors that took it, or none yet
    visitor_sem,
    fifo,           \* the ticket queues of VIPs (TRUE) and others (FALSE)
    cashier,        \* where the cashier is in its code
    current,        \* the visitor it serves, as a set
    night, setup_today, visitors_today,
    cashier_wake,   \* SIG_WAKE_UP is pending for the cashier
    tickets, letters,
    guide,          \* where each guide is in its code
    group,          \* group[g]: the slots it has pointers to, groups[0 .. group_count - 1]
    sent,           \* sent[g]: for how many of them it has sent a letter
    in_group,       \* visitors_in_group
    held,           \* held[g]: the visitor it has taken off the queue, as a set
    leave_park,     \* guides whose leave_park is set
    phase           \* what b_get_time_of_day() tells: day 0, night 1, day 2, ...

streetVars == << visitors_data, visitor_sem, fifo >>
deskVars == << cashier, current, night, setup_today, visitors_today >>
mailVars == << cashier_wake, tickets, letters >>
guideVars == << guide, group, sent, in_group, held, leave_park >>
vars == << visitor, streetVars, deskVars, mailVars, guideVars, phase >>

Registry == 1 .. VisitorsLimit
CashierStates == {"opening", "top", "flushing", "polling", "selling", "checking", "waiting", "sending"}
GuideStates == {"gathering", "asleep", "checking", "holding", "touring", "at cash"}
VisitorStates == {"unborn", "spawned", "registered", "queueing", "admitted", "following",
                  "touring", "lettered", "leaving", "zombie", "gone"}

TypeOK ==
    /\ visitor \in [Visitors -> VisitorStates]
    /\ visitors_data \in [Registry -> SUBSET Visitors]
    /\ visitor_sem \in Nat
    /\ fifo \in [BOOLEAN -> Seq(Visitors)]
    /\ cashier \in CashierStates
    /\ current \in SUBSET Visitors
    /\ night \in BOOLEAN /\ setup_today \in BOOLEAN /\ visitors_today \in Nat
    /\ cashier_wake \in BOOLEAN /\ tickets \in Seq(Visitors) /\ letters \in Seq(Visitors)
    /\ guide \in [Guides -> GuideStates]
    /\ group \in [Guides -> Seq(Registry)] /\ sent \in [Guides -> Nat] /\ in_group \in [Guides -> Nat]
    /\ held \in [Guides -> SUBSET Visitors] /\ leave_park \subseteq Guides
    /\ phase \in 0 .. LastPhase

Init ==
    /\ visitor = [v \in Visitors |-> "unborn"]
    /\ visitors_data = [i \in Registry |-> {}] /\ visitor_sem = VisitorsLimit
    /\ fifo = [vip \in BOOLEAN |-> << >>]
    /\ cashier = "opening" /\ current = {}
    /\ night = FALSE /\ setup_today = FALSE /\ visitors_today = 0
    /\ cashier_wake = FALSE /\ tickets = << >> /\ letters = << >>
    /\ guide = [g \in Guides |-> "gathering"] /\ group = [g \in Guides |-> << >>]
    /\ sent = [g \in Guides |-> 0] /\ in_group = [g \in Guides |-> 0] /\ held = [g \in Guides |-> {}]
    /\ leave_park = {} /\ phase = 0

Night == phase % 2 = 1
Become(v, state) == visitor' = [visitor EXCEPT ![v] = state]
GuideGoto(g, label) == guide' = [guide EXCEPT ![g] = label]
Exists(v) == visitor[v] \notin {"unborn", "gone"}
(* Mutant: a slot that was taken once is never given again. *)
TakenForGood(i) == visitors_data[i] # {}

Taken(i) == \E v \in visitors_data[i] : Exists(v)

(* b_msq_available_slots; msgsnd waits for Room. *)
Available == Slots - Len(tickets) - Len(letters)
Room == Available > 0

(* b_get_time_of_day. *)
Clock ==
    /\ phase < LastPhase /\ phase' = phase + 1
    /\ UNCHANGED << visitor, streetVars, deskVars, mailVars, guideVars >>

----------------------------------------------------------------------------
(* The spawner, the reaper, and a visitor until it queues for a ticket *)

(* Mutant: the spawner does not wait for its semaphore. *)
SpawnAnyway(v) ==
    /\ visitor[v] = "unborn"
    /\ visitor_sem' = visitor_sem - 1
    /\ Become(v, "spawned")
    /\ UNCHANGED << visitors_data, fifo, deskVars, mailVars, guideVars, phase >>

Spawn(v) ==
    /\ visitor[v] = "unborn" /\ visitor_sem > 0
    /\ visitor_sem' = visitor_sem - 1
    /\ Become(v, "spawned")
    /\ UNCHANGED << visitors_data, fifo, deskVars, mailVars, guideVars, phase >>

(* register_visitor, under MUTEX_ALLOC_VISITOR: the first slot without a   *)
(* process; a visitor that finds none ends.                                *)
Register(v) ==
    /\ visitor[v] = "spawned"
    /\ \/ /\ \A i \in Registry : Taken(i)
          /\ Become(v, "zombie") /\ UNCHANGED visitors_data
       \/ \E i \in Registry :
             /\ ~Taken(i) /\ \A j \in 1 .. i - 1 : Taken(j)
             /\ visitors_data' = [visitors_data EXCEPT ![i] = {v}]
             /\ Become(v, "registered")
    /\ UNCHANGED << visitor_sem, fifo, deskVars, mailVars, guideVars, phase >>

(* VS_NONE *)
Queue(v) ==
    /\ visitor[v] = "registered"
    /\ fifo' = [fifo EXCEPT ![v \in VIPs] = Append(@, v)]
    /\ Become(v, "queueing")
    /\ UNCHANGED << visitors_data, visitor_sem, deskVars, mailVars, guideVars, phase >>

(* A VIP is on its own; at the end it tells the cashier. *)
VipLeave(v) ==
    /\ visitor[v] = "touring" /\ Room
    /\ letters' = Append(letters, v)
    /\ Become(v, "lettered")
    /\ UNCHANGED << streetVars, deskVars, cashier_wake, tickets, guideVars, phase >>

(* SIGINT arrives. *)
Exit(v) ==
    /\ visitor[v] = "leaving"
    /\ Become(v, "zombie")
    /\ UNCHANGED << streetVars, deskVars, mailVars, guideVars, phase >>

(* zombie_cleaner *)
Reap(v) ==
    /\ visitor[v] = "zombie"
    /\ visitor_sem' = visitor_sem + 1
    /\ Become(v, "gone")
    /\ UNCHANGED << visitors_data, fifo, deskVars, mailVars, guideVars, phase >>

----------------------------------------------------------------------------
(* The cashier and its leaving thread *)

(* b_fifo_open returns when a visitor has opened the other end. *)
Open ==
    /\ cashier = "opening" /\ \E v \in Visitors : visitor[v] # "unborn"
    /\ cashier' = "top"
    /\ UNCHANGED << visitor, streetVars, current, night, setup_today, visitors_today, mailVars,
                    guideVars, phase >>

(* The top of the loop: the setup of a day, the round at nightfall. *)
Top ==
    /\ cashier = "top"
    /\ \/ /\ ~Night /\ ~setup_today
          /\ setup_today' = TRUE /\ night' = FALSE /\ visitors_today' = 0
          /\ UNCHANGED << cashier, leave_park >>
       \/ /\ Night /\ setup_today
          /\ night' = TRUE /\ leave_park' = Guides /\ cashier' = "flushing"
          /\ UNCHANGED << setup_today, visitors_today >>
       \/ /\ Night # setup_today
          /\ cashier' = "polling"
          /\ UNCHANGED << night, setup_today, visitors_today, leave_park >>
    /\ UNCHANGED << visitor, streetVars, current, mailVars, guide, group, sent, in_group, held, phase >>

(* The waiting visitors are dismissed one by one. *)
Flush ==
    /\ cashier = "flushing"
    /\ \/ /\ tickets # << >>
          /\ tickets' = Tail(tickets) /\ Become(Head(tickets), "leaving")
          /\ UNCHANGED << cashier, setup_today >>
       \/ /\ tickets = << >>
          /\ setup_today' = FALSE /\ cashier' = "polling"
          /\ UNCHANGED << visitor, tickets >>
    /\ UNCHANGED << streetVars, current, night, visitors_today, cashier_wake, letters, guideVars, phase >>

(* poll returns at once when nobody has the other end of the fifos open.   *)
HungUp ==
    /\ cashier = "polling"
    /\ \A v \in Visitors : visitor[v] \in {"unborn", "spawned", "zombie", "gone"}
    /\ cashier' = "top"
    /\ UNCHANGED << visitor, streetVars, current, night, setup_today, visitors_today, mailVars,
                    guideVars, phase >>

(* VIPs first; at night, or over the limit of the day, the visitor is      *)
(* dismissed.                                                              *)
Call ==
    /\ cashier = "polling"
    /\ \E vip \in BOOLEAN :
          /\ fifo[vip] # << >> /\ (vip \/ fifo[TRUE] = << >>)
          /\ fifo' = [fifo EXCEPT ![vip] = Tail(@)]
          /\ LET v == Head(fifo[vip])
             IN  IF night \/ 1 + Kids[v] + visitors_today > VisitorsLimit
                 THEN Become(v, "leaving") /\ cashier' = "top" /\ UNCHANGED current
                 ELSE current' = {v} /\ cashier' = "selling" /\ UNCHANGED visitor
    /\ UNCHANGED << visitors_data, visitor_sem, night, setup_today, visitors_today, mailVars,
                    guideVars, phase >>

(* sell_ticket: a VIP goes its way, the others wait for a guide. *)
Sell ==
    /\ cashier = "selling"
    /\ visitors_today' = visitors_today + 1
    /\ \E v \in current :
          IF v \in VIPs
          THEN Become(v, "touring") /\ cashier' = "top" /\ current' = {}
          ELSE Become(v, "admitted") /\ cashier' = "checking" /\ UNCHANGED current
    /\ UNCHANGED << streetVars, night, setup_today, mailVars, guideVars, phase >>

(* One slot of the message queue is to stay free. *)
CheckSlots ==
    /\ cashier = "checking"
    /\ cashier' = IF Available > 1 THEN "sending" ELSE "waiting"
    /\ UNCHANGED << visitor, streetVars, current, night, setup_today, visitors_today, mailVars,
                    guideVars, phase >>

CashierWake ==
    /\ cashier = "waiting" /\ cashier_wake
    /\ cashier_wake' = FALSE /\ cashier' = "checking"
    /\ UNCHANGED << visitor, streetVars, current, night, setup_today, visitors_today, tickets,
                    letters, guideVars, phase >>

SendTicket ==
    /\ cashier = "sending" /\ Room
    /\ \E v \in current : tickets' = Append(tickets, v)
    /\ cashier' = "top" /\ current' = {}
    /\ UNCHANGED << visitor, streetVars, night, setup_today, visitors_today, cashier_wake, letters,
                    guideVars, phase >>

(* print_leaving *)
LeavingThread ==
    /\ letters # << >>
    /\ letters' = Tail(letters) /\ cashier_wake' = TRUE
    /\ Become(Head(letters), "leaving")
    /\ UNCHANGED << streetVars, deskVars, tickets, guideVars, phase >>

----------------------------------------------------------------------------
(* The guides *)

(* The next visitor joins the group if it fits. *)
Take(g) ==
    /\ guide[g] = "gathering" /\ tickets # << >>
    /\ tickets' = Tail(tickets) /\ cashier_wake' = TRUE
    /\ LET v == Head(tickets)
       IN  \/ /\ in_group[g] + Kids[v] + 1 <= GroupSize
             /\ \E i \in Registry :
                   visitors_data[i] = {v} /\ group' = [group EXCEPT ![g] = Append(@, i)]
             /\ in_group' = [in_group EXCEPT ![g] = @ + Kids[v] + 1]
             /\ Become(v, "following") /\ GuideGoto(g, "checking")
             /\ UNCHANGED held
          \/ /\ in_group[g] + Kids[v] + 1 > GroupSize
             /\ held' = [held EXCEPT ![g] = {v}] /\ GuideGoto(g, "holding")
             /\ UNCHANGED << visitor, group, in_group >>
    /\ UNCHANGED << streetVars, deskVars, letters, sent, leave_park, phase >>

(* Mutant: the visitor that does not fit is not sent back. *)
PutBackForgotten(g) ==
    /\ guide[g] = "holding"
    /\ held' = [held EXCEPT ![g] = {}] /\ GuideGoto(g, "checking")
    /\ UNCHANGED << visitor, streetVars, deskVars, mailVars, group, sent, in_group, leave_park, phase >>

(* It goes back to the end of the queue. *)
PutBack(g) ==
    /\ guide[g] = "holding" /\ Room
    /\ \E v \in held[g] : tickets' = Append(tickets, v)
    /\ held' = [held EXCEPT ![g] = {}] /\ GuideGoto(g, "checking")
    /\ UNCHANGED << visitor, streetVars, deskVars, cashier_wake, letters, group, sent, in_group, leave_park, phase >>

(* Nobody waits: the guide looks again, after the night if it is night. *)
FindNobody(g) ==
    /\ guide[g] = "gathering" /\ tickets = << >>
    /\ cashier_wake' = TRUE
    /\ GuideGoto(g, IF Night THEN "asleep" ELSE "checking")
    /\ UNCHANGED << visitor, streetVars, deskVars, tickets, letters, group, sent, in_group, held, leave_park, phase >>

Rise(g) ==
    /\ guide[g] = "asleep" /\ ~Night
    /\ GuideGoto(g, "checking")
    /\ UNCHANGED << visitor, streetVars, deskVars, mailVars, group, sent, in_group, held, leave_park, phase >>

Homeward(g) == in_group[g] > 0 /\ (Night \/ g \in leave_park)

GoOn(g) ==
    /\ guide[g] = "checking" /\ in_group[g] < GroupSize /\ ~Homeward(g)
    /\ GuideGoto(g, "gathering")
    /\ UNCHANGED << visitor, streetVars, deskVars, mailVars, group, sent, in_group, held, leave_park, phase >>

(* Mutant: a group that is not complete waits for more. *)
DepartComplete(g) ==
    /\ guide[g] = "checking" /\ (in_group[g] >= GroupSize \/ Homeward(g))
    /\ GuideGoto(g, IF Homeward(g) THEN "at cash" ELSE "touring")
    /\ UNCHANGED << visitor, streetVars, deskVars, mailVars, group, sent, in_group, held, leave_park, phase >>

(* The group is complete, or GUIDES_GATHER_WAIT is over, or it must go home. *)
Depart(g) ==
    /\ guide[g] = "checking" /\ in_group[g] > 0
    /\ GuideGoto(g, IF Homeward(g) THEN "at cash" ELSE "touring")
    /\ UNCHANGED << visitor, streetVars, deskVars, mailVars, group, sent, in_group, held, leave_park, phase >>

TourEnd(g) ==
    /\ guide[g] = "touring"
    /\ GuideGoto(g, "at cash")
    /\ UNCHANGED << visitor, streetVars, deskVars, mailVars, group, sent, in_group, held, leave_park, phase >>

(* GS_AT_CASH: a letter for each of the group.  The pointers stay until    *)
(* all are sent, so those before sent[g] may by then lead to a stranger.   *)
Letter(g) ==
    /\ guide[g] = "at cash" /\ sent[g] < Len(group[g]) /\ Room
    /\ \E v \in visitors_data[group[g][sent[g] + 1]] :
          letters' = Append(letters, v) /\ Become(v, "lettered")
    /\ sent' = [sent EXCEPT ![g] = @ + 1]
    /\ UNCHANGED << streetVars, deskVars, cashier_wake, tickets, guide, group, in_group, held, leave_park, phase >>

(* Mutant: the pointers are kept for the next tour. *)
FinishKeepsGroup(g) ==
    /\ guide[g] = "at cash" /\ sent[g] = Len(group[g])
    /\ leave_park' = leave_park \ {g}
    /\ sent' = [sent EXCEPT ![g] = 0]
    /\ in_group' = [in_group EXCEPT ![g] = 0]
    /\ GuideGoto(g, "gathering")
    /\ UNCHANGED << visitor, streetVars, deskVars, mailVars, group, held, phase >>

Finish(g) ==
    /\ guide[g] = "at cash" /\ sent[g] = Len(group[g])
    /\ leave_park' = leave_park \ {g}
    /\ group' = [group EXCEPT ![g] = << >>] /\ sent' = [sent EXCEPT ![g] = 0]
    /\ in_group' = [in_group EXCEPT ![g] = 0]
    /\ GuideGoto(g, "gathering")
    /\ UNCHANGED << visitor, streetVars, deskVars, mailVars, held, phase >>

(* handle_park: the command `leave` of the command line. *)
Command(g) ==
    /\ leave_park' = leave_park \union {g}
    /\ UNCHANGED << visitor, streetVars, deskVars, mailVars, guide, group, sent, in_group, held, phase >>

----------------------------------------------------------------------------
VisitorStep(v) == Register(v) \/ Queue(v) \/ VipLeave(v) \/ Exit(v) \/ Reap(v)

CashierStep ==
    \/ Open \/ Top \/ Flush \/ HungUp \/ Call \/ Sell
    \/ CheckSlots \/ CashierWake \/ SendTicket

GuideStep(g) ==
    \/ Take(g) \/ PutBack(g) \/ FindNobody(g) \/ Rise(g) \/ GoOn(g)
    \/ Depart(g) \/ TourEnd(g) \/ Letter(g) \/ Finish(g)

Next ==
    \/ Clock \/ CashierStep \/ LeavingThread
    \/ \E v \in Visitors : Spawn(v) \/ VisitorStep(v)
    \/ \E g \in Guides : GuideStep(g) \/ Command(g)

(* Every process is scheduled and time passes; a guide that gathers comes  *)
(* to the end of GUIDES_GATHER_WAIT (its clock starts again only when a    *)
(* visitor joins); nothing says that visitors keep coming.                 *)
Fairness ==
    /\ WF_vars(Clock) /\ WF_vars(CashierStep) /\ WF_vars(LeavingThread)
    /\ \A v \in Visitors : WF_vars(VisitorStep(v))
    /\ \A g \in Guides : WF_vars(GuideStep(g)) /\ SF_vars(Depart(g))

Spec == Init /\ [][Next]_vars
FairSpec == Spec /\ Fairness

----------------------------------------------------------------------------
(* Properties *)

(* The semaphore of the spawner leaves a slot of the registry for every    *)
(* visitor that has yet to register (main.c:22), so none is turned away.   *)
RegistryHasRoom ==
    \A v \in Visitors : visitor[v] = "spawned" => \E i \in Registry : ~Taken(i)

InQueue(v, q) == {i \in DOMAIN q : q[i] = v}
Unsent(g) == {i \in DOMAIN group[g] : guide[g] = "at cash" => i > sent[g]}
InGroup(v, g) == {i \in Unsent(g) : visitors_data[group[g][i]] = {v}}

(* A visitor with a ticket is in the hands of exactly one process: the     *)
(* cashier, the queue for a guide, the guide that found no room for it,    *)
(* the guide whose group it is in, or the leaving thread.                  *)
NobodyLost ==
    \A v \in Visitors : visitor[v] \in {"admitted", "following", "lettered"} =>
        Cardinality(InQueue(v, tickets)) + Cardinality(InQueue(v, letters))
          + Cardinality({g \in Guides : v \in held[g]})
          + Cardinality(UNION {{g} \X InGroup(v, g) : g \in Guides})
          + (IF v \in current THEN 1 ELSE 0) = 1

(* The pointers of a guide on its tour, and at the cash those whose letter *)
(* it has yet to send, are to living visitors that follow it: on the tour  *)
(* its handlers (guide.c:43) signal nobody else, and no letter is for a    *)
(* stranger.  (Of the pointers whose letter is sent it would be false.)    *)
PointersValid ==
    \A g \in Guides : \A i \in Unsent(g) :
        \E v \in Visitors : visitors_data[group[g][i]] = {v} /\ visitor[v] = "following"

(* Whoever comes goes home: when all have come, sooner or later nobody is  *)
(* left in the park, nor waiting for the reaper.                           *)
EveryoneLeaves == <>[](\A v \in Visitors : visitor[v] \in {"unborn", "gone"})

(* The slot the cashier keeps free prevents deadlocks (cashier.c:302): it  *)
(* is never so that the cashier waits for a wake-up while all the guides   *)
(* wait for room in the queue and there is no letter to make some.         *)
WaitsForRoom(g) == ~Room /\ (guide[g] = "holding" \/ (guide[g] = "at cash" /\ Unsent(g) # {}))
NoStandstill ==
    ~ (cashier = "waiting" /\ ~cashier_wake /\ letters = << >> /\ \A g \in Guides : WaitsForRoom(g))
=============================================================================
