------------------------------ MODULE Shutdown ------------------------------
(***************************************************************************)
(* The end of the simulation: SIGINT to the whole process group, and how   *)
(* each process comes to notice it.  main.c with its spawner, reaper and   *)
(* end_simulation; the start and the main loop of visitor.c, guide.c and   *)
(* cashier.c with the calls of utils.h in which they wait.                 *)
(*                                                                         *)
(* A process tests kill_requested and then enters a system call.  A signal *)
(* that arrives in the call interrupts it; one that arrives between the    *)
(* test and the call is noticed only if the handler left something behind  *)
(* for the call to find.  Of a tour there is the tower and its check-in:   *)
(* the bridge and the ferry wait in the same calls.  It is day.            *)
(***************************************************************************)
EXTENDS Integers, FiniteSets

CONSTANTS Members,     \* the regular visitor processes; no process id is used twice
          VIPs,        \* the VIP visitor processes
          Guides,      \* the guide processes
          Cashier,     \* the cashier process
          Main,        \* the first process
          VisitorsLimit,  \* VISITORS_LIMIT
          TowerLimit,  \* TOWER_LIMIT
          Slots        \* how many messages the cashier's message queue holds

Visitors == Members \union VIPs
Children == Visitors \union Guides \union {Cashier}
Processes == Children \union {Main}

ASSUME ShutdownConstants ==
    /\ IsFiniteSet(Visitors) /\ IsFiniteSet(Guides)
    /\ Members \intersect VIPs = {} /\ Visitors \intersect Guides = {}
    /\ Cashier \notin Visitors \union Guides /\ Main \notin Children
    /\ VisitorsLimit \in Nat \ {0} /\ TowerLimit \in Nat \ {0} /\ Slots \in Nat \ {0, 1}

VARIABLES
    pc,              \* where each process is in its code
    blocked,         \* those inside the system call they have come to
    kill_requested,  \* those whose kill_requested is set
    wake,            \* those with SIG_WAKE_UP pending
    visitor_sem,
    readers,         \* main has the reading ends of the fifos open
    status,          \* visitor_data_t.status; AWAITING_GUIDE stands for FOLLOWING_GUIDE too
    callers,         \* the visitors whose process id is in a fifo
    current,         \* the visitor the cashier serves, as a set
    tickets, letters,  \* the cashier's message queue
    group,           \* the group of each guide
    inbox, checkins, \* the members that have checked in: not yet counted, counted
    sem              \* the value of SEM_TOWER

deskVars == << callers, current, tickets, letters >>
tourVars == << group, inbox, checkins, sem >>
vars == << pc, blocked, kill_requested, wake, visitor_sem, readers, status, deskVars, tourVars >>

Calls == {"sem_wait", "open regular", "open vip", "sigwaitinfo", "semop", "msgrcv", "msgsnd", "poll"}
Gone == {"zombie", "reaped"}
MainStates == {"top", "sem_wait", "fork", "ending", "signalling", "collecting", "done"}
ChildStates == (Calls \ {"sem_wait"}) \union Gone \union
    {"unborn", "forked", "starting", "init", "open next", "register", "top", "up", "down",
     "selling", "checking", "touring", "leaving", "at cash"}

TypeOK ==
    /\ pc \in [Processes -> MainStates \union ChildStates]
    /\ pc[Main] \in MainStates /\ \A p \in Children : pc[p] \in ChildStates
    /\ blocked \subseteq Processes /\ kill_requested \subseteq Processes
    /\ wake \subseteq Children
    /\ visitor_sem \in Nat /\ readers \in BOOLEAN
    /\ status \in [Visitors -> {"NONE", "AWAITING_TICKET", "AWAITING_GUIDE", "AT_TOWER_QUEUE"}]
    /\ callers \subseteq Visitors /\ current \subseteq Visitors
    /\ tickets \subseteq Members /\ letters \subseteq Visitors
    /\ group \in [Guides -> SUBSET Members]
    /\ inbox \subseteq Members /\ checkins \subseteq Members /\ sem \in Nat

(* The cashier and the guides have been forked when main comes to its      *)
(* loop.                                                                   *)
Init ==
    /\ pc = [p \in Processes |-> IF p = Main THEN "top" ELSE IF p \in Visitors THEN "unborn" ELSE "forked"]
    /\ blocked = {} /\ kill_requested = {} /\ wake = {}
    /\ visitor_sem = VisitorsLimit /\ readers = FALSE
    /\ status = [v \in Visitors |-> "NONE"]
    /\ callers = {} /\ current = {} /\ tickets = {} /\ letters = {}
    /\ group = [g \in Guides |-> {}] /\ inbox = {} /\ checkins = {} /\ sem = TowerLimit

Killed(p) == p \in kill_requested
Goto(p, label) == pc' = [pc EXCEPT ![p] = label] /\ blocked' = blocked \ {p}
GotoUnlessKilled(p, label) == Goto(p, IF Killed(p) THEN "zombie" ELSE label)
Alive == {p \in Children : pc[p] \notin Gone \union {"unborn"}}
Signal(S) == wake' = wake \union (S \intersect Alive)

----------------------------------------------------------------------------
(* System calls and SIGINT *)

(* The states of a visitor in which it holds a fifo open for writing, and  *)
(* those of the cashier in which it holds it open for reading.             *)
Before(f) == {"unborn", "forked", "starting", "init", "open regular"}
                \union (IF f = "open vip" THEN {"open next", "open vip"} ELSE {})
Writers(f) == {v \in Visitors : pc[v] \notin Before(f) \union Gone}
CashierReads(f) == pc[Cashier] \notin Before(f) \union Gone

(* What the call that p has come to waits for. *)
Available == Slots - Cardinality(tickets) - Cardinality(letters)
Ready(p) ==
    CASE pc[p] = "sem_wait" -> visitor_sem > 0
      [] pc[p] \in {"open regular", "open vip"} /\ p # Cashier ->
            readers \/ CashierReads(pc[p]) \/ (Cashier \in blocked /\ pc[Cashier] = pc[p])
      [] pc[p] \in {"open regular", "open vip"} /\ p = Cashier ->
            Writers(pc[p]) # {} \/ \E v \in blocked : pc[v] = pc[p]
      [] pc[p] = "sigwaitinfo" -> p \in wake
      [] pc[p] = "semop" -> sem > 0
      [] pc[p] = "msgrcv" -> group[p] \intersect inbox # {}
      [] pc[p] = "msgsnd" -> Available > 0
      [] pc[p] = "poll" -> callers # {} \/ Writers("open vip") = {}

Block(p) ==
    /\ pc[p] \in Calls /\ p \notin blocked /\ ~Ready(p)
    /\ blocked' = blocked \union {p}
    /\ UNCHANGED << pc, kill_requested, wake, visitor_sem, readers, status, deskVars, tourVars >>

(* Mutant: a wait for a semaphore or for messages goes on after a signal   *)
(* without a look at kill_requested.                                       *)
InterruptedGoesOn(p) ==
    CASE pc[p] = "sem_wait" -> "fork"
      [] pc[p] \in {"open regular", "open vip"} -> "zombie"
      [] pc[p] \in {"sigwaitinfo", "poll"} -> "top"
      [] pc[p] \in {"semop", "msgrcv"} -> pc[p]
      [] pc[p] = "msgsnd" -> IF p \in Guides THEN "at cash" ELSE "top"

(* Where a process goes on that was interrupted in a call. *)
Interrupted(p) ==
    CASE pc[p] = "sem_wait" -> "fork"
      [] pc[p] \in {"open regular", "open vip"} -> "zombie"
      [] pc[p] \in {"sigwaitinfo", "msgrcv", "poll"} -> "top"
      [] pc[p] = "semop" -> "up"
      [] pc[p] = "msgsnd" -> IF p \in Guides THEN "at cash" ELSE "top"

NextHome(g) == CHOOSE v \in group[g] : TRUE

(* kill() marks all its targets at once, and none of them enters or leaves *)
(* a system call before it has handled the signal.  A process that has yet *)
(* to exec runs the handler of main in its own copy of main's memory; one  *)
(* without handlers is terminated; in the others handle_kill notes the     *)
(* signal, and those of visitors and guides raise SIG_WAKE_UP.             *)
Noting(S) == {p \in S : pc[p] \notin {"forked", "starting"}}
Struck(S) == [p \in Processes |-> IF p \in S /\ pc[p] = "starting" THEN "zombie"
                                  ELSE IF p \in S \intersect blocked THEN Interrupted(p) ELSE pc[p]]

(* Mutant: the handlers do not raise SIG_WAKE_UP. *)
StrikeSilently(S, woken) ==
    /\ blocked' = blocked \ S
    /\ kill_requested' = kill_requested \union Noting(S)
    /\ wake' = wake \union woken
    /\ group' = [g \in Guides |-> IF g \in S \intersect blocked /\ pc[g] = "msgsnd"
                                  THEN group[g] \ {NextHome(g)} ELSE group[g]]

Strike(S, woken) ==
    /\ blocked' = blocked \ S
    /\ kill_requested' = kill_requested \union Noting(S)
    /\ wake' = wake \union woken \union (Noting(S) \intersect (Visitors \union Guides))
    /\ group' = [g \in Guides |-> IF g \in S \intersect blocked /\ pc[g] = "msgsnd"
                                  THEN group[g] \ {NextHome(g)} ELSE group[g]]

(* Somebody interrupts the whole process group, once or again. *)
Interrupt ==
    /\ pc[Main] # "done"
    /\ Strike(Alive \union {Main}, {}) /\ pc' = Struck(Alive \union {Main})
    /\ UNCHANGED << visitor_sem, readers, status, deskVars, inbox, checkins, sem >>

----------------------------------------------------------------------------
(* main *)

Spawn ==
    /\ \/ /\ pc[Main] = "top"
          /\ Goto(Main, IF Killed(Main) THEN "ending" ELSE "sem_wait")
          /\ UNCHANGED visitor_sem
       \/ /\ pc[Main] = "sem_wait" /\ Ready(Main)
          /\ visitor_sem' = visitor_sem - 1
          /\ Goto(Main, "fork")
       \/ /\ pc[Main] = "fork" /\ Killed(Main)
          /\ Goto(Main, "ending")
          /\ UNCHANGED visitor_sem
       \/ /\ pc[Main] = "fork" /\ ~Killed(Main)
          /\ \E v \in Visitors :
                /\ pc[v] = "unborn"
                /\ pc' = [pc EXCEPT ![Main] = "top", ![v] = "forked"]
          /\ UNCHANGED << blocked, visitor_sem >>
    /\ UNCHANGED << kill_requested, wake, readers, status, deskVars, tourVars >>

(* zombie_cleaner until main ends it, then main itself. *)
Reap(p) ==
    /\ pc[p] = "zombie" /\ pc[Main] \notin {"signalling", "done"}
    /\ visitor_sem' = IF pc[Main] = "collecting" THEN visitor_sem ELSE visitor_sem + 1
    /\ Goto(p, "reaped")
    /\ UNCHANGED << kill_requested, wake, readers, status, deskVars, tourVars >>

(* Mutant: the fifos are not opened. *)
OpenNoReaders ==
    /\ pc[Main] = "ending"
    /\ Goto(Main, "signalling")
    /\ UNCHANGED << kill_requested, wake, visitor_sem, readers, status, deskVars, tourVars >>

(* end_simulation: the fifos are opened so that no visitor waits for a     *)
(* reader, everybody is signalled, and the children are waited for before  *)
(* the IPC objects are removed.                                            *)
OpenReaders ==
    /\ pc[Main] = "ending"
    /\ readers' = TRUE
    /\ Goto(Main, "signalling")
    /\ UNCHANGED << kill_requested, wake, visitor_sem, status, deskVars, tourVars >>

SignalAll ==
    /\ pc[Main] = "signalling"
    /\ Strike(Alive, {}) /\ pc' = [Struck(Alive) EXCEPT ![Main] = "collecting"]
    /\ UNCHANGED << visitor_sem, readers, status, deskVars, inbox, checkins, sem >>

Remove ==
    /\ pc[Main] = "collecting" /\ \A p \in Children : pc[p] \in {"unborn", "reaped"}
    /\ Goto(Main, "done")
    /\ UNCHANGED << kill_requested, wake, visitor_sem, readers, status, deskVars, tourVars >>

----------------------------------------------------------------------------
(* The start of every child *)

Exec(p) ==
    /\ \/ pc[p] = "forked" /\ Goto(p, "starting")
       \/ /\ pc[p] = "starting"
          /\ Goto(p, IF p = Cashier THEN "open regular" ELSE IF p \in Guides THEN "top" ELSE "init")
    /\ UNCHANGED << kill_requested, wake, visitor_sem, readers, status, deskVars, tourVars >>

(* A fifo opens when both ends are there. *)
Opened(p) == IF pc[p] = "open vip" THEN (IF p = Cashier THEN "top" ELSE "register")
             ELSE IF p = Cashier THEN "open vip" ELSE "open next"
Open(p) ==
    /\ pc[p] \in {"open regular", "open vip"} /\ Ready(p)
    /\ LET both == IF pc[Cashier] = pc[p] /\ Cashier \in blocked THEN {p, Cashier} ELSE {p}
       IN  /\ pc' = [q \in Processes |-> IF q \in both THEN Opened(q) ELSE pc[q]]
           /\ blocked' = blocked \ both
    /\ UNCHANGED << kill_requested, wake, visitor_sem, readers, status, deskVars, tourVars >>

Start(v) ==
    /\ \/ pc[v] = "init" /\ GotoUnlessKilled(v, "open regular")
       \/ pc[v] = "open next" /\ GotoUnlessKilled(v, "open vip")
       \/ pc[v] = "register" /\ GotoUnlessKilled(v, "top")
    /\ UNCHANGED << kill_requested, wake, visitor_sem, readers, status, deskVars, tourVars >>

----------------------------------------------------------------------------
(* Visitors *)

(* The loop of main with operate(): a visitor asks for a ticket (SIGPIPE   *)
(* ends it when nobody can read), goes up the tower or waits.              *)
Operate(v) ==
    /\ pc[v] = "top"
    /\ \/ Killed(v) /\ Goto(v, "zombie") /\ UNCHANGED << status, callers >>
       \/ /\ ~Killed(v) /\ status[v] = "NONE"
          /\ status' = [status EXCEPT ![v] = "AWAITING_TICKET"]
          /\ \/ /\ readers \/ CashierReads("open vip")
                /\ callers' = callers \union {v} /\ UNCHANGED << pc, blocked >>
             \/ ~(readers \/ CashierReads("open vip")) /\ Goto(v, "zombie") /\ UNCHANGED callers
       \/ /\ ~Killed(v) /\ status[v] # "NONE"
          /\ Goto(v, IF status[v] = "AT_TOWER_QUEUE" \/ (v \in VIPs /\ status[v] = "AWAITING_GUIDE")
                     THEN "semop" ELSE "sigwaitinfo")
          /\ UNCHANGED << status, callers >>
    /\ UNCHANGED << kill_requested, wake, visitor_sem, readers, current, tickets, letters, tourVars >>

WakeUp(v) ==
    /\ pc[v] = "sigwaitinfo" /\ Ready(v)
    /\ wake' = wake \ {v}
    /\ Goto(v, "top")
    /\ UNCHANGED << kill_requested, visitor_sem, readers, status, deskVars, tourVars >>

(* Up the tower: whoever is killed before the last of its states does not  *)
(* give back its place.                                                    *)
Climb(v) ==
    /\ \/ pc[v] = "semop" /\ Ready(v) /\ sem' = sem - 1 /\ Goto(v, "up")
       \/ pc[v] = "up" /\ GotoUnlessKilled(v, "down") /\ UNCHANGED sem
    /\ UNCHANGED << kill_requested, wake, visitor_sem, readers, status, deskVars, group, inbox, checkins >>

(* Down again: a member checks in, a VIP leaves. *)
Descend(v) ==
    /\ pc[v] = "down"
    /\ sem' = sem + 1
    /\ \/ v \in VIPs /\ Goto(v, "msgsnd") /\ UNCHANGED << status, inbox >>
       \/ /\ v \in Members
          /\ status' = [status EXCEPT ![v] = "AWAITING_GUIDE"]
          /\ inbox' = inbox \union {v}
          /\ Goto(v, "top")
    /\ UNCHANGED << kill_requested, wake, visitor_sem, readers, deskVars, group, checkins >>

VipLeave(v) ==
    /\ pc[v] = "msgsnd" /\ Ready(v)
    /\ letters' = letters \union {v}
    /\ status' = [status EXCEPT ![v] = "AWAITING_TICKET"]
    /\ Goto(v, "top")
    /\ UNCHANGED << kill_requested, wake, visitor_sem, readers, callers, current, tickets, tourVars >>

----------------------------------------------------------------------------
(* Guides *)

(* GS_GATHERING_GROUP *)
Gather(g) ==
    /\ pc[g] = "top"
    /\ \/ Killed(g) /\ Goto(g, "zombie") /\ UNCHANGED << wake, status, tickets, group >>
       \/ /\ ~Killed(g) /\ tickets = {} /\ Signal({Cashier})
          /\ UNCHANGED << pc, blocked, status, tickets, group >>
       \/ ~Killed(g) /\ \E v \in tickets :
             /\ tickets' = tickets \ {v}
             /\ group' = [group EXCEPT ![g] = @ \union {v}]
             /\ Signal({Cashier, v})
             /\ UNCHANGED << pc, blocked, status >>
       \/ ~Killed(g) /\ group[g] # {} /\ Goto(g, "touring") /\ UNCHANGED << wake, status, tickets, group >>
    /\ UNCHANGED << kill_requested, visitor_sem, readers, callers, current, letters, inbox, checkins, sem >>

(* GS_AT_TOWER *)
Tour(g) ==
    /\ pc[g] = "touring"
    /\ status' = [v \in Visitors |-> IF v \in group[g] THEN "AT_TOWER_QUEUE" ELSE status[v]]
    /\ Signal(group[g])
    /\ checkins' = checkins \ group[g]
    /\ Goto(g, IF Killed(g) THEN "top" ELSE "msgrcv")
    /\ UNCHANGED << kill_requested, visitor_sem, readers, deskVars, group, inbox, sem >>

CountIn(g) ==
    /\ pc[g] = "msgrcv" /\ Ready(g)
    /\ \E v \in group[g] \intersect inbox :
          /\ inbox' = inbox \ {v}
          /\ \/ Killed(g) /\ Goto(g, "top") /\ UNCHANGED checkins
             \/ /\ ~Killed(g)
                /\ checkins' = checkins \union {v}
                /\ Goto(g, IF group[g] \subseteq checkins' THEN "leaving" ELSE "msgrcv")
    /\ UNCHANGED << kill_requested, wake, visitor_sem, readers, status, deskVars, group, sem >>

(* GS_AT_CASH: kill_requested is not looked at between the letters. *)
Cash(g) ==
    /\ \/ pc[g] = "leaving" /\ GotoUnlessKilled(g, "at cash") /\ UNCHANGED << letters, group >>
       \/ /\ pc[g] = "at cash"
          /\ Goto(g, IF group[g] = {} THEN "top" ELSE "msgsnd")
          /\ UNCHANGED << letters, group >>
       \/ /\ pc[g] = "msgsnd" /\ Ready(g)
          /\ letters' = letters \union {NextHome(g)}
          /\ group' = [group EXCEPT ![g] = @ \ {NextHome(g)}]
          /\ Goto(g, "at cash")
    /\ UNCHANGED << kill_requested, wake, visitor_sem, readers, status, callers, current, tickets,
                    inbox, checkins, sem >>

----------------------------------------------------------------------------
(* The cashier *)

(* After the last day it interrupts main and ends. *)
Serve ==
    /\ pc[Cashier] = "top"
    /\ \/ GotoUnlessKilled(Cashier, "poll") /\ UNCHANGED << kill_requested, wake, group >>
       \/ /\ ~Killed(Cashier)
          /\ Strike({Main}, {}) /\ pc' = [Struck({Main}) EXCEPT ![Cashier] = "zombie"]
    /\ UNCHANGED << visitor_sem, readers, status, deskVars, inbox, checkins, sem >>

Call ==
    /\ pc[Cashier] = "poll" /\ Ready(Cashier)
    /\ \/ callers = {} /\ Goto(Cashier, "top") /\ UNCHANGED << callers, current >>
       \/ \E v \in callers :
             /\ v \in VIPs \/ callers \intersect VIPs = {}
             /\ callers' = callers \ {v} /\ current' = {v}
             /\ Goto(Cashier, "selling")
    /\ UNCHANGED << kill_requested, wake, visitor_sem, readers, status, tickets, letters, tourVars >>

(* Mutant: no return after a VIP has been let in. *)
SellToEverybody ==
    /\ pc[Cashier] = "selling"
    /\ IF Killed(Cashier) THEN Goto(Cashier, "top") /\ UNCHANGED << status, wake >>
       ELSE /\ status' = [v \in Visitors |-> IF v \in current THEN "AWAITING_GUIDE" ELSE status[v]]
            /\ Signal(current \intersect VIPs)
            /\ Goto(Cashier, "checking")
    /\ UNCHANGED << kill_requested, visitor_sem, readers, deskVars, tourVars >>

Sell ==
    /\ pc[Cashier] = "selling"
    /\ IF Killed(Cashier) THEN Goto(Cashier, "top") /\ UNCHANGED << status, wake >>
       ELSE /\ status' = [v \in Visitors |-> IF v \in current THEN "AWAITING_GUIDE" ELSE status[v]]
            /\ Signal(current \intersect VIPs)
            /\ Goto(Cashier, IF current \subseteq VIPs THEN "top" ELSE "checking")
    /\ UNCHANGED << kill_requested, visitor_sem, readers, deskVars, tourVars >>

SendTicket ==
    /\ \/ /\ pc[Cashier] = "checking"
          /\ Goto(Cashier, IF Available > 1 THEN "msgsnd" ELSE "sigwaitinfo")
          /\ UNCHANGED << wake, tickets >>
       \/ /\ pc[Cashier] = "sigwaitinfo" /\ Ready(Cashier)
          /\ wake' = wake \ {Cashier}
          /\ Goto(Cashier, IF Killed(Cashier) THEN "top" ELSE "checking")
          /\ UNCHANGED tickets
       \/ /\ pc[Cashier] = "msgsnd" /\ Ready(Cashier)
          /\ tickets' = tickets \union current
          /\ Signal(current)
          /\ Goto(Cashier, "top")
    /\ UNCHANGED << kill_requested, visitor_sem, readers, status, callers, current, letters, tourVars >>

(* print_leaving, while the cashier's process lives.  VS_LEAVING, which it *)
(* writes, ends a visitor as its SIGINT does.                              *)
LeavingThread ==
    /\ pc[Cashier] \notin Before("open vip") \union Gone
    /\ \E v \in letters :
          /\ letters' = letters \ {v}
          /\ Strike({v} \intersect Alive, {Cashier}) /\ pc' = Struck({v} \intersect Alive)
    /\ UNCHANGED << visitor_sem, readers, status, callers, current, tickets, inbox, checkins, sem >>

----------------------------------------------------------------------------
MainStep == Spawn \/ OpenReaders \/ SignalAll \/ Remove \/ Block(Main)
VisitorStep(v) ==
    \/ Exec(v) \/ Open(v) \/ Start(v) \/ Operate(v) \/ WakeUp(v) \/ Climb(v) \/ Descend(v)
    \/ VipLeave(v) \/ Block(v)
GuideStep(g) == Exec(g) \/ Gather(g) \/ Tour(g) \/ CountIn(g) \/ Cash(g) \/ Block(g)
CashierStep ==
    \/ Exec(Cashier) \/ Open(Cashier) \/ Serve \/ Call \/ Sell \/ SendTicket \/ Block(Cashier)

Next ==
    \/ Interrupt \/ MainStep \/ CashierStep \/ LeavingThread
    \/ \E v \in Visitors : VisitorStep(v)
    \/ \E g \in Guides : GuideStep(g)
    \/ \E p \in Children : Reap(p)

(* Every process runs on and is reaped; nobody needs to interrupt the      *)
(* simulation.                                                             *)
Fairness ==
    /\ WF_vars(MainStep) /\ WF_vars(CashierStep) /\ WF_vars(LeavingThread)
    /\ \A v \in Visitors : WF_vars(VisitorStep(v))
    /\ \A g \in Guides : WF_vars(GuideStep(g))
    /\ \A p \in Children : WF_vars(Reap(p))

Spec == Init /\ [][Next]_vars
FairSpec == Spec /\ Fairness

----------------------------------------------------------------------------
(* Properties *)

Ended(p) == pc[p] \in Gone \union {"unborn"}

(* Whoever has noted the signal ends, whatever it was about to wait for:   *)
(* the handlers leave a wake-up and main a reader.  Only semop, msgrcv and *)
(* msgsnd, for which nothing is left, may go on waiting.                   *)
NotedIsEnd ==
    \A p \in Visitors \union Guides :
        p \in kill_requested ~> (Ended(p) \/ pc[p] \in {"semop", "msgsnd", "msgrcv"})

(* When main waits for its children, no visitor that has noted the signal  *)
(* waits for a wake-up or a reader that nobody will bring.                 *)
NotedAreReady ==
    pc[Main] \in {"signalling", "collecting"} =>
        \A v \in Visitors \intersect kill_requested :
            pc[v] \in {"sigwaitinfo", "open regular", "open vip"} => Ready(v)

(* Who keeps interrupting the simulation brings it to its end. *)
AgainAndAgain == <>(pc[Main] = "done") \/ ~[]<><< Interrupt >>_vars
=============================================================================
