-------------------------- MODULE ShutdownProofs --------------------------
(***************************************************************************)
(* What holds at the end of the simulation for any visitors and guides and *)
(* any limits, however often somebody interrupts it: the types, that main  *)
(* removes the IPC objects last, and that visitors that have noted the     *)
(* signal do not sleep on.                                                 *)
(***************************************************************************)
EXTENDS Shutdown, TLAPS

(* The IPC objects are removed only when no process is left to use them. *)
NobodyLeft == pc[Main] = "done" => \A p \in Children : Ended(p)

PcKept ==
    /\ pc \in [Processes -> MainStates \union ChildStates]
    /\ pc[Main] \in MainStates /\ \A p \in Children : pc[p] \in ChildStates
    /\ blocked \subseteq Processes /\ \A p \in blocked : pc[p] \in Calls
    /\ NobodyLeft

DataKept ==
    /\ kill_requested \subseteq Processes /\ wake \subseteq Children
    /\ visitor_sem \in Nat /\ readers \in BOOLEAN
    /\ status \in [Visitors -> {"NONE", "AWAITING_TICKET", "AWAITING_GUIDE", "AT_TOWER_QUEUE"}]
    /\ callers \subseteq Visitors /\ current \subseteq Visitors
    /\ tickets \subseteq Members /\ letters \subseteq Visitors
    /\ group \in [Guides -> SUBSET Members]
    /\ inbox \subseteq Members /\ checkins \subseteq Members /\ sem \in Nat

(* The cashier sells tickets to members only, and a guide sends a letter   *)
(* for somebody of its group.                                              *)
DeskKept ==
    /\ current \subseteq Members \/ current \subseteq VIPs
    /\ pc[Cashier] \in {"checking", "sigwaitinfo", "msgsnd"} => current \subseteq Members
GuidesSend == \A g \in Guides : pc[g] = "msgsnd" => group[g] # {}

(* A visitor that has noted the signal has a wake-up pending, or has had   *)
(* it and is about to look at kill_requested.                              *)
NotedAreWoken ==
    \A v \in Visitors \intersect kill_requested : v \in wake \/ pc[v] \in {"top"} \union Gone
ReadersOpen == pc[Main] \in {"signalling", "collecting", "done"} => readers

Order == PcKept /\ DataKept /\ DeskKept /\ GuidesSend /\ NotedAreWoken /\ ReadersOpen

----------------------------------------------------------------------------
(* Where steps lead *)

LEMMA Kinds ==
    /\ \A v \in Visitors : v \in Children /\ v \in Processes /\ v \notin Guides /\ v # Cashier /\ v # Main
    /\ \A g \in Guides : g \in Children /\ g \in Processes /\ g \notin Visitors /\ g # Cashier /\ g # Main
    /\ Cashier \in Children /\ Cashier \in Processes /\ Cashier # Main
    /\ Cashier \notin Visitors /\ Cashier \notin Guides
    /\ Main \in Processes /\ Main \notin Children
    /\ Members \subseteq Visitors /\ VIPs \subseteq Visitors
    /\ Children \subseteq Processes
BY ShutdownConstants DEF Visitors, Children, Processes

LEMMA ChildGoes ==
    ASSUME PcKept, NEW p \in Children, pc[Main] # "done" \/ ~Ended(p),
           NEW l \in ChildStates, Goto(p, l)
    PROVE  /\ PcKept'
           /\ pc'[p] = l /\ \A q \in Processes \ {p} : pc'[q] = pc[q]
<1>1. pc' = [pc EXCEPT ![p] = l] /\ blocked' = blocked \ {p}
  BY DEF Goto
<1>2. pc'[p] = l /\ \A q \in Processes \ {p} : pc'[q] = pc[q]
  BY <1>1, Kinds DEF PcKept
<1>3. pc' \in [Processes -> MainStates \union ChildStates]
  BY <1>1, Kinds DEF PcKept
<1>4. pc[Main] # "done"
  BY DEF PcKept, NobodyLeft
<1> QED BY <1>1, <1>2, <1>3, <1>4, Kinds DEF PcKept, NobodyLeft

LEMMA MainGoes ==
    ASSUME PcKept, NEW l \in MainStates \ {"done"}, Goto(Main, l)
    PROVE  /\ PcKept'
           /\ pc'[Main] = l /\ \A q \in Processes \ {Main} : pc'[q] = pc[q]
<1>1. pc' = [pc EXCEPT ![Main] = l] /\ blocked' = blocked \ {Main}
  BY DEF Goto
<1>2. pc'[Main] = l /\ \A q \in Processes \ {Main} : pc'[q] = pc[q]
  BY <1>1, Kinds DEF PcKept
<1>3. pc' \in [Processes -> MainStates \union ChildStates]
  BY <1>1, Kinds DEF PcKept
<1> QED BY <1>1, <1>2, <1>3, Kinds DEF PcKept, NobodyLeft

(* A signal leaves everybody at a place of its own code, ends nobody that  *)
(* has ended and does not let main go on to its end.                       *)
LEMMA StruckGoes ==
    ASSUME PcKept, NEW S \in SUBSET Processes
    PROVE  /\ Struck(S) \in [Processes -> MainStates \union ChildStates]
           /\ Struck(S)[Main] \in MainStates
           /\ Struck(S)[Main] \in {pc[Main], "fork"}
           /\ \A p \in Children : Struck(S)[p] \in ChildStates
           /\ \A p \in Processes \ S : Struck(S)[p] = pc[p]
           /\ \A p \in Processes : p \notin blocked => Struck(S)[p] \in {pc[p], "zombie"}
           /\ \A p \in S \intersect blocked :
                 Struck(S)[p] \in {"fork", "zombie", "top", "up", "at cash"}
<1>1. \A p \in blocked : Interrupted(p) \in {"fork", "zombie", "top", "up", "at cash"}
  BY DEF PcKept, Calls, Interrupted
<1>2. \A p \in blocked : p \in Children => Interrupted(p) \in ChildStates
  <2> SUFFICES ASSUME NEW p \in blocked, p \in Children
               PROVE  Interrupted(p) \in ChildStates
    OBVIOUS
  <2>1. pc[p] # "sem_wait"
    BY DEF PcKept, ChildStates, Calls, Gone
  <2> QED BY <2>1 DEF PcKept, Calls, Interrupted, ChildStates, Gone
<1>3. Main \in blocked => Interrupted(Main) = "fork"
  BY DEF PcKept, Calls, Interrupted, MainStates
<1>4. pc[Main] # "starting"
  BY DEF PcKept, MainStates
<1>5. \A p \in Processes : p \in Children \/ p = Main
  BY DEF Processes
<1>6. "zombie" \in ChildStates /\ "fork" \in MainStates
  BY DEF ChildStates, Gone, MainStates
<1>7. \A p \in Processes :
         Struck(S)[p] = IF p \in S /\ pc[p] = "starting" THEN "zombie"
                        ELSE IF p \in S \intersect blocked THEN Interrupted(p) ELSE pc[p]
  BY DEF Struck
<1>8. Struck(S)[Main] \in MainStates /\ Struck(S)[Main] \in {pc[Main], "fork"}
  BY <1>3, <1>4, <1>6, <1>7, Kinds DEF PcKept
<1>9. \A p \in Children : Struck(S)[p] \in ChildStates
  BY <1>2, <1>6, <1>7, Kinds DEF PcKept
<1>10. Struck(S) \in [Processes -> MainStates \union ChildStates]
  <2>1. \A p \in Processes : Struck(S)[p] \in MainStates \union ChildStates
    BY <1>5, <1>8, <1>9
  <2> QED BY <2>1 DEF Struck
<1>11. \A p \in blocked : pc[p] # "starting"
  BY DEF PcKept, Calls
<1> QED BY <1>1, <1>7, <1>8, <1>9, <1>10, <1>11

LEMMA StrikeKeepsData ==
    ASSUME DataKept, NEW S \in SUBSET Processes, NEW woken \in SUBSET Children, Strike(S, woken)
    PROVE  /\ kill_requested' \subseteq Processes /\ wake' \subseteq Children
           /\ group' \in [Guides -> SUBSET Members]
           /\ \A v \in Visitors : v \in kill_requested' \ kill_requested => v \in wake'
           /\ \A v \in Visitors \intersect wake : v \in wake'
           /\ \A g \in Guides : group'[g] # group[g] => pc[g] = "msgsnd" /\ g \in S \intersect blocked
<1>1. Noting(S) \subseteq S
  BY DEF Noting
<1>2. \A g \in Guides : group'[g] = IF g \in S \intersect blocked /\ pc[g] = "msgsnd"
                                    THEN group[g] \ {NextHome(g)} ELSE group[g]
  BY DEF Strike
<1>3. group' \in [Guides -> SUBSET Members]
  BY DEF Strike, DataKept
<1> QED BY <1>1, <1>2, <1>3, Kinds DEF Strike, DataKept

LEMMA StruckKeepsOrder ==
    ASSUME Order, NEW S \in SUBSET Processes, NEW woken \in SUBSET Children, Strike(S, woken),
           pc' \in [Processes -> MainStates \union ChildStates],
           pc'[Main] \in MainStates \ {"done"}, pc'[Main] \in {"signalling", "collecting"} => readers,
           \A p \in Children : pc'[p] \in {Struck(S)[p], "zombie"},
           \A p \in blocked \ S : pc'[p] = pc[p],
           UNCHANGED << readers, current >>
    PROVE  PcKept' /\ DeskKept' /\ GuidesSend' /\ NotedAreWoken' /\ ReadersOpen'
<1>1. blocked' = blocked \ S
  BY DEF Strike
<1>2. /\ \A p \in Processes \ S : Struck(S)[p] = pc[p]
      /\ \A p \in Processes : p \notin blocked => Struck(S)[p] \in {pc[p], "zombie"}
      /\ \A p \in S \intersect blocked : Struck(S)[p] \in {"fork", "zombie", "top", "up", "at cash"}
      /\ \A p \in Children : Struck(S)[p] \in ChildStates
  BY StruckGoes DEF Order
<1>3. PcKept'
  <2>1. \A p \in Children : pc'[p] \in ChildStates
    BY <1>2 DEF ChildStates, Gone
  <2>2. blocked' \subseteq Processes /\ \A p \in blocked' : pc'[p] \in Calls
    BY <1>1 DEF Order, PcKept
  <2> QED BY <2>1, <2>2 DEF PcKept, NobodyLeft
<1>4. \A p \in Children : pc'[p] = pc[p] \/ pc'[p] \in {"fork", "zombie", "top", "up", "at cash"}
  BY <1>2, Kinds
<1>5. DeskKept'
  BY <1>4, Kinds DEF Order, DeskKept
<1>6. GuidesSend'
  <2> SUFFICES ASSUME NEW g \in Guides, pc'[g] = "msgsnd"
               PROVE  group'[g] # {}
    BY DEF GuidesSend
  <2>1. pc[g] = "msgsnd"
    BY <1>4, Kinds
  <2>2. g \notin S \intersect blocked
    BY <1>2, Kinds
  <2>3. group'[g] = group[g]
    BY <2>2, StrikeKeepsData DEF Order
  <2> QED BY <2>1, <2>3 DEF Order, GuidesSend
<1>7. NotedAreWoken'
  <2> SUFFICES ASSUME NEW v \in Visitors, v \in kill_requested', v \notin wake'
               PROVE  pc'[v] \in {"top"} \union Gone
    BY DEF NotedAreWoken
  <2>1. v \in kill_requested /\ v \notin wake
    BY StrikeKeepsData DEF Order
  <2>2. pc[v] \in {"top"} \union Gone
    BY <2>1 DEF Order, NotedAreWoken
  <2>3. v \notin blocked
    BY <2>2 DEF Order, PcKept, Calls, Gone
  <2>4. pc'[v] \in {pc[v], "zombie"}
    BY <1>2, <2>3, Kinds
  <2> QED BY <2>2, <2>4 DEF Gone
<1>8. ReadersOpen'
  BY DEF ReadersOpen
<1> QED BY <1>3, <1>5, <1>6, <1>7, <1>8

LEMMA SomebodyAlive ==
    ASSUME Order, NEW p \in Children, ~Ended(p)
    PROVE  pc[Main] # "done"
BY DEF Order, PcKept, NobodyLeft

(* What a step of one child has to keep, once it is known where it goes.   *)
LEMMA ChildKeepsOrder ==
    ASSUME Order, NEW p \in Children, NEW l \in ChildStates,
           pc[Main] # "done" \/ ~Ended(p), Goto(p, l),
           UNCHANGED << kill_requested, readers, current, group >>,
           \A v \in Visitors : v \in wake \ wake' => v = p /\ l = "top",
           p \in Visitors => l \in Gone \/ p \notin kill_requested \/ p \in wake,
           p = Cashier => (l \in {"checking", "sigwaitinfo", "msgsnd"} => current \subseteq Members),
           p \in Guides => (l = "msgsnd" => group[p] # {})
    PROVE  PcKept' /\ DeskKept' /\ GuidesSend' /\ NotedAreWoken' /\ ReadersOpen'
<1>1. /\ PcKept'
      /\ pc'[p] = l /\ \A q \in Processes \ {p} : pc'[q] = pc[q]
  BY ChildGoes DEF Order
<1>2. DeskKept'
  BY <1>1, Kinds DEF Order, DeskKept
<1>3. GuidesSend'
  BY <1>1, Kinds DEF Order, GuidesSend
<1>4. NotedAreWoken'
  <2> SUFFICES ASSUME NEW v \in Visitors, v \in kill_requested, v \notin wake'
               PROVE  pc'[v] \in {"top"} \union Gone
    BY DEF NotedAreWoken
  <2>1. CASE v # p
    <3>1. v \notin wake /\ pc'[v] = pc[v]
      BY <1>1, <2>1, Kinds
    <3> QED BY <3>1 DEF Order, NotedAreWoken
  <2>2. CASE v = p
    BY <1>1, <2>2 DEF Gone
  <2> QED BY <2>1, <2>2
<1>5. ReadersOpen'
  BY <1>1, Kinds DEF Order, ReadersOpen
<1> QED BY <1>1, <1>2, <1>3, <1>4, <1>5

----------------------------------------------------------------------------
(* Steps of main and signals *)

LEMMA SomeoneStruck ==
    ASSUME Order, NEW S \in SUBSET Processes, NEW woken \in SUBSET Children, Strike(S, woken),
           pc' = Struck(S), pc[Main] # "done", UNCHANGED << readers, current >>
    PROVE  PcKept' /\ DeskKept' /\ GuidesSend' /\ NotedAreWoken' /\ ReadersOpen'
<1>1. /\ pc' \in [Processes -> MainStates \union ChildStates]
      /\ pc'[Main] \in MainStates /\ pc'[Main] \in {pc[Main], "fork"}
      /\ \A p \in Children : pc'[p] \in {Struck(S)[p], "zombie"}
      /\ \A p \in Processes \ S : pc'[p] = pc[p]
  BY StruckGoes DEF Order
<1>2. \A p \in blocked \ S : pc'[p] = pc[p]
  BY <1>1 DEF Order, PcKept
<1>3. pc'[Main] \in {"signalling", "collecting"} => readers
  BY <1>1 DEF Order, ReadersOpen
<1> QED BY <1>1, <1>2, <1>3, StruckKeepsOrder

LEMMA AliveAreProcesses == Alive \subseteq Children /\ Alive \subseteq Processes
BY DEF Alive, Processes

LEMMA InterruptKeepsOrder ==
    ASSUME Order, Interrupt
    PROVE  Order'
<1>1. Alive \union {Main} \in SUBSET Processes
  BY AliveAreProcesses, Kinds
<1>2. Strike(Alive \union {Main}, {}) /\ pc' = Struck(Alive \union {Main}) /\ pc[Main] # "done"
  BY DEF Interrupt
<1>3. PcKept' /\ DeskKept' /\ GuidesSend' /\ NotedAreWoken' /\ ReadersOpen'
  BY <1>1, <1>2, SomeoneStruck DEF Interrupt, deskVars
<1>4. DataKept'
  <2>1. kill_requested' \subseteq Processes /\ wake' \subseteq Children
        /\ group' \in [Guides -> SUBSET Members]
    BY <1>1, <1>2, StrikeKeepsData DEF Order
  <2> QED BY <2>1 DEF Order, DataKept, Interrupt, deskVars
<1> QED BY <1>3, <1>4 DEF Order

LEMMA SignalAllKeepsOrder ==
    ASSUME Order, SignalAll
    PROVE  Order'
<1>1. Alive \in SUBSET Processes /\ Main \notin Alive
  BY AliveAreProcesses, Kinds
<1>2. Strike(Alive, {}) /\ pc' = [Struck(Alive) EXCEPT ![Main] = "collecting"] /\ pc[Main] = "signalling"
  BY DEF SignalAll
<1>3. /\ Struck(Alive) \in [Processes -> MainStates \union ChildStates]
      /\ \A p \in Processes \ Alive : Struck(Alive)[p] = pc[p]
  BY <1>1, StruckGoes DEF Order
<1>4. /\ pc' \in [Processes -> MainStates \union ChildStates]
      /\ pc'[Main] = "collecting" /\ "collecting" \in MainStates
      /\ \A p \in Processes \ {Main} : pc'[p] = Struck(Alive)[p]
  BY <1>2, <1>3, Kinds DEF MainStates
<1>5. readers
  BY <1>2 DEF Order, ReadersOpen
<1>6. Main \notin blocked
  BY <1>2 DEF Order, PcKept, Calls
<1>7. \A p \in blocked \ Alive : pc'[p] = pc[p]
  BY <1>3, <1>4, <1>6 DEF Order, PcKept
<1>8. \A p \in Children : pc'[p] \in {Struck(Alive)[p], "zombie"}
  BY <1>4, Kinds
<1>9. PcKept' /\ DeskKept' /\ GuidesSend' /\ NotedAreWoken' /\ ReadersOpen'
  BY <1>1, <1>2, <1>4, <1>5, <1>7, <1>8, StruckKeepsOrder DEF SignalAll, deskVars
<1>10. DataKept'
  <2>1. kill_requested' \subseteq Processes /\ wake' \subseteq Children
        /\ group' \in [Guides -> SUBSET Members]
    BY <1>1, <1>2, StrikeKeepsData DEF Order
  <2> QED BY <2>1 DEF Order, DataKept, SignalAll, deskVars
<1> QED BY <1>9, <1>10 DEF Order

(* A step of main that touches nobody else.                                *)
LEMMA MainKeepsOrder ==
    ASSUME Order, NEW l \in MainStates \ {"done"}, Goto(Main, l),
           l \in {"signalling", "collecting"} => readers',
           UNCHANGED << kill_requested, wake, current, group >>
    PROVE  PcKept' /\ DeskKept' /\ GuidesSend' /\ NotedAreWoken' /\ ReadersOpen'
<1>1. /\ PcKept'
      /\ pc'[Main] = l /\ \A q \in Processes \ {Main} : pc'[q] = pc[q]
  BY MainGoes DEF Order
<1>2. \A p \in Children : pc'[p] = pc[p]
  BY <1>1, Kinds
<1> QED BY <1>1, <1>2, Kinds DEF Order, DeskKept, GuidesSend, NotedAreWoken, ReadersOpen

(* A semaphore is taken only when it is above zero.                        *)
LEMMA TakenWhenUp ==
    ASSUME NEW p, Ready(p)
    PROVE  (pc[p] = "sem_wait" => visitor_sem > 0) /\ (pc[p] = "semop" => sem > 0)
<1>1. CASE pc[p] = "sem_wait"
  BY <1>1 DEF Ready
<1>2. CASE pc[p] = "semop"
  BY <1>2 DEF Ready
<1> QED BY <1>1, <1>2

LEMMA SpawnKeepsOrder ==
    ASSUME Order, Spawn
    PROVE  Order'
<1> USE DEF Spawn, deskVars, tourVars
<1>1. DataKept'
  <2>1. visitor_sem' = visitor_sem \/ (visitor_sem' = visitor_sem - 1 /\ visitor_sem > 0)
    BY TakenWhenUp
  <2>2. visitor_sem' \in Nat
    BY <2>1 DEF Order, DataKept
  <2> QED BY <2>2 DEF Order, DataKept
<1>2. CASE \E l \in {"ending", "sem_wait", "fork"} : Goto(Main, l)
  <2>1. PICK l \in {"ending", "sem_wait", "fork"} : Goto(Main, l)
    BY <1>2
  <2> QED BY <1>1, <2>1, MainKeepsOrder DEF Order, MainStates
<1>3. ASSUME pc[Main] = "fork", UNCHANGED blocked,
             NEW v \in Visitors, pc[v] = "unborn",
             pc' = [pc EXCEPT ![Main] = "top", ![v] = "forked"]
      PROVE  Order'
  <2>1. /\ pc'[Main] = "top" /\ pc'[v] = "forked"
        /\ \A q \in Processes \ {Main, v} : pc'[q] = pc[q]
    BY <1>3, Kinds DEF Order, PcKept
  <2>2. pc' \in [Processes -> MainStates \union ChildStates]
        /\ "top" \in MainStates /\ "forked" \in ChildStates
    BY <1>3, Kinds DEF Order, PcKept, MainStates, ChildStates
  <2>3. Main \notin blocked /\ v \notin blocked
    BY <1>3 DEF Order, PcKept, Calls
  <2>4. PcKept'
    BY <1>3, <2>1, <2>2, <2>3, Kinds DEF Order, PcKept, NobodyLeft
  <2>5. DeskKept' /\ GuidesSend' /\ ReadersOpen'
    BY <1>3, <2>1, Kinds DEF Order, DeskKept, GuidesSend, ReadersOpen
  <2>6. v \in kill_requested => v \in wake
    BY <1>3 DEF Order, NotedAreWoken, Gone
  <2>7. NotedAreWoken'
    BY <1>3, <2>1, <2>6, Kinds DEF Order, NotedAreWoken
  <2> QED BY <1>1, <2>4, <2>5, <2>7 DEF Order
<1>4. (\E l \in {"ending", "sem_wait", "fork"} : Goto(Main, l))
      \/ /\ pc[Main] = "fork" /\ UNCHANGED blocked
         /\ \E v \in Visitors : pc[v] = "unborn" /\ pc' = [pc EXCEPT ![Main] = "top", ![v] = "forked"]
  OBVIOUS
<1> QED BY <1>2, <1>3, <1>4

LEMMA OpenReadersKeepsOrder ==
    ASSUME Order, OpenReaders
    PROVE  Order'
<1>1. DataKept'
  BY DEF Order, DataKept, OpenReaders, deskVars, tourVars
<1> QED BY <1>1, MainKeepsOrder DEF Order, MainStates, OpenReaders, deskVars, tourVars

LEMMA RemoveKeepsOrder ==
    ASSUME Order, Remove
    PROVE  Order'
<1> USE DEF Remove, Goto, deskVars, tourVars
<1>1. DataKept'
  BY DEF Order, DataKept
<1>2. /\ pc'[Main] = "done" /\ "done" \in MainStates
      /\ \A p \in Children : pc'[p] = pc[p]
      /\ pc' \in [Processes -> MainStates \union ChildStates]
  BY Kinds DEF Order, PcKept, MainStates
<1>3. \A p \in blocked' : pc'[p] = pc[p]
  BY Kinds DEF Order, PcKept
<1>4. PcKept'
  BY <1>2, <1>3 DEF Order, PcKept, NobodyLeft, Ended, Gone
<1>5. readers
  BY DEF Order, ReadersOpen
<1> QED BY <1>1, <1>2, <1>4, <1>5, Kinds DEF Order, DeskKept, GuidesSend, NotedAreWoken, ReadersOpen

LEMMA BlockKeepsOrder ==
    ASSUME Order, NEW p \in Processes, Block(p)
    PROVE  Order'
<1> USE DEF Block, deskVars, tourVars
<1>1. PcKept'
  BY DEF Order, PcKept, NobodyLeft, Ended
<1> QED BY <1>1 DEF Order, DataKept, DeskKept, GuidesSend, NotedAreWoken, ReadersOpen

LEMMA ReapKeepsOrder ==
    ASSUME Order, NEW p \in Children, Reap(p)
    PROVE  Order'
<1> USE DEF Reap, deskVars, tourVars
<1>1. DataKept'
  BY DEF Order, DataKept
<1>2. "reaped" \in ChildStates /\ "reaped" \in Gone
  BY DEF ChildStates, Gone
<1> QED BY <1>1, <1>2, ChildKeepsOrder DEF Order

----------------------------------------------------------------------------
(* Steps of the children *)

LEMMA AwayIsWoken ==
    ASSUME Order, NEW v \in Visitors, pc[v] \notin {"top"} \union Gone
    PROVE  v \notin kill_requested \/ v \in wake
BY DEF Order, NotedAreWoken

LEMMA Labels == /\ Calls \ {"sem_wait"} \subseteq ChildStates /\ Gone \subseteq ChildStates
                /\ {"starting", "init", "open next", "register", "top", "up", "down", "selling",
                    "checking", "touring", "leaving", "at cash"} \subseteq ChildStates
                /\ "zombie" \in Gone /\ "top" \notin Gone
BY DEF ChildStates, Gone

LEMMA ExecKeepsOrder ==
    ASSUME Order, NEW p \in Children, Exec(p)
    PROVE  Order'
<1> USE DEF Exec, deskVars, tourVars
<1>1. DataKept'
  BY DEF Order, DataKept
<1>2. PICK l \in {"starting", "open regular", "top", "init"} : Goto(p, l)
  OBVIOUS
<1>3. l \in ChildStates
  BY Labels DEF Calls
<1>4. pc[p] \in {"forked", "starting"}
  OBVIOUS
<1>5. ~Ended(p)
  BY <1>4 DEF Ended, Gone
<1>6. p \in Visitors => p \notin kill_requested \/ p \in wake
  BY <1>4, AwayIsWoken DEF Gone
<1> QED BY <1>1, <1>2, <1>3, <1>5, <1>6, ChildKeepsOrder DEF Order

LEMMA OpenKeepsOrder ==
    ASSUME Order, NEW p \in Visitors \union {Cashier}, Open(p)
    PROVE  Order'
<1> DEFINE both == IF pc[Cashier] = pc[p] /\ Cashier \in blocked THEN {p, Cashier} ELSE {p}
<1>1. /\ pc[p] \in {"open regular", "open vip"}
      /\ pc' = [q \in Processes |-> IF q \in both THEN Opened(q) ELSE pc[q]]
      /\ blocked' = blocked \ both
      /\ UNCHANGED << kill_requested, wake, visitor_sem, readers, status, deskVars, tourVars >>
  BY DEF Open
<1>2. DataKept'
  BY <1>1 DEF Order, DataKept, deskVars, tourVars
<1>3. both \subseteq Visitors \union {Cashier} /\ \A q \in both : pc[q] \in {"open regular", "open vip"}
  BY <1>1
<1>4. \A q \in both : Opened(q) \in {"top", "register", "open vip", "open next"}
  BY DEF Opened
<1>5. both \subseteq Children /\ Main \notin both
  BY <1>3, Kinds
<1> HIDE DEF both
<1>6. /\ \A q \in both : pc'[q] \in {"top", "register", "open vip", "open next"}
      /\ \A q \in Processes \ both : pc'[q] = pc[q]
  BY <1>1, <1>4, <1>5, Kinds
<1>7. pc[Main] # "done"
  <2>1. ~Ended(p) /\ p \in Children
    BY <1>1, Kinds DEF Ended, Gone
  <2> QED BY <2>1, SomebodyAlive
<1>8. PcKept'
  <2>1. \A q \in both : pc'[q] \in ChildStates
    BY <1>6, Labels DEF Calls
  <2>2. pc'[Main] = pc[Main] /\ \A q \in Children : pc'[q] \in ChildStates
    BY <1>5, <1>6, <2>1, Kinds DEF Order, PcKept
  <2>3. pc' \in [Processes -> MainStates \union ChildStates]
    <3>1. \A q \in Processes : pc'[q] \in MainStates \union ChildStates
      BY <1>6, <2>1 DEF Order, PcKept
    <3> QED BY <1>1, <3>1
  <2>4. blocked' \subseteq Processes /\ \A q \in blocked' : pc'[q] \in Calls
    BY <1>1, <1>6 DEF Order, PcKept
  <2> QED BY <1>7, <2>2, <2>3, <2>4 DEF Order, PcKept, NobodyLeft
<1>9. DeskKept' /\ GuidesSend' /\ ReadersOpen'
  BY <1>1, <1>3, <1>5, <1>6, Kinds DEF Order, DeskKept, GuidesSend, ReadersOpen, deskVars, tourVars
<1>10. NotedAreWoken'
  <2> SUFFICES ASSUME NEW v \in Visitors, v \in kill_requested, v \notin wake
               PROVE  pc'[v] \in {"top"} \union Gone
    BY <1>1 DEF NotedAreWoken
  <2>1. pc[v] \in {"top"} \union Gone
    BY DEF Order, NotedAreWoken
  <2>2. v \notin both
    BY <1>3, <2>1 DEF Gone
  <2> QED BY <1>6, <2>1, <2>2, Kinds
<1> QED BY <1>2, <1>8, <1>9, <1>10 DEF Order

LEMMA StartKeepsOrder ==
    ASSUME Order, NEW v \in Visitors, Start(v)
    PROVE  Order'
<1> USE DEF Start, deskVars, tourVars, GotoUnlessKilled
<1>1. DataKept'
  BY DEF Order, DataKept
<1>2. PICK l \in {"zombie", "open regular", "open vip", "top"} : Goto(v, l)
  OBVIOUS
<1>3. l \in ChildStates
  BY Labels DEF Calls
<1>4. pc[v] \in {"init", "open next", "register"}
  OBVIOUS
<1>5. ~Ended(v) /\ (v \notin kill_requested \/ v \in wake)
  BY <1>4, AwayIsWoken DEF Ended, Gone
<1> QED BY <1>1, <1>2, <1>3, <1>5, Kinds, ChildKeepsOrder DEF Order

LEMMA OperateKeepsOrder ==
    ASSUME Order, NEW v \in Visitors, Operate(v)
    PROVE  Order'
<1> USE DEF Operate, tourVars
<1>1. DataKept'
  BY DEF Order, DataKept
<1>2. pc[v] = "top"
  OBVIOUS
<1>3. ~Ended(v)
  BY <1>2 DEF Ended, Gone
<1>4. CASE \E l \in {"zombie", "semop", "sigwaitinfo"} :
              Goto(v, l) /\ (l = "zombie" \/ v \notin kill_requested)
  <2>1. PICK l \in {"zombie", "semop", "sigwaitinfo"} :
               Goto(v, l) /\ (l = "zombie" \/ v \notin kill_requested)
    BY <1>4
  <2>2. l \in ChildStates
    BY Labels DEF Calls
  <2>3. l \in Gone \/ v \notin kill_requested
    BY <2>1, Labels
  <2> QED BY <1>1, <1>3, <2>1, <2>2, <2>3, Kinds, ChildKeepsOrder DEF Order
<1>5. CASE UNCHANGED << pc, blocked >>
  <2>1. PcKept'
    BY <1>5 DEF Order, PcKept, NobodyLeft, Ended
  <2> QED BY <1>1, <1>5, <2>1 DEF Order, DeskKept, GuidesSend, NotedAreWoken, ReadersOpen
<1> QED BY <1>4, <1>5 DEF Killed

LEMMA WakeUpKeepsOrder ==
    ASSUME Order, NEW v \in Visitors, WakeUp(v)
    PROVE  Order'
<1> USE DEF WakeUp, deskVars, tourVars
<1>1. DataKept'
  BY DEF Order, DataKept
<1>2. ~Ended(v) /\ "top" \in ChildStates
  BY Labels DEF Ended, Gone
<1>3. v \notin kill_requested \/ v \in wake
  BY AwayIsWoken DEF Gone
<1> QED BY <1>1, <1>2, <1>3, Kinds, ChildKeepsOrder DEF Order

LEMMA ClimbKeepsOrder ==
    ASSUME Order, NEW v \in Visitors, Climb(v)
    PROVE  Order'
<1> USE DEF Climb, deskVars, GotoUnlessKilled
<1>1. DataKept'
  <2>1. sem' = sem \/ (sem' = sem - 1 /\ sem > 0)
    BY TakenWhenUp
  <2>2. sem' \in Nat
    BY <2>1 DEF Order, DataKept
  <2> QED BY <2>2 DEF Order, DataKept
<1>2. PICK l \in {"up", "down", "zombie"} : Goto(v, l)
  OBVIOUS
<1>3. l \in ChildStates
  BY Labels
<1>4. pc[v] \in {"semop", "up"}
  OBVIOUS
<1>5. ~Ended(v) /\ (v \notin kill_requested \/ v \in wake)
  BY <1>4, AwayIsWoken DEF Ended, Gone
<1> QED BY <1>1, <1>2, <1>3, <1>5, Kinds, ChildKeepsOrder DEF Order

LEMMA DescendKeepsOrder ==
    ASSUME Order, NEW v \in Visitors, Descend(v)
    PROVE  Order'
<1> USE DEF Descend, deskVars
<1>1. DataKept'
  BY DEF Order, DataKept
<1>2. PICK l \in {"msgsnd", "top"} : Goto(v, l)
  OBVIOUS
<1>3. l \in ChildStates
  BY Labels DEF Calls
<1>4. ~Ended(v) /\ (v \notin kill_requested \/ v \in wake)
  BY AwayIsWoken DEF Ended, Gone
<1> QED BY <1>1, <1>2, <1>3, <1>4, Kinds, ChildKeepsOrder DEF Order

LEMMA VipLeaveKeepsOrder ==
    ASSUME Order, NEW v \in Visitors, VipLeave(v)
    PROVE  Order'
<1> USE DEF VipLeave, tourVars
<1>1. DataKept'
  BY DEF Order, DataKept
<1>2. ~Ended(v) /\ (v \notin kill_requested \/ v \in wake) /\ "top" \in ChildStates
  BY AwayIsWoken, Labels DEF Ended, Gone
<1> QED BY <1>1, <1>2, Kinds, ChildKeepsOrder DEF Order

LEMMA SignalWakes ==
    ASSUME wake \subseteq Children, NEW S, Signal(S)
    PROVE  wake' \subseteq Children /\ wake \subseteq wake'
BY AliveAreProcesses DEF Signal

(* A step that moves nobody and only adds to the pending wake-ups.         *)
LEMMA NobodyMoves ==
    ASSUME Order, wake \subseteq wake',
           UNCHANGED << pc, blocked, kill_requested, readers, current >>,
           \A g \in Guides : pc[g] = "msgsnd" => group'[g] # {}
    PROVE  PcKept' /\ DeskKept' /\ GuidesSend' /\ NotedAreWoken' /\ ReadersOpen'
<1>1. PcKept'
  BY DEF Order, PcKept, NobodyLeft, Ended
<1> QED BY <1>1 DEF Order, DeskKept, GuidesSend, NotedAreWoken, ReadersOpen

LEMMA GatherKeepsOrder ==
    ASSUME Order, NEW g \in Guides, Gather(g)
    PROVE  Order'
<1>1. /\ pc[g] = "top"
      /\ UNCHANGED << kill_requested, visitor_sem, readers, callers, current, letters, inbox, checkins, sem >>
  BY DEF Gather
<1>2. CASE \E l \in {"zombie", "touring"} : Goto(g, l) /\ UNCHANGED << wake, status, tickets, group >>
  <2>1. PICK l \in {"zombie", "touring"} : Goto(g, l) /\ UNCHANGED << wake, status, tickets, group >>
    BY <1>2
  <2>2. l \in ChildStates /\ ~Ended(g)
    BY <1>1, Labels DEF Ended, Gone
  <2>3. DataKept'
    BY <1>1, <2>1 DEF Order, DataKept
  <2> QED BY <1>1, <2>1, <2>2, <2>3, Kinds, ChildKeepsOrder DEF Order
<1>3. ASSUME UNCHANGED << pc, blocked, status >>, NEW S, Signal(S),
             tickets' \subseteq tickets, group' \in [Guides -> SUBSET Members],
             \A h \in Guides : group[h] \subseteq group'[h]
      PROVE  Order'
  <2>1. wake' \subseteq Children /\ wake \subseteq wake'
    BY <1>3, SignalWakes DEF Order, DataKept
  <2>2. DataKept'
    BY <1>1, <1>3, <2>1 DEF Order, DataKept
  <2>3. \A h \in Guides : pc[h] = "msgsnd" => group'[h] # {}
    BY <1>3 DEF Order, GuidesSend
  <2> QED BY <1>1, <1>3, <2>1, <2>2, <2>3, NobodyMoves DEF Order
<1>4. ASSUME UNCHANGED << pc, blocked, status, tickets, group >>, Signal({Cashier})
      PROVE  Order'
  BY <1>3, <1>4 DEF Order, DataKept
<1>5. ASSUME NEW v \in tickets, tickets' = tickets \ {v},
             group' = [group EXCEPT ![g] = @ \union {v}],
             Signal({Cashier, v}), UNCHANGED << pc, blocked, status >>
      PROVE  Order'
  <2>1. group \in [Guides -> SUBSET Members] /\ v \in Members
    BY DEF Order, DataKept
  <2>2. group' \in [Guides -> SUBSET Members]
    BY <1>5, <2>1
  <2>3. \A h \in Guides : group[h] \subseteq group'[h]
    BY <1>5, <2>1
  <2> QED BY <1>3, <1>5, <2>2, <2>3
<1> QED BY <1>2, <1>4, <1>5 DEF Gather

LEMMA TourKeepsOrder ==
    ASSUME Order, NEW g \in Guides, Tour(g)
    PROVE  Order'
<1> USE DEF Tour, deskVars
<1>1. wake' \subseteq Children /\ wake \subseteq wake'
  BY SignalWakes DEF Order, DataKept
<1>2. DataKept'
  BY <1>1 DEF Order, DataKept
<1>3. PICK l \in {"top", "msgrcv"} : Goto(g, l)
  OBVIOUS
<1>4. l \in ChildStates /\ ~Ended(g)
  BY Labels DEF Calls, Ended, Gone
<1> QED BY <1>1, <1>2, <1>3, <1>4, Kinds, ChildKeepsOrder DEF Order

LEMMA CountInKeepsOrder ==
    ASSUME Order, NEW g \in Guides, CountIn(g)
    PROVE  Order'
<1>1. /\ pc[g] = "msgrcv"
      /\ UNCHANGED << kill_requested, wake, visitor_sem, readers, status, deskVars, group, sem >>
  BY DEF CountIn
<1>2. PICK v \in group[g] \intersect inbox :
          /\ inbox' = inbox \ {v}
          /\ \/ Killed(g) /\ Goto(g, "top") /\ UNCHANGED checkins
             \/ /\ ~Killed(g)
                /\ checkins' = checkins \union {v}
                /\ Goto(g, IF group[g] \subseteq checkins' THEN "leaving" ELSE "msgrcv")
  BY DEF CountIn
<1>3. DataKept'
  BY <1>1, <1>2 DEF Order, DataKept, deskVars
<1>4. PICK l \in {"top", "leaving", "msgrcv"} : Goto(g, l)
  BY <1>2
<1>5. l \in ChildStates /\ ~Ended(g)
  BY <1>1, Labels DEF Calls, Ended, Gone
<1> QED BY <1>1, <1>3, <1>4, <1>5, Kinds, ChildKeepsOrder DEF Order, deskVars

LEMMA CashKeepsOrder ==
    ASSUME Order, NEW g \in Guides, Cash(g)
    PROVE  Order'
<1>1. UNCHANGED << kill_requested, wake, visitor_sem, readers, status, callers, current, tickets,
                   inbox, checkins, sem >>
  BY DEF Cash
<1>2. CASE pc[g] \in {"leaving", "at cash"} /\ UNCHANGED << letters, group >>
           /\ \E l \in {"zombie", "at cash", "top", "msgsnd"} :
                 Goto(g, l) /\ (l = "msgsnd" => group[g] # {})
  <2>1. PICK l \in {"zombie", "at cash", "top", "msgsnd"} :
               Goto(g, l) /\ (l = "msgsnd" => group[g] # {})
    BY <1>2
  <2>2. l \in ChildStates /\ ~Ended(g)
    BY <1>2, Labels DEF Calls, Ended, Gone
  <2>3. DataKept'
    BY <1>1, <1>2 DEF Order, DataKept
  <2> QED BY <1>1, <1>2, <2>1, <2>2, <2>3, Kinds, ChildKeepsOrder DEF Order
<1>3. ASSUME pc[g] = "msgsnd",
             letters' = letters \union {NextHome(g)},
             group' = [group EXCEPT ![g] = @ \ {NextHome(g)}],
             Goto(g, "at cash")
      PROVE  Order'
  <2>1. group[g] # {} /\ group \in [Guides -> SUBSET Members]
    BY <1>3 DEF Order, GuidesSend, DataKept
  <2>2. NextHome(g) \in group[g]
    BY <2>1 DEF NextHome
  <2>3. NextHome(g) \in Members
    BY <2>1, <2>2
  <2>4. group' \in [Guides -> SUBSET Members] /\ \A h \in Guides \ {g} : group'[h] = group[h]
    BY <1>3, <2>1
  <2>5. DataKept'
    <3>1. letters' \subseteq Visitors
      BY <1>3, <2>3, Kinds DEF Order, DataKept
    <3> QED BY <1>1, <2>4, <3>1 DEF Order, DataKept
  <2>6. ~Ended(g) /\ "at cash" \in ChildStates
    BY <1>3, Labels DEF Ended, Gone
  <2>7. /\ PcKept'
        /\ pc'[g] = "at cash" /\ \A q \in Processes \ {g} : pc'[q] = pc[q]
    BY <1>3, <2>6, Kinds, ChildGoes DEF Order
  <2>8. GuidesSend'
    BY <2>4, <2>7, Kinds DEF Order, GuidesSend
  <2>9. DeskKept' /\ NotedAreWoken' /\ ReadersOpen'
    BY <1>1, <2>7, Kinds DEF Order, DeskKept, NotedAreWoken, ReadersOpen
  <2> QED BY <2>5, <2>7, <2>8, <2>9 DEF Order
<1>4. ASSUME pc[g] = "leaving", GotoUnlessKilled(g, "at cash"), UNCHANGED << letters, group >>
      PROVE  Order'
  BY <1>2, <1>4 DEF GotoUnlessKilled
<1>5. ASSUME pc[g] = "at cash", UNCHANGED << letters, group >>,
             Goto(g, IF group[g] = {} THEN "top" ELSE "msgsnd")
      PROVE  Order'
  BY <1>2, <1>5
<1> QED BY <1>3, <1>4, <1>5 DEF Cash

LEMMA ServeKeepsOrder ==
    ASSUME Order, Serve
    PROVE  Order'
<1>1. pc[Cashier] = "top"
      /\ UNCHANGED << visitor_sem, readers, status, deskVars, inbox, checkins, sem >>
  BY DEF Serve
<1>2. ~Ended(Cashier)
  BY <1>1 DEF Ended, Gone
<1>3. CASE GotoUnlessKilled(Cashier, "poll") /\ UNCHANGED << kill_requested, wake, group >>
  <2>1. DataKept'
    BY <1>1, <1>3 DEF Order, DataKept, deskVars
  <2>2. PICK l \in {"zombie", "poll"} : Goto(Cashier, l)
    BY <1>3 DEF GotoUnlessKilled
  <2>3. l \in ChildStates
    BY Labels DEF Calls
  <2> QED BY <1>1, <1>2, <1>3, <2>1, <2>2, <2>3, Kinds, ChildKeepsOrder DEF Order, deskVars
<1>4. CASE Strike({Main}, {}) /\ pc' = [Struck({Main}) EXCEPT ![Cashier] = "zombie"]
  <2>1. {Main} \in SUBSET Processes /\ {} \in SUBSET Children
    BY Kinds
  <2>2. /\ Struck({Main}) \in [Processes -> MainStates \union ChildStates]
        /\ Struck({Main})[Main] \in MainStates
        /\ Struck({Main})[Main] \in {pc[Main], "fork"}
        /\ \A p \in Processes \ {Main} : Struck({Main})[p] = pc[p]
    BY <2>1, StruckGoes DEF Order
  <2>3. /\ pc' \in [Processes -> MainStates \union ChildStates]
        /\ pc'[Cashier] = "zombie"
        /\ \A p \in Processes \ {Cashier} : pc'[p] = Struck({Main})[p]
    BY <1>4, <2>2, Kinds, Labels
  <2>4. pc[Main] # "done"
    BY <1>2, Kinds, SomebodyAlive
  <2>5. pc'[Main] \in MainStates \ {"done"} /\ (pc'[Main] \in {"signalling", "collecting"} => readers)
    BY <2>2, <2>3, <2>4, Kinds DEF Order, ReadersOpen
  <2>6. Cashier \notin blocked
    BY <1>1 DEF Order, PcKept, Calls
  <2>7. \A p \in blocked \ {Main} : pc'[p] = pc[p]
    BY <2>2, <2>3, <2>6 DEF Order, PcKept
  <2>8. \A p \in Children : pc'[p] \in {Struck({Main})[p], "zombie"}
    BY <2>3, Kinds
  <2>9. PcKept' /\ DeskKept' /\ GuidesSend' /\ NotedAreWoken' /\ ReadersOpen'
    BY <1>1, <1>4, <2>1, <2>3, <2>5, <2>7, <2>8, StruckKeepsOrder DEF deskVars
  <2>10. DataKept'
    <3>1. kill_requested' \subseteq Processes /\ wake' \subseteq Children
          /\ group' \in [Guides -> SUBSET Members]
      BY <1>4, <2>1, StrikeKeepsData DEF Order
    <3> QED BY <1>1, <3>1 DEF Order, DataKept, deskVars
  <2> QED BY <2>9, <2>10 DEF Order
<1> QED BY <1>3, <1>4 DEF Serve

LEMMA CallKeepsOrder ==
    ASSUME Order, Call
    PROVE  Order'
<1>1. /\ pc[Cashier] = "poll"
      /\ UNCHANGED << kill_requested, wake, visitor_sem, readers, status, tickets, letters, tourVars >>
  BY DEF Call
<1>2. ~Ended(Cashier) /\ "top" \in ChildStates /\ "selling" \in ChildStates
  BY <1>1, Labels DEF Ended, Gone
<1>3. CASE callers = {} /\ Goto(Cashier, "top") /\ UNCHANGED << callers, current >>
  <2>1. DataKept'
    BY <1>1, <1>3 DEF Order, DataKept, tourVars
  <2> QED BY <1>1, <1>2, <1>3, <2>1, Kinds, ChildKeepsOrder DEF Order, tourVars
<1>4. ASSUME NEW v \in callers, callers' = callers \ {v}, current' = {v}, Goto(Cashier, "selling")
      PROVE  Order'
  <2>1. v \in Members \/ v \in VIPs
    BY DEF Order, DataKept, Visitors
  <2>2. DataKept'
    BY <1>1, <1>4 DEF Order, DataKept, tourVars
  <2>3. /\ PcKept'
        /\ pc'[Cashier] = "selling" /\ \A q \in Processes \ {Cashier} : pc'[q] = pc[q]
    BY <1>2, <1>4, Kinds, ChildGoes DEF Order
  <2>4. DeskKept'
    BY <1>4, <2>1, <2>3 DEF DeskKept
  <2>5. GuidesSend' /\ NotedAreWoken' /\ ReadersOpen'
    BY <1>1, <2>3, Kinds DEF Order, GuidesSend, NotedAreWoken, ReadersOpen, tourVars
  <2> QED BY <2>2, <2>3, <2>4, <2>5 DEF Order
<1> QED BY <1>3, <1>4 DEF Call

LEMMA SellKeepsOrder ==
    ASSUME Order, Sell
    PROVE  Order'
<1>1. /\ pc[Cashier] = "selling"
      /\ UNCHANGED << kill_requested, visitor_sem, readers, deskVars, tourVars >>
  BY DEF Sell
<1>2. wake' \subseteq Children /\ wake \subseteq wake'
  BY SignalWakes DEF Sell, Order, DataKept
<1>3. DataKept'
  BY <1>1, <1>2 DEF Order, DataKept, Sell, deskVars, tourVars
<1>4. PICK l \in {"top", "checking"} :
             Goto(Cashier, l) /\ (l = "checking" => ~(current \subseteq VIPs))
  BY DEF Sell
<1>5. l \in ChildStates /\ ~Ended(Cashier)
  BY <1>1, Labels DEF Ended, Gone
<1>6. l \in {"checking", "sigwaitinfo", "msgsnd"} => current \subseteq Members
  BY <1>4 DEF Order, DeskKept
<1> QED BY <1>1, <1>2, <1>3, <1>4, <1>5, <1>6, Kinds, ChildKeepsOrder DEF Order, deskVars, tourVars

LEMMA SendTicketKeepsOrder ==
    ASSUME Order, SendTicket
    PROVE  Order'
<1>1. /\ pc[Cashier] \in {"checking", "sigwaitinfo", "msgsnd"}
      /\ UNCHANGED << kill_requested, visitor_sem, readers, status, callers, current, letters, tourVars >>
  BY DEF SendTicket
<1>2. current \subseteq Members
  BY <1>1 DEF Order, DeskKept
<1>3. tickets' \in {tickets, tickets \union current}
  BY DEF SendTicket
<1>4. wake' \subseteq Children /\ \A v \in Visitors \intersect wake : v \in wake'
  <2>1. CASE wake' = wake \/ wake' = wake \ {Cashier}
    BY <2>1, Kinds DEF Order, DataKept
  <2>2. CASE Signal(current)
    BY <2>2, SignalWakes DEF Order, DataKept
  <2> QED BY <2>1, <2>2 DEF SendTicket
<1>5. DataKept'
  BY <1>1, <1>2, <1>3, <1>4 DEF Order, DataKept, tourVars
<1>6. PICK l \in {"top", "checking", "sigwaitinfo", "msgsnd"} : Goto(Cashier, l)
  BY DEF SendTicket
<1>7. l \in ChildStates /\ ~Ended(Cashier)
  BY <1>1, Labels DEF Calls, Ended, Gone
<1> QED BY <1>1, <1>2, <1>4, <1>5, <1>6, <1>7, Kinds, ChildKeepsOrder DEF Order, tourVars

LEMMA LeavingThreadKeepsOrder ==
    ASSUME Order, LeavingThread
    PROVE  Order'
<1>1. pc[Cashier] \notin Before("open vip") \union Gone
  BY DEF LeavingThread
<1>2. ~Ended(Cashier)
  BY <1>1 DEF Ended, Before
<1>3. pc[Main] # "done"
  BY <1>2, Kinds, SomebodyAlive
<1>4. PICK v \in letters :
          /\ letters' = letters \ {v}
          /\ Strike({v} \intersect Alive, {Cashier}) /\ pc' = Struck({v} \intersect Alive)
  BY DEF LeavingThread
<1>5. {v} \intersect Alive \in SUBSET Processes /\ {Cashier} \in SUBSET Children
  BY AliveAreProcesses, Kinds
<1>6. UNCHANGED << visitor_sem, readers, status, callers, current, tickets, inbox, checkins, sem >>
  BY DEF LeavingThread
<1>7. PcKept' /\ DeskKept' /\ GuidesSend' /\ NotedAreWoken' /\ ReadersOpen'
  BY <1>3, <1>4, <1>5, <1>6, SomeoneStruck
<1>8. kill_requested' \subseteq Processes /\ wake' \subseteq Children
      /\ group' \in [Guides -> SUBSET Members]
  BY <1>4, <1>5, StrikeKeepsData DEF Order
<1>9. DataKept'
  BY <1>4, <1>6, <1>8 DEF Order, DataKept
<1> QED BY <1>7, <1>9 DEF Order

----------------------------------------------------------------------------
LEMMA OrderAtStart == Init => Order
<1> SUFFICES ASSUME Init
             PROVE  Order
  OBVIOUS
<1> USE DEF Init
<1>1. pc[Main] = "top" /\ \A p \in Children : pc[p] \in {"unborn", "forked"}
  BY Kinds
<1>2. "top" \in MainStates /\ {"unborn", "forked"} \subseteq ChildStates
  BY DEF MainStates, ChildStates
<1>3. pc \in [Processes -> MainStates \union ChildStates]
  BY <1>2
<1>4. PcKept
  BY <1>1, <1>2, <1>3 DEF PcKept, NobodyLeft
<1>5. DataKept
  BY ShutdownConstants DEF DataKept
<1>6. DeskKept /\ GuidesSend /\ NotedAreWoken /\ ReadersOpen
  BY <1>1, Kinds DEF DeskKept, GuidesSend, NotedAreWoken, ReadersOpen
<1> QED BY <1>4, <1>5, <1>6 DEF Order

LEMMA OrderKept == Order /\ [Next]_vars => Order'
<1> SUFFICES ASSUME Order, [Next]_vars
             PROVE  Order'
  OBVIOUS
<1>1. CASE Interrupt \/ MainStep
  <2>1. CASE Block(Main)
    BY <2>1, Kinds, BlockKeepsOrder
  <2> QED BY <1>1, <2>1, InterruptKeepsOrder, SpawnKeepsOrder, OpenReadersKeepsOrder,
             SignalAllKeepsOrder, RemoveKeepsOrder DEF MainStep
<1>2. CASE CashierStep \/ LeavingThread
  <2>1. CASE Exec(Cashier) \/ Open(Cashier) \/ Block(Cashier)
    BY <2>1, Kinds, ExecKeepsOrder, OpenKeepsOrder, BlockKeepsOrder
  <2> QED BY <1>2, <2>1, ServeKeepsOrder, CallKeepsOrder, SellKeepsOrder, SendTicketKeepsOrder,
             LeavingThreadKeepsOrder DEF CashierStep
<1>3. CASE \E v \in Visitors : VisitorStep(v)
  <2>1. PICK v \in Visitors : VisitorStep(v)
    BY <1>3
  <2>2. CASE Exec(v) \/ Open(v) \/ Block(v)
    BY <2>2, Kinds, ExecKeepsOrder, OpenKeepsOrder, BlockKeepsOrder
  <2> QED BY <2>1, <2>2, StartKeepsOrder, OperateKeepsOrder, WakeUpKeepsOrder, ClimbKeepsOrder,
             DescendKeepsOrder, VipLeaveKeepsOrder DEF VisitorStep
<1>4. CASE \E g \in Guides : GuideStep(g)
  <2>1. PICK g \in Guides : GuideStep(g)
    BY <1>4
  <2>2. CASE Exec(g) \/ Block(g)
    BY <2>2, Kinds, ExecKeepsOrder, BlockKeepsOrder
  <2> QED BY <2>1, <2>2, GatherKeepsOrder, TourKeepsOrder, CountInKeepsOrder, CashKeepsOrder
          DEF GuideStep
<1>5. CASE \E p \in Children : Reap(p)
  BY <1>5, ReapKeepsOrder
<1>6. CASE UNCHANGED vars
  <2>1. PcKept'
    BY <1>6 DEF vars, Order, PcKept, NobodyLeft, Ended
  <2> QED BY <1>6, <2>1 DEF vars, deskVars, tourVars, Order, DataKept, DeskKept, GuidesSend,
             NotedAreWoken, ReadersOpen
<1> QED BY <1>1, <1>2, <1>3, <1>4, <1>5, <1>6 DEF Next

LEMMA ShutdownOrder == Spec => []Order
<1> QED BY OrderAtStart, OrderKept, PTL DEF Spec

(* Every variable has values of its type: each process is at a place of    *)
(* its own code, and no semaphore is below zero.                           *)
THEOREM ShutdownTypes == Spec => []TypeOK
<1>1. Order => TypeOK
  BY DEF Order, PcKept, DataKept, TypeOK
<1> QED BY <1>1, ShutdownOrder, PTL

(* main removes the IPC objects only when no process is left to use them.  *)
THEOREM ShutdownRemovesLast == Spec => []NobodyLeft
<1>1. Order => NobodyLeft
  BY DEF Order, PcKept
<1> QED BY <1>1, ShutdownOrder, PTL

(* Once main waits for its children, every visitor that has noted the      *)
(* signal has what it waits for: a wake-up, or a reader of the fifos.      *)
THEOREM ShutdownReachesVisitors == Spec => []NotedAreReady
<1>1. Order => NotedAreReady
  <2> SUFFICES ASSUME Order, readers, NEW v \in Visitors \intersect kill_requested,
                      pc[v] \in {"sigwaitinfo", "open regular", "open vip"}
               PROVE  Ready(v)
    BY DEF NotedAreReady, Order, ReadersOpen
  <2>1. CASE pc[v] = "sigwaitinfo"
    BY <2>1 DEF Ready, Order, NotedAreWoken, Gone
  <2>2. CASE pc[v] \in {"open regular", "open vip"}
    BY <2>2, Kinds DEF Ready
  <2> QED BY <2>1, <2>2
<1> QED BY <1>1, ShutdownOrder, PTL
=============================================================================
