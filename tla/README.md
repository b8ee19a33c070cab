# National park simulator: a TLA+ model

The repository simulates a national park with one operating-system process per
person. Visitors (some with kids, some VIPs), guides and a cashier coordinate
through System V shared memory, semaphores and message queues and through
signals. There is no scheduler of its own and there are no tests. Whether the
bridge may be turned round, who is first in line, and whether a group is
complete is decided by a handful of counters, each changed by several
processes. These modules model that coordination, check it with TLC and prove
parts of it with TLAPS.

## Inventory

| Part | Code | State | Operations | Talks to |
|---|---|---|---|---|
| Ring buffer | `include/ringbuffer.h` | `data`, `head_idx`, `tail_idx`, `count` | push, pop, at, contains, erase | its callers, under the mutex of an attraction |
| Suspension bridge | `guide.c` GS_AT_BRIDGE, `visitor.c` VS_AT_BRIDGE, `try_pass_bridge(_vip)`, `check_if_first_secure` | direction, `groups_on_bridge`, two queues, MUTEX_BRIDGE, SEM_BRIDGE, check-ins | queue, pass, cross, count the group, leave | guides, VIPs, members, the cashier's signals |
| Observation tower | `guide.c` GS_AT_TOWER, `visitor.c` VS_AT_TOWER_QUEUE ... VS_GOING_DOWN_TOWER | queue, MUTEX_TOWER, SEM_TOWER, `leave_tower` | queue, go up, sightsee, go down, check in | members, VIPs, their guide, the operator |
| Ferry | `guide.c` GS_AT_FERRY, `visitor.c` VS_AT_FERRY_BOARDING ... | side, seats, four queues, captain, MUTEX_FERRY, SEM_FERRY | queue, board, sail, disembark | guides, VIPs, members |
| Cashier | `cashier.c` | day, `setup_today`, `night`, report counters | open the day, sell, dismiss at night, answer leave messages | visitors (FIFOs), guides and visitors (messages, signals) |
| Guide tour loop | `guide.c` | status, group, `leave_park`, direction | gather, move, cash | cashier's message queue, group |
| Spawner and reaper | `main.c` | `visitor_sem`, children | fork, wait, clean up | everybody |
| Visitor registry | `visitor.c` `register_visitor`, `utils.h` `b_get_visitor_by_pid` | slots | allocate, look up | main (slots), guides, cashier |
| IPC helpers | `utils.h` | none | P and V that a kill interrupts, signals, messages | everybody |
| Command line, growable array, configuration | `commands_cli.c`, `vector.h`, `config.h` | none | operator's signals; unused; constants | guides |

What is hard about each part:

- **Ring buffer.** Sequential, but `erase` closes a gap from either side across
  the wrap. Correct when it behaves like a list.
- **Bridge.** Up to three kinds of process interleave. One semaphore is a
  mutex and another counts seats; the mutex is kept while waiting for a seat.
  A group is on the bridge long after its guide has given back its own seat.
  Sleepers rely on one signal each. Correct when the bridge is used in one
  direction at a time, never carries more than `BRIDGE_LIMIT` people, nobody is
  left behind or left asleep, and nightfall disturbs none of this.
- **Tower.** A visitor may be told to leave in any of its states. Correct when
  each member checks in exactly once per visit and the limit is kept.
- **Ferry.** The first to board becomes the captain and steers the others by
  signals. Correct when nobody disembarks before the voyage ends and one
  voyage's captain never commands the next voyage's passengers.
- **Cashier and groups.** Bounded message queue with two kinds of message, a
  thread that answers while the main loop sells, and two time-driven phases.
  Correct when every visitor let in is led round or dismissed exactly once.
- **Spawner, registry.** Slots and process ids are reused. Correct when a slot
  belongs to one living visitor.

`PROJECT.json` lists the hazards of this code line by line, with the
properties that cover them.

## Modules

| Module | What it is |
|---|---|
| `FifoQueue` | Abstract: a bounded queue from which any element may withdraw |
| `RingBuffer` | `ringbuffer.h`, one action per function that changes the buffer |
| `RingBufferProofs` | The proofs about `RingBuffer` |
| `QueueLemmas` | What a push, a pop and an erase do to a queue, for the proofs of all three attractions |
| `OneWayBridge` | Abstract: what the bridge promises to the people |
| `Bridge` | The bridge protocol of guides, VIPs, members and cashier |
| `BridgeProofs` | The proofs about `Bridge`, all but those of its queues |
| `BridgeQueueProofs` | The proofs about the queues of `Bridge` |
| `Tower` | The observation tower: guides, members, VIPs and the signals that call a group down |
| `TowerProofs` | The proofs about `Tower` |
| `Ferry` | The ferry: guides, VIPs, members, captain and passengers, and the evening |
| `FerryProofs` | The proofs about `Ferry` |
| `Entrance` | From the street to a group and home: spawner, reaper, registry, cashier, leaving thread, the guide's gathering and dismissal |
| `EntranceProofs` | The proofs about `Entrance` |
| `Shutdown` | The end of the simulation: how SIGINT reaches every process, and when each ends |
| `ShutdownProofs` | The proofs about `Shutdown` |
| `MC...` | Instances for TLC: names, groups, symmetry |

`RingBuffer` implements `FifoQueue`, and `Bridge`, `Tower` and `Ferry` use
sequences with the operations of that queue (push, pop, erase, first): they are
entitled to by the proof that the buffer implements the queue. `Bridge` implements
`OneWayBridge`.

The three attractions, the entrance and the shutdown are five models, because one
model of a whole tour is out of TLC's reach. What each needs to know of the others is one
step of its own: an attraction sees a party arrive with some group, direction
and left-over wake-ups (`GuideArrive`, `Arrive`); the entrance sees a
tour begin and end (`Depart`, `TourEnd`); the shutdown has every process, and of a
tour only the tower and its check-in. The joints are checked on both sides:
`GroupStaysTogether` and `GuideWaits` say that a guide leaves an attraction with
its whole group, and where `GuideWaits` of the ferry says that no check-in is
left over, that is what the next attraction's model assumes.

Definitions named after a mutation (`TryPassTurns`, `GuideLeaveEarly`, ...) are
plausible mistakes in the code, each marked `Mutant:`. No specification uses
them; put in the place of the right action, each makes one property fail, which
shows that the property is about the code.

### Ring buffer

The state is the struct. `data`, `head_idx` and `tail_idx` run over
`0 .. Capacity - 1`. The two loops of `ringbuffer_erase` are written as what
they leave behind (`ShiftFront`, `ShiftBack`). `At` has the value the caller's
variable held before as an argument, because `ringbuffer_at` does not write it
when the position is not occupied. The mapping to `FifoQueue` reads the
elements from the head on (`Items`). Callers erase the position that
`ringbuffer_contains` returned, so `Next` has `Erase(Contains(x))`.

### Bridge

A process is a guide, a VIP or a group member. `pc[p]` names the place in its
code between two steps:

    elsewhere -> arrived -> queued -> first -> trying -> entering -> ... -> elsewhere
                             ^  |                 ^ |
                       awake1 <- asleep1    awake2 <- asleep2

A section of code under MUTEX_BRIDGE is one step (`Join`, `CheckFirst`,
`StartCrossing`, `LeaveBridge`, the erases); `try_pass_bridge` waits for
SEM_BRIDGE while it keeps the mutex, so it is two (`TryPass`, then `GuideEnter`
or `VipEnter`). `wake` is the set of processes with SIG_WAKE_UP pending: a
standard signal does not queue, so a set is right. SIG_LEAVE_PARK runs a handler
(`GuideTold`): inside `sigwaitinfo` it ends the sleep, just before it, it does
not. What a guide does elsewhere (tower, ferry, cash) is one step in which it
comes back with a new group and direction (`GuideArrive`). Its assumption is
that no check-in of an earlier attraction is still in the message queue; the
tower can break this when a group is called down (hazard at `guide.c:458`); that
is not modelled.

VIPs have no group. At night they leave the queue, walk to the cashier, send a
leave message (`letters`), write VS_AWAITING_TICKET, and the cashier's leaving
thread answers with VS_LEAVING (`marked`) and SIGINT (`kill_requested`). A P
that sees `kill_requested` returns without the semaphore, and the V that
follows raises it all the same (`Section`, `VipEnter`). A process name stands
for a new visitor once the old one is dead.

The clock is `phase`: even by day, odd by night. A night may pass without the
cashier's round, because the cashier waits in `poll` without a timeout.

### Tower

At the tower the members act for themselves and the guide only counts them in.
A member's `status` is written by its guide and by the member, which reads it at
the top of `operate()`; so `Read` turns what the status says into a place in
the code (`pc`), and every write between two reads counts or is lost as in the
program. A member that may go up goes

    reading -> queueing -> joined -> queued -> popping -> reading -> climbing -> up -> ...
                                      ^  |
                                    awake <- asleep

and waits for its guide in `waiting`. MUTEX_TOWER is never kept while waiting
and nobody is killed here, so each of its sections is one step (`Join`, the
erases, `CheckFirst`, `Pop`). `Climb` waits for as many places of SEM_TOWER as the
visitor and its kids need. Each check-in is a message of its own in `inbox`; the
guide adds it up (`GuideCount`) and leaves when it has as many as there are
people in the group. What follows on the tour is told apart as far as it can
disturb the tower: the next attraction writes the status of everybody and
counts again (`GuideNext`, `GuideLeaveNext`). A guide comes with a new group,
new processes under the names of the old, once the old ones are home and their
check-ins are read; a check-in left over for the guide's next group is not
modelled.

`GuideTold` is `handle_leave_tower` or `handle_leave_park` of the guide: it passes
the signal on to its group. `MemberTold` is its arrival; `leave_tower` and
`leave_park` of a member are always tested together and are one flag (`told`).
`Round` is the cashier's round at nightfall, which wakes every visitor.

### Ferry

The party that takes the first seat is the captain. A party goes

    elsewhere -> queued -> trying -> popping -> boarding -> asleep4 -> landed -> (gathering) -> released -> elsewhere
                  ^  |      ^  |                   |                     ^
               awake1 <- asleep1                   +-> asleep3 -> sailing
                         awake2 <- asleep2

where `asleep4` is a passenger, `asleep3` the captain that waits for somebody in
its line, and only guides gather. The code sleeps through the voyage with
MUTEX_FERRY in its hand and looks at SEM_FERRY before it takes places, so no
section under the mutex waits for another process, and each is one step: the
voyage too (`Sail`). Some further steps are joined, because nobody else can see
the difference: arriving and pushing (`Arrive`), popping and alerting the group
(`PopEntry`). Of `ferry_seats` only the first entry is read after a voyage (a
refused party signals it), so `Sail` keeps only that; a captain's flag
`ferry_leader` is not read between two voyages, so `Sail` clears it.
`ferry_groups_boarded` is written and never read.

Members wait for the voyage in a bare `sigwaitinfo`: `Read`, `WakeUp` and `Land`
let any wake-up, also a stale one or SIG_LEAVE_PARK (`MemberTold`), land them,
before the guide boards if it comes early. `Arrive` gives a party any set of
wake-ups nobody has waited for yet. In the evening the cashier tells the guides
(`GuideTold`), whose handlers tell their groups, and then wakes the visitors
(`Round`), or notices nothing (`Nightfall` to `closed`). VIPs withdraw by the
clock. Their dismissal by SIGINT while they are still at the ferry, and the
morning after, are left out.

### Entrance

`visitor[v]` is a visitor's process and its status in one:

    unborn -> spawned -> registered -> queueing -> admitted -> following -> lettered -> leaving -> zombie -> gone
                                           |          +-> (dismissed) -------------------^
                                           +-> touring (VIP) -> lettered

`visitors_data[i]` is the visitor that registered in slot `i`; `Taken` asks
whether its process exists, as `b_process_exist` does. A zombie exists; it is
`gone` when the reaper has waited for it. Kernel process ids are not used twice.

The message queue of guides and cashier is two sequences, `tickets` (type 1) and
`letters` (type 2), that share `Slots`. The cashier's loop goes

    opening -> top -> polling -> selling -> checking -> sending -> top
                |        |                    ^  |
             flushing    +-> top         waiting <-

`b_fifo_open` blocks until a visitor opens the other end (`Open`). The setup of
a day leaves the cashier at the top: its two tests of the clock are two
evaluations of `Top`. The round at nightfall sets `leave_park` of the guides and
then takes one ticket after another off the queue (`Flush`), while guides may
take and put back others. `poll` has no timeout: it returns when a visitor
queues or when no visitor has the FIFOs open (`HungUp`). The leaving thread
answers letters at any time and wakes the cashier.

A guide that gathers takes a ticket, wakes the cashier and assigns the visitor
(`Take`, one step: between its parts it touches nothing another process reads),
or holds the one that does not fit (`held`) and sends it back, if there is room
(`PutBack`). `Depart` is the test at the end of the loop, whose time condition
GUIDES_GATHER_WAIT may hold at any moment. `Command` is the command `leave` of
the command line. At the cash the guide sends its letters one by one (`Letter`,
`sent` counts them), with as many pauses as the full queue makes. `group` is
`groups[]` up to `group_count` and stays whole meanwhile; `Finish` forgets it when
the last letter is sent (`guide.c:765`). The end of the simulation is left to `Shutdown`; failures of
`fork` are left out; new visitors come at all times, as with
CONSTANT_VISITOR_SPAWN.

### Shutdown

The other models take a wait in the kernel as one guard. Here it is two steps,
because a signal may come in between. A process tests `kill_requested`, comes to
a call (`pc[p]` is then the name of the call) and, if the call cannot be served
(`Ready`), is taken into it (`Block`, `blocked`). A signal that finds it there
makes the call return, and the process goes on as its code does after EINTR
(`Interrupted`). One that comes earlier sets the flag, and in visitors and guides
raises SIG_WAKE_UP, which `sigwaitinfo` finds and no other call looks at.

    visitor: unborn -> forked -> starting -> init -> open regular -> open next -> open vip
                    -> register -> top -> (a call) -> ... -> zombie -> reaped
    main:    top -> sem_wait -> fork -> top -> ... -> ending -> signalling -> collecting -> done

`Strike` is what a SIGINT does to its targets, `Struck` where it leaves them. A
child between `fork` and `exec` handles it in its own copy of main's memory and
forgets it at `exec`; one without handlers is terminated; all others note it.
SIGINT comes from the terminal to the whole group, any number of times
(`Interrupt`), from `end_simulation` to the children (`SignalAll`), from the
cashier to main after the last day (`Serve`), and from the leaving thread to one
visitor. A fifo opens when both ends are there: `Writers` and `CashierReads` say
who holds them, `readers` that main does.

Of the rest there is as much as makes processes wait for one another: the start
of each, tickets, the tower, check-ins and letters. `AWAITING_GUIDE` stands for
FOLLOWING_GUIDE too; a guide may leave with any group; everybody takes one place
on the tower; a guide's queue never fills, since it holds a few check-ins. The
bridge and the ferry wait in the same calls and are left out. It is day.

## Properties

Safety of `Bridge`:

- `WithinLimit`: the people on the bridge, kids included, are at most
  `BRIDGE_LIMIT`.
- `OneDirection`: everybody who is admitted, steps on, crosses or is about to
  report goes the way of `bridge_direction`.
- `GroupsCounted`: `groups_on_bridge` is the number of parties that use the
  bridge.
- `MutexBinary`: at most one process holds the bridge mutex.
- `GroupStaysTogether`: a guide leaves only with its whole group across.
- `SeatComesFree`: a party that waits for a seat with the mutex in hand waits for
  somebody who can give one back without the mutex.
- `QueueHonest`, `NoLostWakeup` (by day): the queues hold exactly the waiting
  parties; the first sleeps without a pending signal only while somebody uses
  the bridge against it.
- `NoGhostVip`, `MutexNotLost` (through the night): a VIP that has gone left no
  entry; the mutex may be raised once too often, but is never lost.
- `ImplementsOneWayBridge`: the protocol implements `OneWayBridge`.

Liveness of `Bridge`: `Drains`: from some moment on either parties keep arriving or
everybody is across for good.

Of `Tower`:

- `WithinTowerLimit`: the people on the tower, kids included, are at most
  `TOWER_LIMIT`, also when groups are called down.
- `NoPlaceLost`: the value of SEM_TOWER and the people on the tower add up to the
  limit. A guide that left a member behind can write over its status while it is
  on the tower, and the member walks off with its places; so this holds where
  `GuideWaits` does.
- `GuideWaits`: a guide stays while a member of its group is in line or on the
  tower.
- `CheckedInOnce`: what the guide has counted are the people of the members that
  are back and whose message it has read.
- `QueueHonest`, `NoLostWakeup`: the queue holds exactly the members in line, once
  each; the first never sleeps without a wake-up pending.
- `Drains`: once parties stop arriving, all groups come down and go home.

Of `Ferry`:

- `PlacesKept`: the value of SEM_FERRY and the people of the parties that have
  boarded add up to `FERRY_LIMIT`: no overload, and no place lost.
- `OneCaptain`: while seats are taken, exactly one party that has yet to sail has
  the flag, it sits in the first seat, and the ferry is on its shore.
- `GuideWaits`: a guide goes on only when its members have landed, and no
  check-in is left over for the next attraction. It holds although members may
  land before the voyage.
- `QueueHonest`: each queue holds exactly the parties that wait there, once each.
  For guides until they are told to leave: the first leaves its entry behind
  (`guide.c:541`).
- `Drains`: by day, once parties stop arriving, everybody gets across.

Of `Entrance`:

- `RegistryHasRoom`: a visitor that was started finds a free slot. `visitor_sem`
  is taken by the spawner and given back by the reaper, the slot is taken by the
  visitor and given back by the kernel.
- `NobodyLost`: a visitor with a ticket is in exactly one pair of hands: the
  cashier's, the queue's, the guide's that could not take it, the guide's whose
  group it is in, or the leaving thread's.
- `PointersValid`: the slots a guide keeps pointers to belong to living visitors
  that follow it: all of them on the tour, where the guide's handlers signal through
  them, and at the cash those whose letter it has yet to send. Of a pointer whose
  letter is sent it would be false (see below).
- `EveryoneLeaves`: every visitor that comes goes home.

Of `Shutdown`:

- `NotedAreReady`: once main waits for its children, no visitor that has noted the
  signal waits for a wake-up or for a reader of the fifos that nobody will bring.
  The flag, the wake-up and the readers come from three processes, at different
  times.
- `NotedIsEnd`: whoever has noted the signal ends, except in a call for which the
  handler leaves nothing behind (`semop`, `msgrcv`, `msgsnd`).
- `AgainAndAgain`: who keeps interrupting the simulation brings it to its end. No
  process comes back to the same wait for ever, and none is missed each time.

## Runs

| Run | Instance | Shows |
|---|---|---|
| `ring` | 3 process ids, capacity 5 | the buffer implements the queue |
| `bridge_day` | guide with a visitor and a kid, 2 VIPs, limit 2, day only | safety by day, `ImplementsOneWayBridge` and `Drains` |
| `bridge_nights` | the same with 1 VIP; a day, a night and a day | what holds of groups and VIPs through the night |
| `bridge_limit_at_night` | 2 VIPs, one nightfall, limit 1 | **violation** of `WithinLimit` |
| `tower_visit` | 2 guides, 3 members (one not allowed up, two with a kid), a VIP, limit 2 | safety, and `Drains`, when nobody is called down |
| `tower_called` | 2 guides with a member each, called down twice, one round | `WithinTowerLimit` all the same |
| `ferry_voyage` | guide with a visitor and a kid, 2 VIPs, limit 4, 3 arrivals, one evening | safety of the ferry |
| `ferry_crowd` | the same by day | `Drains`, where parties are refused and share a line |
| `entrance` | a family of two, two single visitors, a VIP, one guide, groups of 2, 2 registry slots, 2 message slots, two days and a night | safety and `EveryoneLeaves` |
| `entrance_standstill` | a family of two and three visitors, one guide, 2 message slots | **violation** of `NoStandstill` |
| `shutdown_tour` | a visitor, a VIP and a guide, one visitor in the park at a time | `AgainAndAgain` |
| `shutdown_ticket` | a visitor and a VIP in the park at once, no guide, 2 message slots | `NotedAreReady` and `NotedIsEnd` |

**Bounds.** `LastPhase` bounds the days and nights at the bridge and the
entrance, `Commands` and `Nights` how often groups are called down and everybody
is woken at the tower, `Evenings` whether the ferry sees an evening and `Visits`
how many parties come there (0: any number). Nothing else is cut off, all tours
within them are unbounded; at the entrance the visitors are used up, since no
process id is used twice. At the tower a limit of 2 is filled by one visitor
with its kid, so that everybody contends for places; two commands let a group be
called down again while it is still confused by the first. Capacity 5
lets an erase shift two elements on either side of the wrap. At the bridge limit
2 with a guide, a visitor and a kid makes the group cross in two goes, and
limit 1 makes every seat contested. Three parties give a queue with a head, a
follower and an opposite. `BRIDGE_LIMIT` is below `GROUP_SIZE` in the code
(`main.c:203`), as here. It is assumed that the largest family fits on the
bridge, which the code does not check. At the ferry a limit of 4 carries the
group of three and one VIP of two: somebody is refused, and a voyage has a
captain and a passenger. The group and two VIPs never
fit together, which matters for `Drains`: beside the two VIPs the guide is refused,
beside the group the second VIP, who then sleeps in its line, alone or behind the
other; and a captain waits for those in its line. Two VIPs and any number of
arrivals are too many states. `FerryConstants` assumes that every group fits on the
ferry; `check_configuration` does not check it, the default limits satisfy it.
Three arrivals cover two voyages in a row, a refused party and a captain of the
last voyage that is signalled. At the entrance the registry is two slots short of
the visitors, so slots are taken again, also by a stranger while the
guide still has letters to send: the group of the two single visitors, of whom
one has its letter and is gone. The family does not fit into a group
with a single visitor, so one is put back; and two message slots are as many as
make the cashier wait. In the real queue 16384 bytes hold 2048 messages of 8,
fewer than the visitors the test builds of the repository allow (up to 10000).
At the end of the simulation nothing bounds the interrupts. One visitor at a time
is enough for each wait that has one partner: visitor and guide, visitor and
cashier, guide and visitor, everybody and main. Two in the park with two message
slots make the cashier wait for the queue, and let one visitor hold the fifos
open while the other starts. Two VIPs in a queue for one place of the tower are
not among the instances.

**Deadlock** is checked in `ring`, `bridge_day` and `tower_visit`.
In the others the system may stop. With VIPs at night a dismissed VIP that walks
on takes another's entry off the queue, and the next party waits for a seat, with
the mutex, for a VIP that waits for the mutex. At the tower a member that is
called down takes another's entry off the queue, and the other sleeps on. At the
ferry nobody comes any more after the evening or the last arrival. At the
entrance all visitors have come and gone. After the shutdown nobody is left.

**Fairness** is weak fairness of each process (`FairSpec`): the operating system
schedules every process that can run, and every wait ends when its condition
holds for good. Semaphore waits contend with others, but a seat or a mutex that
is released is always taken by some waiting process; the runs show that this is
enough. At the attractions nothing makes parties arrive, night fall or groups be
called down, and the cashier acts only at the ferry, where it has a signal to
send. At the entrance time passes (`Clock`), for guides sleep until the morning,
and a guide that gathers with a group comes to the end of GUIDES_GATHER_WAIT, whose
clock starts again only when a visitor joins: its `Depart` is strongly fair,
because the loop passes the test again and again. Nothing makes visitors come.
The tours in between (`TourEnd`, `VipLeave`) are assumed to end; that is what
`Drains` of the attractions shows by day. At the end of the simulation each
process, the leaving thread and the reaper run on; nobody needs to interrupt.

## What the violations show

- **Limit at night** (`visitor.c:298`, `:339`). A VIP leaves the queue, sends its
  leave message and writes VS_AWAITING_TICKET. The two tests that should end its
  visit look for that status *at night*. When the cashier's VS_LEAVING lands
  after it, or day breaks, the VIP goes on to the bridge without an entry in the
  queue; killed at SEM_BRIDGE it does not even wait for a seat.
- **Standstill** (`guide.c:177`). The cashier sees two free slots and is about to
  send a ticket that leaves one; a guide puts a visitor back in between. The
  queue is full. If the guides are at the cash, their letters have no room; without
  letters the leaving thread wakes nobody; and the cashier, that waits before its
  next ticket, is woken by nobody else.

Further behaviour of the code that the models have, and that no property denies:

- A member called down in the tower's queue erases its entry and checks in; the
  `break` that follows leaves the waiting loop only (`visitor.c:481`). It goes on as
  if it were first: it takes the entry of whoever is, goes up and checks in again,
  while its guide, who should wait for its return (`guide.c:445`), has counted it
  and leaves. So `GuideWaits` of the tower is checked where nobody is called down.
- SIG_LEAVE_PARK ends the wait of a member that has boarded the ferry, and the
  member checks in for a landing that has not begun (`visitor.c:842`). The guide,
  still counting who boards, takes it for another member's, boards, and resets
  the counter after the voyage (`guide.c:711`). If the families of its group differ
  in size, it then waits for check-ins that were spent.
- A visitor that is struck between `fork` and `exec` forgets the signal
  (`utils.h:51`). If that was the SIGINT of `end_simulation`, it passes the fifos
  through the dummy readers that main opened (`main.c:170`, "to prevent visitor
  blocking that required 2x CTRL+C"), asks for a ticket and waits; main waits for
  it until the next CTRL+C.
- A guide that notes the signal between its test of `kill_requested` and `msgrcv`
  waits for check-ins of visitors that are gone, until the next interrupt
  (`guide.c:632`); and so does who comes to `semop` or `msgsnd`.
- A guide told to leave just before it goes to sleep does not notice (`guide.c:282`);
  one that leaves the queue of the bridge there does not wake the next (`:288`).
- A guide told when it is first in line leaves its entry in the queue
  (`guide.c:321`, `:541`). Entries of that kind add up, night after night.
- A member called down before its first look at the tower's queue erases its
  entry and does not wake the next (`visitor.c:461`).
- A VIP that withdraws at the ferry in the evening does not wake a captain that
  waits for it (`visitor.c:690`).
- At the cash a guide keeps all its pointers until the last letter is sent
  (`guide.c:765`). A member whose letter went first may by then be gone and its slot
  taken by a new visitor. `handle_leave_park` and `handle_leave_tower`
  (`guide.c:43`) signal that stranger, too. The run `entrance` reaches the state;
  what a SIG_LEAVE_PARK or SIG_LEAVE_TOWER does to a stranger that is on its way is not
  modelled (it is forgotten at its next VS_FOLLOWING_GUIDE, `visitor.c:218`).
- A night the cashier spends in `poll` is not noticed: the setup of the day
  before stays, and its count of visitors with it (`cashier.c:105`).
- `leave_park` of a guide that has no group outlives the night (`cashier.c:109`).

## Proofs

All proofs are checked by TLAPS to the last leaf. Every invariant that a passing
run checks is also a theorem, and so are the three action and refinement
properties that are not about liveness. Where a theorem has a hypothesis, it is
named here and said why it is needed.

`RingBufferProofs`, for every capacity above zero and any set of process ids:

- `RingBufferTypes`, `RingBufferInvariant`: `TypeOK`, `IndicesAgree` and
  `OccupiedHoldPids` always hold. Together they are inductive. The index
  arithmetic is confined to the operator `Wrap` and a few lemmas about it
  (`WrapOnce`, `WrapIsIndex`, ...).
- `RingBufferImplementsFifo`: every step is a step of `FifoQueue` or a stutter.
  The hard case is the erase: lemmas say what `Items` is after either shift.
- `RingBufferEraseIsExact`: the position that `ringbuffer_contains` finds is the
  caller's first, so an erase removes exactly the caller's first entry.

`QueueLemmas` is what the proofs about queues rest on: which entries a queue has
after a push, a pop and an erase (`AppendEntries`, `TailEntries`, `WithoutEntries`),
how often, and who is first. `Keeps(x, q, r)` says that x has as many entries in
r as in q and stays at the head if it was there; each operation keeps everybody
but the party it is about (`AppendKeeps`, `TailKeeps`, `WithoutKeeps`).
`QueueTakesOneMore` is the pigeonhole that makes a push succeed.

`BridgeProofs`, for any finite sets of guides, VIPs and visitors, any disjoint
families, any limit, capacity and number of days and nights:

- `BridgeTypes`: `TypeOK`, inductive as it stands.
- `NobodyLeftBehind`: `GroupStaysTogether`, nights and dismissals included. That
  a guide leaves only with everybody across depends on what the check-ins in
  the message queue mean, so the invariant `GroupInv` follows a group through a
  tour: untouched before the guide enters (`GroupAway`), either told to cross or
  across while it is under way (`GroupSent`), every early check-in still in the
  message queue while the guide crosses, which is why the late reset of
  `visitors_checkins` loses none (`NobodyCounted`), and counted exactly once
  with the kids while it gathers (`CountExact`). The last step is arithmetic of
  sets: check-ins of as many people as the group has are those of all members.
- `BridgeMutexIsBinary`, `BridgeCountsItsGroups`, `BridgeIsOneWay` and
  `BridgeIsSafe`: `MutexBinary`, `GroupsCounted`, `OneDirection` and `WithinLimit`,
  under `NoDismissals` (there are no VIPs, or night never falls; guides may be
  told to leave at any moment where there are no VIPs). Without it the run
  `bridge_limit_at_night` refutes `WithinLimit`. The four need each other: the
  invariant `DayInv` adds `NobodyDismissed` (nobody is killed, so every P waits),
  `DirectionKept` and `SeatsCounted`: the value of SEM_BRIDGE plus the people
  on the bridge is always `BridgeLimit`. `GroupInv` is needed here too: it says
  that the members on the bridge belong to a party that is counted.
- `BridgeMutexIsNotLost`: `MutexNotLost`, nights and dismissals included. A P that
  returns without the semaphore and the V after it can only raise it, so what is
  shown is that no step leaves "entering" without a V.
- `BridgeImplementsOneWay`: `ImplementsOneWayBridge`, under `NoDismissals`, since it
  contains the limit and the direction. Every step is a step of `OneWayBridge` or a
  stutter: `GuideEnter` and `VipEnter` admit a party, a step onto the
  bridge is a `StepOn` that fits, a step off it a `StepOff`, and a party that is
  taken off `groups_on_bridge` has all of its people across, so that it is a
  `Release`: which is `GroupStaysTogether` again. `GroupQueued` is added: until its guide
  is admitted, a group has been told to wait.

`BridgeQueueProofs`, for the same constants:

- `BridgeQueueIsHonest` and `BridgeWakesTheFirst`: `QueueHonest` and `NoLostWakeup`, under
  `ByDay` (the night never falls) and `QueueHasRoom`. By night the first of them
  is false: a guide told when it is first in line leaves its entry behind. The
  invariant is kept per party (`Placed`): who waits has one entry, in the
  queue of its direction and in no other; and who has passed
  `check_if_first_secure` is the head of that queue until it pops itself. That
  is what makes the blind `ringbuffer_pop_front` after the crossing begins take the
  right entry. The two are proved together: that the wake-ups of `guide.c:414` and
  `:890` go to the one that sleeps needs the queue to be honest.
- `BridgeSeatComesFree`: `SeatComesFree`, under the same conditions and for a limit
  above zero. By `SeatsCounted` there is somebody on the bridge; a member is
  crossing, or a leader that is: the others on the bridge have yet to pop their
  entry and are the head of the queue the waiting party is the head of.
- `BridgeHasNoGhostVip`: `NoGhostVip`, by day and by night, for any capacity, without
  hypothesis. After dark a VIP may lose its entry to somebody else's pop, so
  `Placed` is too strong; `VipPlaced` says only that a VIP with an entry has one,
  in the queue of its direction, has not yet written to the cashier, and is the
  head of the queue wherever its code is about to pop. So its own pop or erase
  takes it away before it goes.

`TowerProofs`, for any finite sets of guides, members and VIPs, any disjoint
families, any limit, any number of commands and rounds:

- `TowerTypes`: `TypeOK`, inductive as it stands.
- `TowerIsNotOverloaded`: `WithinTowerLimit`. The invariant is `PlacesTaken`, that
  the value of SEM_TOWER plus the people on the tower is at most the limit, and
  `Grounded`, that nobody away from the tower has a status that would put it
  there at its next look. It is an inequality because a guide ahead of its
  group may make a member take its places away with it.
- `TowerGuideWaits`, `TowerCheckedInOnce`, `TowerLosesNoPlace`: `GuideWaits`,
  `CheckedInOnce` and `NoPlaceLost`, under `NobodyCalled` (no group is called down;
  nights may fall). Called down, a member goes up a second time and checks
  in twice (`visitor.c:481`), and all three fail, as do the next two. The invariant is `InStep`: the
  place of a member in its code, its status, its check-in and the place of its
  guide go together; and `CountExact`: what the guide has counted are the people
  of the members that are back. A guide leaves when it has counted its whole
  group, and then by arithmetic of sets all are back. Since it never writes the
  status of a member that is up, no member walks off with its places.
- `TowerQueueIsHonest`, `TowerWakesTheFirst`: `QueueHonest` and `NoLostWakeup`, under
  `NobodyCalled` and `QueueHasRoom`. Proved together, with `PoppingFirst`: who is
  about to pop is the head of the queue.

`FerryProofs`, for any finite sets of guides, VIPs and members, any disjoint
families such that each group fits, any limit, capacity and number of arrivals,
the evening included:

- `FerryTypes` (`TypeOK`) and `FerryHasOneCaptain` (`OneCaptain`), proved together:
  that the seats have a first entry depends on there being a captain. The
  invariant is `CaptainKnown`: with seats taken, the party in the first seat alone
  has the flag and has yet to sail; with none taken, nobody has it; and whoever
  waits for others or sails has it.
- `FerryKeepsItsPlaces`: `PlacesKept`. Each step that changes who is aboard
  changes the semaphore by `Places`; the sets of different parties are disjoint.
- `FerryGuideWaits`: `GuideWaits`. One counter serves the boarding and the landing,
  and members may land at any time after they have checked in. So the invariant
  is kept in debts: on each crossing a member owes its guide two check-ins; `Owed`
  is how many of them are not yet sent or not yet counted. `BooksKept` says that
  while the guide counts those who board, what it has counted and what is owed
  come to twice the group, and that from then on no more than one group is owed.
  A guide that has counted a group in each half is owed nothing, and so every
  member has landed. It shows also how a guide may wait in vain: it may count
  more than its group in the first half, and less is owed than it expects.
- `FerryQueueIsHonest`: `QueueHonest`, under `QueueHasRoom`, the evening included. VIPs
  and guides have lines of their own (`Apart`), which is why the entries that guides
  leave behind in the evening do not disturb the VIPs: `Placed` is kept of VIPs always and
  of guides until one is told to leave (`Orderly`).

`EntranceProofs`, for any finite sets of visitors and guides, any limit of the
registry and the groups, any number of message slots, days and nights:

- `EntranceTypes`: `TypeOK`.
- `EntranceHasRoom`, `EntrancePointersValid`, `EntranceLosesNobody`:
  `RegistryHasRoom`, `PointersValid` and `NobodyLost`, from one inductive invariant
  `Order`. Its parts are `RegistryKept` (a slot has at most one visitor, and a
  visitor one slot), `SlotsCounted` (`visitor_sem` and the visitors that exist add
  up to the limit), `DeskKept`, `TicketsKept` and `LettersKept` (the admitted
  visitors are exactly those at the desk, in the queue or held by a guide, the
  lettered ones exactly those with a letter, each once) and `GroupsKept` (the
  visitors that follow are exactly those some guide points to and has yet to send a
  letter, each once). `SentKept` says that only a guide at the cash has sent letters,
  and no more than it has pointers; so on the tour `GroupsKept` and
  `EntrancePointersValid` speak of the whole group, and at the cash of the rest of
  it, `ToSend`. A letter takes the first off that rest, and its visitor goes from
  `GroupsKept` to `LettersKept` in one step. Room
  in the registry is then a pigeonhole argument: if all slots were taken, their
  owners would be as many living visitors as the limit, besides the one that has
  yet to register.

`ShutdownProofs`, for any finite sets of visitors and guides, any limits and message
slots, any number of interrupts:

- `ShutdownTypes`: `TypeOK`.
- `ShutdownReachesVisitors`: `NotedAreReady`. The inductive invariant `Order` follows
  the wake-up: a visitor that has noted the signal has SIG_WAKE_UP pending, or has
  had it and is about to look at its flag (`NotedAreWoken`); and main opens the
  fifos before it signals (`ReadersOpen`). The other parts say who is where
  (`PcKept`, `DataKept`, `GuidesSend`) and that the cashier sends tickets to members
  only (`DeskKept`), on which the types depend.

The assumptions `BridgeConstants`, `TowerConstants`, `FerryConstants`,
`EntranceConstants` and `ShutdownConstants` say that the sets are finite and
disjoint, that each visitor has a guide and belongs to its own family only, and
that a family fits into a group and a group onto the ferry. `ShutdownConstants`
asks for two message slots, since the cashier keeps one free.

`QueueHasRoom` says that a queue has as many places as there are parties (at the
tower, members). The code makes the capacity VISITORS_LIMIT. A VIP or a member is one
of at most as many visitors, which is what `EntranceHasRoom` is about, and a guide
sets out with at least one visitor of its own (`guide.c:197`). Without it
`ringbuffer_push_back` would drop an entry, and the party would wait for ever.

## Only model-checked

- Liveness, which is out of the prover's reach: `Drains` of the bridge, the
  tower and the ferry, `EveryoneLeaves`, `NotedIsEnd` and `AgainAndAgain`. What some
  of them stand on is proved: by `NoLostWakeup` and `SeatComesFree` the first in line
  and the holder of the mutex never wait for nobody.
- What the runs `bridge_limit_at_night` and `entrance_standstill` refute. No weaker
  form is stated either: how far the bridge may be overloaded at night, or how
  many visitors may get stuck.
- That the operators of the queues in `Bridge`, `Tower` and `Ferry` are those of
  `FifoQueue` is by reading: they are written alike, and no theorem relates the
  modules.

## Not modelled

- The end of the simulation in the middle of a crossing or a voyage, or at night;
  the order in which the IPC objects are removed; failures of `fork`; the reuse of
  process ids by the kernel.
- The dismissal of a VIP that is still at the ferry or on the tower.
- A guide's signal that reaches a stranger in the slot of a member that has gone
  home (`guide.c:43`, `:765`): entrance and attractions would have to be one model.
- Check-ins left over between attractions after a group was called down from the
  tower (`guide.c:458`): they need two attractions in one model.
- `vector.h`, which no program of the simulation uses.
- Times, chances, prices, the daily report, and the text the programs print.

## Plan

1. That what `Bridge`, `Tower` and `Ferry` do to their queues are steps of `FifoQueue`, as
   theorems, so that the ring buffer's proof and theirs join.
2. What holds of the bridge at night with VIPs: by how much the limit can be
   exceeded, and whether `GroupsCounted` and `OneDirection` hold of the guides' groups.
3. The order of `Drains` as invariants: that a captain that sleeps at the ferry
   has somebody who will wake it, by day.
