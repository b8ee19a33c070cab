---------------------------- MODULE OneWayBridge ----------------------------
(***************************************************************************)
(* What the suspension bridge promises the visitors: it is used in one     *)
(* direction at a time, it never carries more than BridgeLimit people, and *)
(* a party leaves it only after everybody who belongs to it has crossed.   *)
(* Module Bridge, the protocol that guides, VIPs and group members run on  *)
(* semaphores, signals and queues, implements this specification.          *)
(***************************************************************************)
EXTENDS Integers, FiniteSets

CONSTANTS Parties,      \* the guides and the VIPs
          People(_),    \* the people who belong to a party, its leader included
          BridgeLimit

VARIABLES direction,    \* the way the bridge is used at the moment
          heading,      \* the way each party wants to cross
          admitted,     \* the parties that may use the bridge
          span,         \* the people on the bridge
          crossed       \* the people of admitted parties already on the other side

vars == << direction, heading, admitted, span, crossed >>

Init ==
    /\ direction = TRUE
    /\ heading \in [Parties -> BOOLEAN]
    /\ admitted = {}
    /\ span = {}
    /\ crossed = {}

Choose(p, d) ==
    /\ p \notin admitted
    /\ heading' = [heading EXCEPT ![p] = d]
    /\ UNCHANGED << direction, admitted, span, crossed >>

(* The direction changes only while no party uses the bridge. *)
Admit(p) ==
    /\ p \notin admitted
    /\ admitted = {} \/ direction = heading[p]
    /\ direction' = heading[p]
    /\ admitted' = admitted \union {p}
    /\ UNCHANGED << heading, span, crossed >>

StepOn(p, who) ==
    /\ p \in admitted
    /\ who \subseteq People(p)
    /\ who \intersect (span \union crossed) = {}
    /\ Cardinality(span \union who) <= BridgeLimit
    /\ span' = span \union who
    /\ UNCHANGED << direction, heading, admitted, crossed >>

StepOff(who) ==
    /\ who \subseteq span
    /\ span' = span \ who
    /\ crossed' = crossed \union who
    /\ UNCHANGED << direction, heading, admitted >>

Release(p) ==
    /\ p \in admitted
    /\ People(p) \subseteq crossed
    /\ admitted' = admitted \ {p}
    /\ crossed' = crossed \ People(p)
    /\ UNCHANGED << direction, heading, span >>

Next ==
    \/ \E p \in Parties, d \in BOOLEAN : Choose(p, d)
    \/ \E p \in Parties : Admit(p) \/ Release(p)
    \/ \E p \in Parties : \E who \in SUBSET People(p) : StepOn(p, who) \/ StepOff(who)

Spec == Init /\ [][Next]_vars
=============================================================================
