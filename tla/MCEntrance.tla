----------------------------- MODULE MCEntrance -----------------------------
(* A family, visitors without kids, of whom two make a group that has no   *)
(* room for the family, and a VIP.                                         *)
EXTENDS Entrance, TLC
CONSTANTS a, b, c, d, vip, g1
MCVisitors == {a, b, c, vip}
MCVIPs == {vip}
MCKids == (a :> 1) @@ (b :> 0) @@ (c :> 0) @@ (vip :> 0)
MCGuides == {g1}

(* Four parties and no VIP. *)
MCFourVisitors == {a, b, c, d}
MCNoVIPs == {}
MCFourKids == (a :> 1) @@ (b :> 0) @@ (c :> 0) @@ (d :> 0)
=============================================================================
