------------------------------ MODULE MCBridge ------------------------------
(* A guide whose group is a visitor with a kid, who do not fit on the      *)
(* bridge together with the guide, and two VIPs.                           *)
EXTENDS Bridge, TLC
CONSTANTS g1, v1, v2, m1, k1
MCGuides == {g1}
MCVIPs == {v1, v2}
MCMembers == {m1}
MCGuideOf == m1 :> g1
MCFamily == m1 :> {m1, k1}

(* One VIP, for the nights. *)
MCOneVIP == {v1}
=============================================================================
