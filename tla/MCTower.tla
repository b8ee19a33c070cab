------------------------------ MODULE MCTower -------------------------------
(* A guide with a visitor and its kid and a visitor whose kid is too small *)
(* for the tower, a second guide with one visitor, and a VIP.              *)
EXTENDS Tower, TLC
CONSTANTS g1, g2, m1, k1, m2, k2, m3, v1
MCGuides == {g1, g2}
MCVIPs == {v1}
MCMembers == {m1, m2, m3}
MCGuideOf == (m1 :> g1) @@ (m2 :> g1) @@ (m3 :> g2)
MCFamily == (m1 :> {m1, k1}) @@ (m2 :> {m2, k2}) @@ (m3 :> {m3}) @@ (v1 :> {v1})
MCAllowed == {m1, m3}

(* The two guides with one visitor each. *)
MCTwoMembers == {m1, m3}
MCTwoGuideOf == (m1 :> g1) @@ (m3 :> g2)
MCTwoFamily == (m1 :> {m1, k1}) @@ (m3 :> {m3})
=============================================================================
