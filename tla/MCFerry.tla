------------------------------ MODULE MCFerry -------------------------------
(* A guide with a visitor and its kid, and two VIPs, of whom a ferry of    *)
(* four places carries one beside the group.                               *)
EXTENDS Ferry, TLC
CONSTANTS g1, v1, v2, m1, k1
MCGuides == {g1}
MCVIPs == {v1, v2}
MCMembers == {m1}
MCGuideOf == m1 :> g1
MCFamily == m1 :> {m1, k1}
MCSymmetry == Permutations(MCVIPs)
=============================================================================
