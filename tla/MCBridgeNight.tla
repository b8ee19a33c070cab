--------------------------- MODULE MCBridgeNight ----------------------------
(* VIPs alone: night falls while they queue. *)
EXTENDS Bridge, TLC
CONSTANTS v1, v2
MCGuides == {}
MCVIPs == {v1, v2}
MCMembers == {}
MCGuideOf == << >>
MCFamily == << >>
MCSymmetry == Permutations(MCVIPs)
=============================================================================
