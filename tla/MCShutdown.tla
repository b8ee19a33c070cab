----------------------------- MODULE MCShutdown -----------------------------
(* A visitor and a VIP, with a guide or without.                           *)
EXTENDS Shutdown

CONSTANTS m1, v1, g1, cashier, main

MCMember == {m1}
MCVIP == {v1}
MCGuide == {g1}
=============================================================================
