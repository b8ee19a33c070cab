---------------------------- MODULE MCRingBuffer ----------------------------
(* Three process ids, which may be queued more than once, in a buffer of  *)
(* odd capacity: every head position, every fill level and every erase    *)
(* position is reached.                                                   *)
EXTENDS RingBuffer
CONSTANTS p1, p2, p3
MCElements == {p1, p2, p3}
=============================================================================
