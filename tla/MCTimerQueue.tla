---------------------------- MODULE MCTimerQueue ----------------------------
(* Six elements: room for the job, the remains of an expired link and of a  *)
(* selector, and a new link.                                                *)
EXTENDS TimerQueue, TLC

Symmetry == Permutations(Elem)
=============================================================================
