---------------------------- MODULE MCDispatchWave ----------------------------
(* Waves of up to three lanes on two repositories.                           *)
EXTENDS DispatchWave, TLC

CONSTANTS r1, r2

MCRepo == {r1, r2}
Symmetry == Permutations(MCRepo)
===============================================================================
