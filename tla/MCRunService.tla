---------------------------- MODULE MCRunService ----------------------------
(* Two calls, two run ids to choose from.                                    *)
EXTENDS RunService, TLC

CONSTANTS c1, c2, r1, r2

MCCall == {c1, c2}
MCRun == {r1, r2}
Symmetry == Permutations(MCCall) \cup Permutations(MCRun)
=============================================================================
