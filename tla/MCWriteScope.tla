---------------------------- MODULE MCWriteScope ----------------------------
(* A small instance of WriteScope: a directory, a path below it and the     *)
(* scope of a competing lane that overlaps one of them only.                *)
EXTENDS WriteScope, TLC

CONSTANTS src, docs, api, r1, r2, c1, c2

MCCwd == <<src>>
MCPath == {<<src>>, <<src, api>>, <<docs>>}
MCRun == {r1, r2}
MCClaimId == {c1, c2}
Symmetry == Permutations(MCRun) \cup Permutations(MCClaimId)
=============================================================================
