------------------------------ MODULE MCJournal ------------------------------
(* Two processes append to two runs, with one idempotency key or none.       *)
EXTENDS Journal, TLC

CONSTANTS p1, p2, r1, r2

MCProcess == {p1, p2}
MCRun == {r1, r2}
Symmetry == Permutations(MCProcess) \cup Permutations(MCRun)
=============================================================================
