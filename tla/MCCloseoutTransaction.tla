------------------------ MODULE MCCloseoutTransaction ------------------------
(* Two workspaces: a record of one can be lost to a torn record of the other. *)
EXTENDS CloseoutTransaction, TLC

CONSTANTS i1, i2

MCIdentity == {i1, i2}
Symmetry == Permutations(MCIdentity)
=============================================================================
