----------------------------- MODULE MCRunStore -----------------------------
(* Two writers contend for one run.  They are interchangeable: which of them  *)
(* also overwrite is chosen by Init, in all ways.                             *)
EXTENDS RunStore, TLC

CONSTANTS w1, w2, run

MCWriter == {w1, w2}
Symmetry == Permutations(MCWriter)
=============================================================================
