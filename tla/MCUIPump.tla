------------------------------- MODULE MCUIPump -------------------------------
(***************************************************************************)
(* Instances of UIPump for TLC.                                            *)
(***************************************************************************)
EXTENDS UIPump, TLC

Symmetry == Permutations(Poster)

=============================================================================
