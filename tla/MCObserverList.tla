---------------------------- MODULE MCObserverList ----------------------------
(***************************************************************************)
(* Instances of ObserverList for TLC.                                      *)
(***************************************************************************)
EXTENDS ObserverList, TLC

Symmetry == Permutations(Observer)

=============================================================================
