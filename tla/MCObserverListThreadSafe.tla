----------------------- MODULE MCObserverListThreadSafe -----------------------
(***************************************************************************)
(* Instances of ObserverListThreadSafe for TLC.                            *)
(***************************************************************************)
EXTENDS ObserverListThreadSafe, TLC

Symmetry == Permutations(Loop) \union Permutations(Observer) \union Permutations(Context)

=============================================================================
