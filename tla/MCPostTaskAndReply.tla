-------------------------- MODULE MCPostTaskAndReply --------------------------
(***************************************************************************)
(* Instances of PostTaskAndReply for TLC.                                  *)
(***************************************************************************)
EXTENDS PostTaskAndReply, TLC

Symmetry == Permutations(Loop) \union Permutations(Relay)

=============================================================================
