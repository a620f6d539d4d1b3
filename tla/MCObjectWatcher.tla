--------------------------- MODULE MCObjectWatcher ---------------------------
(***************************************************************************)
(* Instances of ObjectWatcher for TLC.                                     *)
(***************************************************************************)
EXTENDS ObjectWatcher

=============================================================================
