---------------------------- MODULE MCLazyInstance ----------------------------
(***************************************************************************)
(* Instances of LazyInstance for TLC.                                      *)
(***************************************************************************)
EXTENDS LazyInstance, TLC

CONSTANTS a, b, c, d

\* b and d need a, and b needs c.
MCNeeds == a :> {} @@ b :> {a, c} @@ c :> {} @@ d :> {a}

MCKind == a :> "lazy" @@ b :> "singleton" @@ c :> "static" @@ d :> "leaky"

=============================================================================
