---------------------------- MODULE MCMessageLoop ----------------------------
(***************************************************************************)
(* Instances of MessageLoop for TLC.                                       *)
(***************************************************************************)
EXTENDS MessageLoop, TLC

CONSTANT Reference      \* a task

\* Tasks are told apart only by how they were posted.
Symmetry == Permutations(Task)

\* So are closures, by Equals: behaviors that exchange two closures are
\* alike, and it is enough to look at those in which one task always has the
\* closure that pending_task has for it before it is posted.
ReferenceKeepsClosure == pending_task'[Reference].task = pending_task[Reference].task

ReferenceNext == Next /\ ReferenceKeepsClosure

\* Only PostTask chooses a closure, and no fairness is asked of it.
ReferenceSpec == Init /\ [][ReferenceNext]_vars /\ Fairness

=============================================================================
