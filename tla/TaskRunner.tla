------------------------------ MODULE TaskRunner ------------------------------
(***************************************************************************)
(* What a client may rely on when it posts to a MessageLoop, with no word *)
(* of wakeups or nested runs: a posted task starts at most once and never  *)
(* before its time. The runner takes tasks over in the order they were     *)
(* posted, at its own pace, and starts only those it has taken over. Of    *)
(* these the nestable ones start in the order of their run times, and with *)
(* equal run times in the order they were posted. A task it has not taken  *)
(* over yet may be overtaken by one with a later run time.                 *)
(***************************************************************************)
EXTENDS Naturals, Sequences, Functions

CONSTANTS Task, Delays, Null

VARIABLES
  posted,    \* the tasks in the order they were posted
  due,       \* when each may start; Null: at once
  nestable,  \* which may start inside another task
  taken,     \* how many of the posted tasks the runner has taken over
  started,
  now

vars == <<posted, due, nestable, taken, started, now>>

Posted(t) == t \in Range(posted)

TakenOver == {posted[i] : i \in 1..taken}

Init ==
  /\ posted = <<>>
  /\ due = [t \in Task |-> Null]
  /\ nestable = [t \in Task |-> TRUE]
  /\ taken = 0
  /\ started = {}
  /\ now = 1

\* The run time is computed when the client calls Post, the order is fixed
\* when the call reaches the queue: the clock may have moved in between.
Post(t, delay) ==
  /\ ~Posted(t)
  /\ posted' = Append(posted, t)
  /\ \A u \in Task \ {t} : due'[u] = due[u] /\ nestable'[u] = nestable[u]
  /\ IF delay = 0 THEN due'[t] = Null
                  ELSE due'[t] > delay /\ due'[t] <= now + delay
  /\ UNCHANGED <<taken, started, now>>

TakeOver ==
  /\ taken < Len(posted)
  /\ taken' = taken + 1
  /\ UNCHANGED <<posted, due, nestable, started, now>>

\* u must start before t, once both are taken over.
Precedes(u, t) ==
  /\ nestable[u] /\ nestable[t]
  /\ \/ due[u] < due[t]
     \/ /\ due[u] = due[t]
        /\ \E i, j \in DOMAIN posted : i < j /\ posted[i] = u /\ posted[j] = t

\* A task may start as it is taken over.
Start(t) ==
  /\ taken' \in taken..(taken + 1) /\ taken' <= Len(posted)
  /\ t \in TakenOver'
  /\ t \notin started
  /\ due[t] <= now
  /\ \A u \in TakenOver' : Precedes(u, t) => u \in started
  /\ started' = started \union {t}
  /\ UNCHANGED <<posted, due, nestable, now>>

Tick ==
  /\ now' = now + 1
  /\ UNCHANGED <<posted, due, nestable, taken, started>>

Next ==
  \/ \E t \in Task, delay \in Delays : Post(t, delay)
  \/ TakeOver
  \/ \E t \in Task : Start(t)
  \/ Tick

Spec == Init /\ [][Next]_vars

=============================================================================
