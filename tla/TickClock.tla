------------------------------ MODULE TickClock ------------------------------
(***************************************************************************)
(* RolloverProtectedNow (src/base/base_time.cpp), the clock behind         *)
(* TimeTicks::Now: it extends timeGetTime, which wraps after 2^32 ms, by   *)
(* counting the wraps it sees. Any thread may call it; the lock makes a    *)
(* call one step.                                                          *)
(***************************************************************************)
EXTENDS Integers

CONSTANT Period          \* 2^32: timeGetTime is in 0 .. Period - 1

VARIABLES
  timer,          \* what timeGetTime answers now
  rollover_ms,
  last_seen_now,
  passed          \* history: the time since the last call

vars == <<timer, rollover_ms, last_seen_now, passed>>

\* The machine may have been up for any time; the first call sees that much.
Init ==
  /\ timer \in 0 .. Period - 1
  /\ rollover_ms = 0
  /\ last_seen_now = 0
  /\ passed = timer

\* A millisecond passes. Somebody calls RolloverProtectedNow within each period.
Millisecond ==
  /\ passed + 1 < Period
  /\ timer' = IF timer + 1 = Period THEN 0 ELSE timer + 1
  /\ passed' = passed + 1
  /\ UNCHANGED <<rollover_ms, last_seen_now>>

RolloverProtectedNow ==
  /\ rollover_ms' = IF timer < last_seen_now THEN rollover_ms + Period ELSE rollover_ms
  /\ last_seen_now' = timer
  /\ passed' = 0
  /\ UNCHANGED timer

\* What the last call returned.
Now == last_seen_now + rollover_ms

Next == Millisecond \/ RolloverProtectedNow

Spec == Init /\ [][Next]_vars

-----------------------------------------------------------------------------

TypeOK ==
  /\ timer \in 0 .. Period - 1
  /\ rollover_ms \in Nat
  /\ last_seen_now \in 0 .. Period - 1
  /\ passed \in 0 .. Period - 1

\* The timer has wrapped since the last call, or it has not.
WrappedOnce ==
  \/ timer = last_seen_now + passed
  \/ timer = last_seen_now + passed - Period

\* A call returns what the call before it returned and the time that passed in
\* between, across any number of wraps: the clock neither stops nor jumps.
NowIsExact == [][RolloverProtectedNow => Now' = Now + passed]_vars

=============================================================================
