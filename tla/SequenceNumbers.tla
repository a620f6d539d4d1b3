--------------------------- MODULE SequenceNumbers ---------------------------
(***************************************************************************)
(* The sequence numbers of delayed tasks (src/base/message_loop.cpp) as    *)
(* the ints they are: they wrap, and so does the difference by which       *)
(* PendingTask::operator< compares two of them. MessageLoop has unbounded  *)
(* numbers instead; MessageLoopProofs proves when that is the same. An int *)
(* is one of Ints(half), half being 2^31. C++ leaves the overflow          *)
(* undefined: a build may wrap, or compare the two numbers instead of      *)
(* subtracting them.                                                       *)
(***************************************************************************)
EXTENDS Integers

Ints(half) == -half .. half - 1

\* The int for a sum or a difference of two ints.
Wrap(x, half) ==
  IF x >= half THEN x - 2 * half
  ELSE IF x < -half THEN x + 2 * half
  ELSE x

\* next_sequence_num_++
Increment(next, half) == Wrap(next + 1, half)

\* The number of the task that was queued age calls of AddToDelayedWorkQueue
\* ago, if next is next_sequence_num_ now.
NumberOf(next, age, half) == Wrap(next - age, half)

\* operator< of two tasks with one delayed_run_time: the first runs after the
\* second.
RunsAfter(number, other, half) == Wrap(number - other, half) > 0

\* operator< in a build that takes the difference not to overflow.
RunsAfterCompared(number, other) == number > other

=============================================================================
