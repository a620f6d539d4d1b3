------------------------------- MODULE CondVar -------------------------------
(***************************************************************************)
(* What condition_variable.h promises of Wait, TimedWait, Signal and      *)
(* Broadcast: a thread is asleep from the moment it commits to wait;       *)
(* Signal wakes the one that went to sleep last, Broadcast wakes them all; *)
(* a woken thread returns; a sleeping one may return on its own (a timeout *)
(* or a spurious signal).                                                  *)
(***************************************************************************)
EXTENDS Naturals, Sequences, Functions

CONSTANT Thread

VARIABLES
  asleep,  \* the sleeping threads, the last to go to sleep last
  woken    \* the threads some Signal or Broadcast chose, still in Wait

vars == <<asleep, woken>>

Asleep(t) == t \in Range(asleep)

Init == asleep = <<>> /\ woken = {}

Wait(t) ==
  /\ ~Asleep(t) /\ t \notin woken
  /\ asleep' = Append(asleep, t)
  /\ UNCHANGED woken

Signal ==
  /\ asleep # <<>>
  /\ woken' = woken \union {asleep[Len(asleep)]}
  /\ asleep' = SubSeq(asleep, 1, Len(asleep) - 1)

Broadcast ==
  /\ asleep # <<>>
  /\ woken' = woken \union Range(asleep)
  /\ asleep' = <<>>

Return(t) ==
  /\ t \in woken
  /\ woken' = woken \ {t}
  /\ UNCHANGED asleep

GiveUp(t) ==
  /\ \E i \in DOMAIN asleep :
       /\ asleep[i] = t
       /\ asleep' = SubSeq(asleep, 1, i - 1) \o SubSeq(asleep, i + 1, Len(asleep))
  /\ UNCHANGED woken

Next ==
  \/ \E t \in Thread : Wait(t) \/ Return(t) \/ GiveUp(t)
  \/ Signal
  \/ Broadcast

Spec == Init /\ [][Next]_vars /\ \A t \in Thread : WF_vars(Return(t))

=============================================================================
