-------------------------- MODULE ConditionVariable --------------------------
(***************************************************************************)
(* base::ConditionVariable, simulated on Windows with one auto-reset event *)
(* per waiting thread (src/base/synchronization/condition_variable.cpp).   *)
(*                                                                         *)
(* Every critical section of internal_lock_ is one step; the release of    *)
(* the user's lock, the wait for the event, SetEvent and the reacquisition *)
(* of the user's lock lie outside and are steps of their own. A Wait is a  *)
(* TimedWait that does not time out.                                       *)
(***************************************************************************)
EXTENDS Naturals, Sequences, FiniteSets, Functions

CONSTANTS
  Thread,
  NoThread

ASSUME ConditionVariableAssumption ==
  /\ IsFiniteSet(Thread)
  /\ NoThread \notin Thread

VARIABLES
  waiting_list,        \* events not selected by a Signal or Broadcast yet
  recycling_list,      \* its length is recycling_list_size_
  allocation_counter,  \* the events 1..allocation_counter exist
  signaled,            \* the events in signaled state
  waiting_event,       \* the event a thread in TimedWait holds, or NoEvent
  handles,             \* the handles a Signal or Broadcast has yet to set
  user_lock,           \* the owner of the user's lock
  pc,                  \* where each thread is
  raced                \* history: a time-out and a signal met

vars == <<waiting_list, recycling_list, allocation_counter, signaled,
          waiting_event, handles, user_lock, pc, raced>>

Event == Nat \ {0}
NoEvent == 0

\* "out", "in": without and with the user's lock; then TimedWait's stations:
\* "entered" the wait state with the lock held, "blocked" on the event,
\* "awake" or, after a time-out, "expired" with the event not recycled yet,
\* "locking" the user's lock.
Station == {"out", "in", "entered", "blocked", "awake", "expired", "locking"}

\* Event::Extract: harmless on an event that is in no list.
Extract(l, e) ==
  IF e \in Range(l)
  THEN LET at == CHOOSE i \in DOMAIN l : l[i] = e
       IN  [i \in 1..(Len(l) - 1) |-> IF i < at THEN l[i] ELSE l[i + 1]]
  ELSE l

PopBack(l) == [i \in 1..(Len(l) - 1) |-> l[i]]

Init ==
  /\ waiting_list = <<>>
  /\ recycling_list = <<>>
  /\ allocation_counter = 0
  /\ signaled = {}
  /\ waiting_event = [th \in Thread |-> NoEvent]
  /\ handles = [th \in Thread |-> <<>>]
  /\ user_lock = NoThread
  /\ pc = [th \in Thread |-> "out"]
  /\ raced = FALSE

-----------------------------------------------------------------------------

Acquire(th) ==
  /\ pc[th] = "out" /\ handles[th] = <<>>
  /\ user_lock = NoThread
  /\ user_lock' = th
  /\ pc' = [pc EXCEPT ![th] = "in"]
  /\ UNCHANGED <<waiting_list, recycling_list, allocation_counter, signaled,
                 waiting_event, handles>>

Release(th) ==
  /\ pc[th] = "in" /\ handles[th] = <<>>
  /\ user_lock' = NoThread
  /\ pc' = [pc EXCEPT ![th] = "out"]
  /\ UNCHANGED <<waiting_list, recycling_list, allocation_counter, signaled,
                 waiting_event, handles>>

\* Mutant: the front event is used without being taken off the recycling list.
GetEventKept(th) ==
  /\ pc[th] = "in" /\ handles[th] = <<>>
  /\ LET e == IF recycling_list = <<>> THEN allocation_counter + 1
                                       ELSE Head(recycling_list)
     IN  /\ waiting_list' = Append(waiting_list, e)
         /\ waiting_event' = [waiting_event EXCEPT ![th] = e]
  /\ allocation_counter' =
       IF recycling_list = <<>> THEN allocation_counter + 1 ELSE allocation_counter
  /\ pc' = [pc EXCEPT ![th] = "entered"]
  /\ UNCHANGED <<recycling_list, signaled, handles, user_lock>>

EventForWaiting ==
  IF recycling_list = <<>> THEN allocation_counter + 1 ELSE Head(recycling_list)

\* TimedWait's first critical section: from here on the thread can be
\* signaled, and it still holds the user's lock.
GetEventForWaiting(th) ==
  /\ pc[th] = "in" /\ handles[th] = <<>>
  /\ \/ /\ recycling_list = <<>>
        /\ allocation_counter' = allocation_counter + 1
        /\ UNCHANGED recycling_list
     \/ /\ recycling_list # <<>>
        /\ recycling_list' = Tail(recycling_list)
        /\ UNCHANGED allocation_counter
  /\ waiting_list' = Append(waiting_list, EventForWaiting)
  /\ waiting_event' = [waiting_event EXCEPT ![th] = EventForWaiting]
  /\ pc' = [pc EXCEPT ![th] = "entered"]
  /\ UNCHANGED <<signaled, handles, user_lock>>

\* AutoUnlock(user_lock_)
ReleaseUserLock(th) ==
  /\ pc[th] = "entered"
  /\ user_lock' = NoThread
  /\ pc' = [pc EXCEPT ![th] = "blocked"]
  /\ UNCHANGED <<waiting_list, recycling_list, allocation_counter, signaled,
                 waiting_event, handles>>

\* WaitForSingleObject finds the event signaled and resets it.
WakeUp(th) ==
  /\ pc[th] = "blocked"
  /\ waiting_event[th] \in signaled
  /\ signaled' = signaled \ {waiting_event[th]}
  /\ pc' = [pc EXCEPT ![th] = "awake"]
  /\ UNCHANGED <<waiting_list, recycling_list, allocation_counter,
                 waiting_event, handles, user_lock>>

TimeOut(th) ==
  /\ pc[th] = "blocked"
  /\ waiting_event[th] \notin signaled
  /\ pc' = [pc EXCEPT ![th] = "expired"]
  /\ UNCHANGED <<waiting_list, recycling_list, allocation_counter, signaled,
                 waiting_event, handles, user_lock>>

\* Mutant: the event is not extracted from the waiting list after a timeout.
RecycledUnextracted(th) ==
  /\ pc[th] \in {"awake", "expired"}
  /\ recycling_list' = Append(recycling_list, waiting_event[th])
  /\ waiting_event' = [waiting_event EXCEPT ![th] = NoEvent]
  /\ pc' = [pc EXCEPT ![th] = "locking"]
  /\ UNCHANGED <<waiting_list, allocation_counter, signaled, handles, user_lock>>

\* TimedWait's second critical section. The event may still be in the waiting
\* list (a timeout), and may be signaled (again) by a late SetEvent.
RecycleEvent(th) ==
  /\ pc[th] \in {"awake", "expired"}
  /\ waiting_list' = Extract(waiting_list, waiting_event[th])
  /\ recycling_list' = Append(recycling_list, waiting_event[th])
  /\ waiting_event' = [waiting_event EXCEPT ![th] = NoEvent]
  /\ pc' = [pc EXCEPT ![th] = "locking"]
  /\ UNCHANGED <<allocation_counter, signaled, handles, user_lock>>

\* ~AutoUnlock(user_lock_)
ReacquireUserLock(th) ==
  /\ pc[th] = "locking"
  /\ user_lock = NoThread
  /\ user_lock' = th
  /\ pc' = [pc EXCEPT ![th] = "in"]
  /\ UNCHANGED <<waiting_list, recycling_list, allocation_counter, signaled,
                 waiting_event, handles>>

\* Signal and Broadcast may be called with or without the user's lock. They
\* take their events from the list in one critical section and set them later.
MaySignal(th) ==
  /\ pc[th] \in {"out", "in"} /\ handles[th] = <<>>
  /\ waiting_list # <<>>

\* Mutant: the event is set but stays in the waiting list.
SignalUnpopped(th) ==
  /\ MaySignal(th)
  /\ handles' = [handles EXCEPT ![th] = <<waiting_list[Len(waiting_list)]>>]
  /\ UNCHANGED <<waiting_list, recycling_list, allocation_counter, signaled,
                 waiting_event, user_lock, pc>>

\* Mutant: the oldest waiting thread is signaled.
SignalOldest(th) ==
  /\ MaySignal(th)
  /\ handles' = [handles EXCEPT ![th] = <<Head(waiting_list)>>]
  /\ waiting_list' = Tail(waiting_list)
  /\ UNCHANGED <<recycling_list, allocation_counter, signaled, waiting_event,
                 user_lock, pc>>

Signal(th) ==
  /\ MaySignal(th)
  /\ handles' = [handles EXCEPT ![th] = <<waiting_list[Len(waiting_list)]>>]
  /\ waiting_list' = PopBack(waiting_list)
  /\ UNCHANGED <<recycling_list, allocation_counter, signaled, waiting_event,
                 user_lock, pc>>

\* Mutant: only one of the handles is kept.
BroadcastToOne(th) ==
  /\ MaySignal(th)
  /\ handles' = [handles EXCEPT ![th] = <<Head(waiting_list)>>]
  /\ waiting_list' = <<>>
  /\ UNCHANGED <<recycling_list, allocation_counter, signaled, waiting_event,
                 user_lock, pc>>

\* The stack of handles, filled from the back of the list, has the longest
\* waiting thread on top.
Broadcast(th) ==
  /\ MaySignal(th)
  /\ handles' = [handles EXCEPT ![th] = waiting_list]
  /\ waiting_list' = <<>>
  /\ UNCHANGED <<recycling_list, allocation_counter, signaled, waiting_event,
                 user_lock, pc>>

SetEvent(th) ==
  /\ handles[th] # <<>>
  /\ signaled' = signaled \union {Head(handles[th])}
  /\ handles' = [handles EXCEPT ![th] = Tail(@)]
  /\ UNCHANGED <<waiting_list, recycling_list, allocation_counter,
                 waiting_event, user_lock, pc>>

-----------------------------------------------------------------------------

\* The steps a thread inside TimedWait, Signal or Broadcast takes on its own.
Step(th) ==
  \/ ReleaseUserLock(th)
  \/ WakeUp(th)
  \/ RecycleEvent(th)
  \/ SetEvent(th)

\* The race of FAQ 3: a thread's wait timed out, but a Signal or Broadcast,
\* earlier or later, selected it.
Race ==
  \E th \in Thread : pc[th] = "expired" /\ waiting_event[th] \notin Range(waiting_list)

Recorded == raced' = (raced \/ Race')

Next ==
  /\ \E th \in Thread :
       \/ Acquire(th)
       \/ Release(th)
       \/ GetEventForWaiting(th)
       \/ TimeOut(th)
       \/ ReacquireUserLock(th)
       \/ Signal(th)
       \/ Broadcast(th)
       \/ Step(th)
  /\ Recorded

Spec == Init /\ [][Next]_vars

\* The scheduler runs every thread that is not blocked. Whether a thread calls
\* Wait or Signal, and when it gives the lock back, is up to the client.
FairSpec == Spec /\ \A th \in Thread : WF_vars(Step(th) /\ Recorded)

-----------------------------------------------------------------------------

TypeOK ==
  /\ waiting_list \in Seq(Event)
  /\ recycling_list \in Seq(Event)
  /\ allocation_counter \in Nat
  /\ signaled \in SUBSET Event
  /\ waiting_event \in [Thread -> Nat]
  /\ handles \in [Thread -> Seq(Event)]
  /\ user_lock \in Thread \union {NoThread}
  /\ pc \in [Thread -> Station]
  /\ raced \in BOOLEAN

Waiting(th) == pc[th] \in {"entered", "blocked", "awake", "expired"}

InHandles(e) == \E th \in Thread : e \in Range(handles[th])

\* FAQ 12: an event taken from the waiting list is not leaked. Every event is
\* held by exactly one thread in TimedWait or is in the recycling list, once;
\* the waiting list holds only events of waiting threads, each once.
EventsAccounted ==
  /\ \A th \in Thread :
       IF Waiting(th) THEN waiting_event[th] \in 1..allocation_counter
                      ELSE waiting_event[th] = NoEvent
  /\ \A th, other \in Thread :
       waiting_event[th] = waiting_event[other] /\ Waiting(th) => th = other
  /\ \A e \in 1..allocation_counter :
       e \in Range(recycling_list) <=> \A th \in Thread : waiting_event[th] # e
  /\ Range(recycling_list) \subseteq 1..allocation_counter
  /\ IsInjective(recycling_list)
  /\ IsInjective(waiting_list)
  /\ \A e \in Range(waiting_list) : \E th \in Thread : waiting_event[th] = e

\* "It will not lose any signals": a thread that a Signal or Broadcast took off
\* the waiting list and that has not come out of its wait has its event
\* signaled or in the hands of a thread that is going to signal it. Late
\* SetEvents of earlier waits on the same event do not take that away.
NoLostSignal ==
  \A th \in Thread :
    pc[th] \in {"entered", "blocked"} /\ waiting_event[th] \notin Range(waiting_list)
      => waiting_event[th] \in signaled \/ InHandles(waiting_event[th])

\* FAQ 4: spurious signals "can only (I think) appear when the race described
\* in FAQ-question-3 takes place". Until a time-out and a signal have met, no
\* thread leaves its wait unless a Signal or Broadcast selected that thread.
NoSpuriousSignal ==
  [][\A th \in Thread :
       WakeUp(th) => raced \/ waiting_event[th] \notin Range(waiting_list)]_vars

\* No more events than threads: one is allocated only when every event that
\* exists belongs to another waiting thread.
EventsBounded == allocation_counter <= Cardinality(Thread)

-----------------------------------------------------------------------------
(* Refinement *)

Owner(e) == CHOOSE th \in Thread : waiting_event[th] = e

\* A thread is asleep while its event is in the waiting list.
Abstract == INSTANCE CondVar WITH
  asleep <- [i \in DOMAIN waiting_list |-> Owner(waiting_list[i])],
  woken <- {th \in Thread :
              Waiting(th) /\ waiting_event[th] \notin Range(waiting_list)}

\* Signal wakes the thread that went to sleep last, Broadcast wakes every
\* thread that was asleep, and each of them returns, whatever timeouts and
\* late SetEvents do.
ImplementsCondVar == Abstract!Spec

=============================================================================
