----------------------------- MODULE LazyInstance -----------------------------
(***************************************************************************)
(* Globals created on first use by any thread and destroyed at exit:       *)
(* LazyInstance (src/base/lazy_instance.h, .cpp) and Singleton             *)
(* (src/base/memory/singleton.h) over the stack of the AtExitManager       *)
(* (src/base/at_exit.cpp). A constructor may use other globals. The object *)
(* is published before its destructor is registered.                       *)
(***************************************************************************)
EXTENDS Naturals, Sequences, Functions

CONSTANTS
  Thread,
  Instance,
  Kind,           \* of each instance: "lazy", "leaky" (either of the two),
                  \* "singleton", or "static" for StaticMemorySingletonTraits
  Needs,          \* of each instance: the instances its constructor uses
  MaxExits        \* bound: calls of ProcessCallbacksNow

ASSUME LazyAssumption ==
  /\ Kind \in [Instance -> {"lazy", "leaky", "singleton", "static"}]
  /\ Needs \in [Instance -> SUBSET Instance]
  /\ MaxExits \in Nat

VARIABLES
  state,          \* of each instance: "empty", "creating", "created"
  dead,           \* the static ones that were created once (dead_)
  stack,          \* of the manager: the destructors to call, the next one first
  exiting,        \* TRUE in ProcessCallbacksNow
  exits,
  calls,          \* of each thread: the calls of Pointer() or get() it is in,
                  \* innermost first
  raced           \* history: a constructor was given an instance that was not
                  \* registered yet, or none

vars == <<state, dead, stack, exiting, exits, calls, raced>>

Call == [inst : Instance, at : {"spinning", "constructing", "registering"},
         got : SUBSET Instance]

Init ==
  /\ state = [i \in Instance |-> "empty"]
  /\ dead = {}
  /\ stack = <<>>
  /\ exiting = FALSE
  /\ exits = 0
  /\ calls = [t \in Thread |-> <<>>]
  /\ raced = FALSE

At(t, where) == calls[t] # <<>> /\ Head(calls[t]).at = where

\* Thread t calls for i: in client code, or in the constructor of what needs i.
Wants(t, i) ==
  /\ ~exiting
  /\ calls[t] # <<>> =>
       /\ At(t, "constructing") /\ Head(calls[t]).inst \notin dead
       /\ i \in Needs[Head(calls[t]).inst] \ Head(calls[t]).got

\* What is left of the calls in rest when one of them receives i.
Receive(i, rest) ==
  IF rest = <<>> THEN rest
  ELSE <<[Head(rest) EXCEPT !.got = @ \union {i}]>> \o Tail(rest)

\* The innermost call of t returns.
Return(t) == calls' = [calls EXCEPT ![t] = Receive(Head(@).inst, Tail(@))]

-----------------------------------------------------------------------------

\* Not registered to be destroyed, though it will have to be.
Unregistered(i) == Kind[i] # "leaky" /\ i \notin Range(stack)

\* A constructor finds what it needs created.
GetCreated(t, i) ==
  /\ Wants(t, i) /\ calls[t] # <<>>
  /\ state[i] = "created"
  /\ calls' = [calls EXCEPT ![t] = Receive(i, @)]
  /\ raced' = (raced \/ Unregistered(i))
  /\ UNCHANGED <<state, dead, stack, exiting, exits>>

\* Mutant: the state is read and set, not compared and swapped.
NotCreated(i) == state[i] # "created"

\* The compare and swap from EMPTY to CREATING succeeds.
MayCreate(i) == state[i] = "empty"

NeedsInstance(t, i) ==
  /\ Wants(t, i)
  /\ state[i] # "created"
  /\ \E at \in {"constructing", "spinning"} :
       /\ at = "constructing" <=> MayCreate(i)
       /\ calls' = [calls EXCEPT ![t] = <<[inst |-> i, at |-> at, got |-> {}]>> \o @]
  /\ state' = [state EXCEPT ![i] = IF MayCreate(i) THEN "creating" ELSE @]
  /\ UNCHANGED <<dead, stack, exiting, exits, raced>>

\* Mutant: a singleton that could not be created is waited for.
WaitsForCreated(i) == state[i] = "created"

\* Mutant: who comes second does not wait.
NoWait(i) == TRUE

\* A LazyInstance is waited for until it is created, a Singleton until nobody
\* is creating it; it may be none.
WaitIsOver(i) ==
  IF Kind[i] \in {"lazy", "leaky"} THEN state[i] = "created" ELSE state[i] # "creating"

Spun(t) ==
  /\ At(t, "spinning")
  /\ LET i == Head(calls[t]).inst IN
       /\ WaitIsOver(i)
       /\ raced' = (raced \/ (Len(calls[t]) > 1 /\ Unregistered(i)))
  /\ Return(t)
  /\ UNCHANGED <<state, dead, stack, exiting, exits>>

\* The constructor has returned: the instance is published, for all threads to
\* see. A static one that was created before is not created again: New returns
\* none.
Publish(t) ==
  /\ At(t, "constructing")
  /\ LET i == Head(calls[t]).inst IN
       /\ i \in dead \/ Head(calls[t]).got = Needs[i]
       /\ state' = [state EXCEPT ![i] = IF i \in dead THEN "empty" ELSE "created"]
       /\ dead' = IF Kind[i] = "static" THEN dead \union {i} ELSE dead
       /\ IF i \in dead \/ Kind[i] = "leaky"
          THEN Return(t)
          ELSE calls' = [calls EXCEPT ![t][1].at = "registering"]
       /\ raced' = (raced \/ (Len(calls[t]) > 1 /\ i \in dead))
  /\ UNCHANGED <<stack, exiting, exits>>

\* Mutant: callbacks are called in the order they were registered in.
PushLast(i) == Append(stack, i)

Push(i) == <<i>> \o stack

RegisterCallback(t) ==
  /\ At(t, "registering")
  /\ stack' = Push(Head(calls[t]).inst)
  /\ Return(t)
  /\ UNCHANGED <<state, dead, exiting, exits, raced>>

\* ProcessCallbacksNow, when no thread is about to use a global.
ProcessCallbacksNow ==
  /\ ~exiting /\ exits < MaxExits
  /\ \A t \in Thread : calls[t] = <<>>
  /\ exiting' = TRUE
  /\ exits' = exits + 1
  /\ UNCHANGED <<state, dead, stack, calls, raced>>

OnExit ==
  /\ exiting /\ stack # <<>>
  /\ state' = [state EXCEPT ![Head(stack)] = "empty"]
  /\ stack' = Tail(stack)
  /\ dead' = dead \union {i \in {Head(stack)} : Kind[i] = "static"}
  /\ UNCHANGED <<exiting, exits, calls, raced>>

ExitReturns ==
  /\ exiting /\ stack = <<>>
  /\ exiting' = FALSE
  /\ UNCHANGED <<state, dead, stack, exits, calls, raced>>

\* StaticMemorySingletonTraits::Resurrect, when no thread is about to use a
\* global: i may be created again.
Resurrect(i) ==
  /\ ~exiting /\ i \in dead
  /\ \A t \in Thread : calls[t] = <<>>
  /\ dead' = dead \ {i}
  /\ UNCHANGED <<state, stack, exiting, exits, calls, raced>>

\* What thread t does once it is in Pointer() or get().
Step(t) ==
  \/ calls[t] # <<>> /\ \E i \in Instance : GetCreated(t, i) \/ NeedsInstance(t, i)
  \/ Spun(t) \/ Publish(t) \/ RegisterCallback(t)

Next ==
  \/ \E t \in Thread :
       \/ Step(t)
       \/ \E i \in Instance : NeedsInstance(t, i)
  \/ ProcessCallbacksNow \/ OnExit \/ ExitReturns
  \/ \E i \in Instance : Resurrect(i)

Spec == Init /\ [][Next]_vars

\* Threads are scheduled, and constructors ask for what they need.
FairSpec == Spec /\ \A t \in Thread : WF_vars(Step(t))

-----------------------------------------------------------------------------
(* Properties *)

TypeOK ==
  /\ state \in [Instance -> {"empty", "creating", "created"}]
  /\ dead \in SUBSET Instance
  /\ stack \in Seq(Instance)
  /\ exiting \in BOOLEAN
  /\ exits \in 0..MaxExits
  /\ calls \in [Thread -> Seq(Call)]
  /\ raced \in BOOLEAN

\* The calls in which i is at the given place.
CallsAt(i, where) ==
  UNION {{<<t, n>> : n \in {k \in DOMAIN calls[t] :
            calls[t][k].inst = i /\ calls[t][k].at = where}} : t \in Thread}

\* Where i is on the way to its destructor: the manager's stack, or a thread that
\* is about to put it there.
Registrations(i) ==
  {<<"stack", n>> : n \in {k \in DOMAIN stack : stack[k] = i}}
  \union {<<"call", c>> : c \in CallsAt(i, "registering")}

AtMostOne(S) == \A x, y \in S : x = y

\* However many threads ask first, one of them creates an instance, and every
\* instance that exists will be destroyed once: it is on the manager's stack,
\* or about to be put there by the thread that created it.
EachDestroyedOnce ==
  /\ TypeOK
  /\ \A i \in Instance :
       /\ state[i] = "creating" <=> CallsAt(i, "constructing") # {}
       /\ state[i] = "created" /\ Kind[i] # "leaky" <=> Registrations(i) # {}
       /\ AtMostOne(CallsAt(i, "constructing"))
       /\ AtMostOne(Registrations(i))

\* What a constructor was given is there as long as the constructor runs: it
\* exists, or it is a static one that was not created again.
GivenIsThere ==
  \A t \in Thread : \A n \in DOMAIN calls[t] : \A i \in calls[t][n].got :
    state[i] = "created" \/ i \in dead

\* Destructors may rely on what their constructors relied on: an instance is
\* destroyed after everything that was created with it, unless a constructor
\* was given an instance that was published and not yet registered, or none.
DependentsFirst ==
  [][OnExit => raced \/ \A i \in Instance :
       Head(stack) \in Needs[i] /\ Kind[i] # "leaky" => state[i] # "created"]_vars

\* A static instance that is gone is asked for again, and again is none.
AskedInVain == \E i \in dead : state[i] = "creating"

\* No call of Pointer() or get() waits forever, unless a static instance that is
\* gone is asked for without end: who polls it may never poll between two
\* attempts to create it.
GetReturns == \A t \in Thread : []<>(calls[t] = <<>> \/ AskedInVain)

=============================================================================
