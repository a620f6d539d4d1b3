---------------------------- MODULE ObjectWatcher ----------------------------
(***************************************************************************)
(* WaitableEventWatchers (src/base/synchronization/                        *)
(* waitable_event_watcher.cpp), each with an ObjectWatcher                 *)
(* (src/base/win/object_watcher.cpp), on the thread of one message loop.   *)
(* The system's wait thread calls DoneWaiting, which posts the Watch to    *)
(* the loop as a task; meanwhile the watcher stops or starts watching, is  *)
(* destroyed, or the loop is. Watches are heap addresses, used again once  *)
(* deleted.                                                                *)
(***************************************************************************)
EXTENDS Naturals, Sequences, SequencesExt

CONSTANTS
  Watcher, Watch, Event,
  AutoReset,      \* the events a wait resets
  None,
  MaxStarts,      \* bound: calls of StartWatching
  MaxSignals,     \* bound: calls of WaitableEvent::Signal
  MaxDepth        \* bound: delegates that are being called, nested

ASSUME ObjectWatcherAssumption ==
  /\ AutoReset \subseteq Event
  /\ None \notin Watcher \union Watch \union Event
  /\ MaxStarts \in Nat /\ MaxSignals \in Nat /\ MaxDepth \in Nat

VARIABLES
  alive,          \* the watchers that are not destroyed
  watch_, event_, \* of each watcher; delegate_ is set and reset with event_
  watcher, object, did_signal,  \* the members of each Watch
  allocated,      \* the Watches that are not deleted
  wait,           \* of each Watch, the system's wait: "none", "registered",
                  \* "called" (in DoneWaiting), "posting" (in its PostTask)
  queue,          \* the Watches posted to the loop
  observers,      \* the loop's destruction_observers_
  loop,           \* "alive", "discarding" and "notifying" in its destructor, "gone"
  stopping,       \* the watcher in StopWatching, what called it, and the Watch
                  \* that runs, if one called it
  called,         \* the Watches whose delegates are being called, innermost first
  leaked,         \* history: Watches the loop discarded
  signaled,       \* the events that are signaled
  starts, signals

loopVars == <<queue, loop, called, leaked>>
watchVars == <<watcher, object, did_signal, allocated>>
watcherVars == <<alive, watch_, event_, observers, stopping>>
eventVars == <<signaled, signals>>

vars == <<watcherVars, watchVars, wait, loopVars, eventVars, starts>>

Idle == [who |-> None, for |-> "nobody", run |-> None]

Init ==
  /\ alive = Watcher
  /\ watch_ = [w \in Watcher |-> None]
  /\ event_ = [w \in Watcher |-> None]
  /\ watcher = [x \in Watch |-> None]
  /\ object = [x \in Watch |-> None]
  /\ did_signal = [x \in Watch |-> FALSE]
  /\ allocated = {}
  /\ wait = [x \in Watch |-> "none"]
  /\ queue = <<>>
  /\ observers = {}
  /\ loop = "alive"
  /\ stopping = Idle
  /\ called = <<>>
  /\ leaked = {}
  /\ signaled = {}
  /\ starts = 0
  /\ signals = 0

\* The loop's thread is in client code.
InClientCode == loop = "alive" /\ stopping = Idle

-----------------------------------------------------------------------------
(* The loop's thread *)

\* Mutant: StartWatching does not add the watcher to the loop's observers.
NotObserved(w) == observers

Observed(w) == observers \union {w}

StartWatching(w, e) ==
  /\ InClientCode /\ w \in alive /\ watch_[w] = None /\ starts < MaxStarts
  /\ event_' = [event_ EXCEPT ![w] = e]
  /\ \E x \in Watch \ allocated :
       /\ allocated' = allocated \union {x}
       /\ watcher' = [watcher EXCEPT ![x] = w]
       /\ object' = [object EXCEPT ![x] = e]
       /\ did_signal' = [did_signal EXCEPT ![x] = FALSE]
       /\ wait' = [wait EXCEPT ![x] = "registered"]
       /\ watch_' = [watch_ EXCEPT ![w] = x]
  /\ observers' = Observed(w)
  /\ starts' = starts + 1
  /\ UNCHANGED <<alive, stopping, loopVars, eventVars>>

\* RegisterWaitForSingleObject fails: the WaitableEventWatcher has its event.
StartWatchingFails(w, e) ==
  /\ InClientCode /\ w \in alive /\ watch_[w] = None /\ starts < MaxStarts
  /\ event_' = [event_ EXCEPT ![w] = e]
  /\ starts' = starts + 1
  /\ UNCHANGED <<alive, watch_, observers, stopping, watchVars, wait, loopVars, eventVars>>

\* ObjectWatcher::StopWatching is entered: the wait of the Watch, if there is
\* one, is unregistered, unless DoneWaiting is being called.
EnterStop(w, for, run) ==
  /\ stopping' = [who |-> w, for |-> for, run |-> run]
  /\ wait' = [x \in Watch |->
               IF x = watch_[w] /\ wait[x] = "registered" THEN "none" ELSE wait[x]]

\* The client calls WaitableEventWatcher::StopWatching, which changes nothing
\* if w has neither event nor Watch, or destroys w.
StopWatching(w) ==
  /\ InClientCode /\ w \in alive
  /\ \/ /\ event_[w] # None \/ watch_[w] # None
        /\ EnterStop(w, "client", None)
        /\ event_' = [event_ EXCEPT ![w] = None]
     \/ /\ EnterStop(w, "destructor", None)
        /\ UNCHANGED event_
  /\ UNCHANGED <<alive, watch_, observers, watchVars, loopVars, eventVars, starts>>

\* Mutant: UnregisterWaitEx(wait_object, NULL), which does not wait.
DoesNotWait(x) == TRUE

\* Mutant: StopWatching waits until the Watch that was posted has run.
WaitsForTask(x) == x # None => wait[x] = "none" /\ x \notin ToSet(queue)

\* UnregisterWaitEx returns once DoneWaiting has returned.
Unregistered(x) == x # None => wait[x] = "none"

\* Mutant: a Watch that was posted is not told that its watcher stopped.
NotTold(x) == watcher[x]

\* The watcher of a Watch after StopWatching.
Told(x) == None

\* The Watches StopWatching deletes: one that was posted is the loop's.
DeletedByStop(x) == {y \in {x} \ {None} : ~did_signal[y]}

\* The rest of StopWatching, and the return to what called it: Watch::Run calls
\* the delegate with the event of the WaitableEventWatcher, which is reset.
StopReturns ==
  /\ stopping # Idle
  /\ LET w == stopping.who
         x == watch_[w] IN
       /\ Unregistered(x)
       /\ watcher' = [y \in Watch |-> IF y = x THEN Told(y) ELSE watcher[y]]
       /\ allocated' = allocated \ DeletedByStop(x)
       /\ watch_' = [watch_ EXCEPT ![w] = None]
       /\ observers' = observers \ {w}
       /\ alive' = IF stopping.for = "destructor" THEN alive \ {w} ELSE alive
       /\ event_' = IF stopping.for = "run" THEN [event_ EXCEPT ![w] = None] ELSE event_
       /\ called' = IF stopping.for = "run" THEN <<stopping.run>> \o called ELSE called
  /\ stopping' = Idle
  /\ UNCHANGED <<object, did_signal, wait, queue, loop, leaked, eventVars, starts>>

\* The loop runs the next Watch, in a nested run if delegates are being called.
\* Its watcher stops; if it has none, the task has run, and is deleted.
WatchRun ==
  /\ InClientCode /\ queue # <<>> /\ Len(called) < MaxDepth
  /\ queue' = Tail(queue)
  /\ LET x == Head(queue) IN
       \/ /\ watcher[x] = None
          /\ allocated' = allocated \ {x}
          /\ UNCHANGED <<stopping, wait>>
       \/ /\ watcher[x] # None
          /\ EnterStop(watcher[x], "run", x)
          /\ UNCHANGED allocated
  /\ UNCHANGED <<alive, watch_, event_, observers, watcher, object, did_signal>>
  /\ UNCHANGED <<loop, called, leaked, eventVars, starts>>

\* OnWaitableEventSignaled returns, and the task is deleted.
DelegateReturns ==
  /\ InClientCode /\ called # <<>>
  /\ allocated' = allocated \ {Head(called)}
  /\ called' = Tail(called)
  /\ UNCHANGED <<watcher, object, did_signal>>
  /\ UNCHANGED <<watcherVars, wait, queue, loop, leaked, eventVars, starts>>

\* The loop is destroyed. Tasks of a loop are not deleted with their closures
\* (should_leak_tasks_).
DestroyLoop ==
  /\ InClientCode /\ called = <<>>
  /\ loop' = "discarding"
  /\ UNCHANGED <<watcherVars, watchVars, wait, queue, called, leaked, eventVars, starts>>

DeletePendingTasks ==
  /\ loop = "discarding"
  /\ loop' = "notifying"
  /\ queue' = <<>>
  /\ leaked' = leaked \union ToSet(queue)
  /\ UNCHANGED <<watcherVars, watchVars, wait, called, eventVars, starts>>

\* The next observer is told: ObjectWatcher::WillDestroyCurrentMessageLoop.
WillDestroyCurrentMessageLoop ==
  /\ loop = "notifying" /\ stopping = Idle
  /\ \E w \in observers : EnterStop(w, "loop", None)
  /\ UNCHANGED <<alive, watch_, event_, observers, watchVars, loopVars, eventVars, starts>>

DestroyMembers ==
  /\ loop = "notifying" /\ stopping = Idle /\ observers = {}
  /\ loop' = "gone"
  /\ queue' = <<>>
  /\ leaked' = leaked \union ToSet(queue)
  /\ UNCHANGED <<watcherVars, watchVars, wait, called, eventVars, starts>>

-----------------------------------------------------------------------------
(* The system's wait thread, and the threads that signal *)

\* The wait on x is satisfied, once, and DoneWaiting is called.
Satisfied(x) ==
  /\ wait[x] = "registered" /\ object[x] \in signaled
  /\ wait' = [wait EXCEPT ![x] = "called"]
  /\ signaled' = signaled \ (AutoReset \intersect {object[x]})
  /\ UNCHANGED <<watcherVars, watchVars, loopVars, starts, signals>>

DoneWaiting(x) ==
  /\ wait[x] = "called"
  /\ wait' = [wait EXCEPT ![x] = "posting"]
  /\ did_signal' = [did_signal EXCEPT ![x] = TRUE]
  /\ UNCHANGED <<watcher, object, allocated, watcherVars, loopVars, eventVars, starts>>

PostTask(x) ==
  /\ wait[x] = "posting"
  /\ wait' = [wait EXCEPT ![x] = "none"]
  /\ queue' = Append(queue, x)
  /\ UNCHANGED <<watcherVars, watchVars, loop, called, leaked, eventVars, starts>>

Signal(e) ==
  /\ signals < MaxSignals
  /\ signaled' = signaled \union {e}
  /\ signals' = signals + 1
  /\ UNCHANGED <<watcherVars, watchVars, wait, loopVars, starts>>

Reset(e) ==
  /\ e \in signaled
  /\ signaled' = signaled \ {e}
  /\ UNCHANGED <<watcherVars, watchVars, wait, loopVars, starts, signals>>

WaitThread == \E x \in Watch : Satisfied(x) \/ DoneWaiting(x) \/ PostTask(x)

LoopThread ==
  \/ StopReturns \/ WatchRun \/ DelegateReturns
  \/ DeletePendingTasks \/ WillDestroyCurrentMessageLoop \/ DestroyMembers

Next ==
  \/ \E w \in Watcher :
       \/ \E e \in Event : StartWatching(w, e) \/ StartWatchingFails(w, e)
       \/ StopWatching(w)
  \/ DestroyLoop
  \/ LoopThread \/ WaitThread
  \/ \E e \in Event : Signal(e) \/ Reset(e)

Spec == Init /\ [][Next]_vars

\* The wait thread and the loop's thread are scheduled, and delegates return.
FairSpec ==
  /\ Spec
  /\ WF_vars(LoopThread)
  /\ \A x \in Watch : WF_vars(Satisfied(x) \/ DoneWaiting(x) \/ PostTask(x))

-----------------------------------------------------------------------------
(* Properties *)

TypeOK ==
  /\ alive \subseteq Watcher /\ observers \subseteq Watcher
  /\ watch_ \in [Watcher -> Watch \union {None}]
  /\ event_ \in [Watcher -> Event \union {None}]
  /\ watcher \in [Watch -> Watcher \union {None}]
  /\ object \in [Watch -> Event \union {None}]
  /\ did_signal \in [Watch -> BOOLEAN]
  /\ allocated \subseteq Watch /\ leaked \subseteq Watch
  /\ wait \in [Watch -> {"none", "registered", "called", "posting"}]
  /\ queue \in Seq(Watch) /\ called \in Seq(Watch)
  /\ loop \in {"alive", "discarding", "notifying", "gone"}
  /\ stopping \in [who : Watcher, for : {"client", "destructor", "run", "loop"},
                   run : Watch \union {None}] \union {Idle}
  /\ signaled \subseteq Event
  /\ starts \in 0..MaxStarts /\ signals \in 0..MaxSignals

\* Who is to delete the Watch x: the watcher until DoneWaiting has run, then the
\* call that posts it, the queue, and the loop that runs it; nobody, once the
\* loop has discarded it.
Owners(x) ==
  {<<"watcher", w>> : w \in {v \in Watcher : watch_[v] = x /\ ~did_signal[x]}}
  \union {<<"posting", y>> : y \in {z \in {x} : wait[z] = "posting"}}
  \union {<<"queue", n>> : n \in {k \in DOMAIN queue : queue[k] = x}}
  \union {<<"called", n>> : n \in {k \in DOMAIN called : called[k] = x}}
  \union {<<"stopping", y>> : y \in {z \in {x} : stopping.run = z}}
  \union {<<"leaked", y>> : y \in leaked \intersect {x}}

\* A Watch is deleted once, by one of the two threads' last users of it: it has
\* one owner as long as it is allocated; the wait thread and a watcher only
\* hold allocated ones, and a loop discards them only when it is destroyed.
WatchesAccounted ==
  /\ TypeOK
  /\ \A x \in Watch : x \in allocated <=> Owners(x) # {}
  /\ \A x \in Watch : \A o, p \in Owners(x) : o = p
  /\ \A x \in Watch : wait[x] # "none" => x \in allocated /\ watcher[x] # None
  /\ \A x \in allocated : watcher[x] # None => watch_[watcher[x]] = x
  /\ \A w \in Watcher : watch_[w] # None => watch_[w] \in allocated /\ w \in alive
  /\ loop = "alive" => leaked = {}

\* A delegate is called only by the Watch its watcher has, for the event it
\* watches, which was signaled: never after StopWatching or for an earlier watch.
NotifiesWatched ==
  [][Len(called') > Len(called) =>
       LET w == stopping.who
           x == stopping.run IN
         /\ w \in alive /\ watch_[w] = x
         /\ did_signal[x] /\ event_[w] = object[x]]_vars

\* The wait thread does not post to a loop that is gone: when the loop's
\* destructor returns, no wait is registered or in DoneWaiting.
NoPostToDeadLoop ==
  loop = "gone" =>
    /\ \A x \in Watch : wait[x] = "none"
    /\ \A w \in Watcher : watch_[w] = None

\* A watch whose wait was satisfied ends, by the call of its delegate or by
\* StopWatching, which never waits forever for DoneWaiting.
SignalAnswered ==
  \A w \in Watcher :
    watch_[w] # None /\ wait[watch_[w]] # "registered" ~> watch_[w] = None

=============================================================================
