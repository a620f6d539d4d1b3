# Verification of KPad's base library

KPad is a text editor for Windows. Most of its own live code is a port of the
`base` library of Chromium (2011) under `src/base`, with the beginnings of ports
of its `ui` toolkit (`src/uibase`, `src/uigfx`, `src/uiview`) and of a browser
window (`src/win/chrome`, disabled with `#if 0`). The running program
(`src/win/App.cpp`, `src/win/Chromium.cpp`) creates an `AtExitManager`, asks the
`PathService` for paths, creates a `MessageLoop` and opens a WTL window.

The logic that is hard to get right, and hard to test, is in the concurrent part
of `src/base`: message loops, condition variables, threads, proxies, observer
lists, watchers, lazily created globals. This project models that part in TLA+,
checks it with TLC on small instances and proves the main invariants with TLAPS.

## Inventory

| Part (`src/base/...`) | State | Operations | Interacts with | What makes it correct |
|---|---|---|---|---|
| `message_loop.cpp`, `message_pump_default.cpp` | incoming queue (locked), work, delayed and deferred queues, `nestable_tasks_allowed_`, the stack of `RunState`s, the pump's `keep_running_`, `delayed_work_time_` and event | `Post*Task` (any thread), `Run`, `RunAllPending`, `Quit`, `QuitNow`, `SetNestableTasksAllowed`, the handlers `DoWork`, `DoDelayedWork`, `DoIdleWork` | tasks call back into the loop; posters share the incoming queue and the pump's event | no task lost, duplicated, early or out of order; no lost wakeup; the timer is armed; a quit is not lost and leaves no work behind |
| `synchronization/condition_variable.cpp` | waiting and recycling lists of events, their signaled states, the user's lock | `Wait`, `TimedWait`, `Signal`, `Broadcast` | any number of threads | no lost signal, no leaked or shared event, last sleeper first |
| `path_service.cpp`, `base_paths.cpp` | cache, overrides, list of providers | `Get` (re-entered by providers), `Override`, `RegisterProvider` | any thread | the cache agrees with the overrides |
| `threading/thread.cpp`, `message_loop_proxy_impl.cpp`, `~MessageLoop` | `started_`, `stopping_`, `message_loop_`, the proxy's `target_message_loop_` | `Start`, `StopSoon`, `Stop`, `ThreadMain`, posts through proxies | owner, worker and posting threads | nobody touches a destroyed loop; `Stop` returns; accepted tasks are run or discarded once |
| `observer_list.h` | the vector of observers with holes, `notify_depth_`, live iterators | `AddObserver`, `RemoveObserver`, `Clear`, iteration | observers call back into the list that notifies them | each observer once per pass, none after its removal, no holes left |
| `observer_list_threadsafe.h` | a list per message loop, keyed by thread | `AddObserver`, `RemoveObserver`, `Notify` | `ObserverList`, proxies | no notification after removal on the same thread |
| `at_exit.cpp`, `lazy_instance.cpp`, `memory/singleton.h` | the stack of callbacks; `STATE_EMPTY/CREATING/CREATED` | register, run in reverse, create on first use | any thread; callbacks register callbacks | one instance, destroyed once, after its users |
| `win/object_watcher.cpp`, `synchronization/waitable_event_watcher.cpp` | the watch, its thread pool wait, a posted task | `StartWatching`, `StopWatching`, `DoneWaiting`, the loop's destruction | the system's thread pool, the message loop | the delegate is called at most once and never after `StopWatching` |
| `message_pump_win.cpp` | `have_work_`, the kMsgHaveWork message | `ScheduleWork`, `DoRunLoop`, native modal loops | Windows' message queue | neither side starves; no wakeup lost |
| `threading/thread_local_storage.cpp` | slots, destructors, the lazily allocated index | `Initialize`, `Free`, `Get`, `Set`, `ThreadExit` | threads that exit | destructors run, in bounds |
| `base_time.cpp` | `last_seen_now`, `rollover_ms` | `RolloverProtectedNow` | any thread | time does not go back |
| `system_monitor/system_monitor.cpp` | `suspended_`, battery state | power notifications | `ObserverListThreadSafe` | suspend and resume alternate |
| strings, values, pickles, files, registry, processes, histograms | buffers, handles, buckets | conversions, system calls | | pure data; not concurrent |

Disabled or empty sources (`#if 0`, empty files), vendored code (`src/skia`,
`src/third_party`, `src/win/wtl`), rendering and window procedures are left aside.

## Plan

The order was by how much of the program rests on a part. Each module keeps its
parameters as `CONSTANTS` with named assumptions, has one action per operation
or critical section and no `RECURSIVE` operator, so that it can be proved about
as well as checked.

Modelled: `TaskRunner`, `MessageLoop`, `CondVar`, `ConditionVariable`, `PathService`,
`ThreadLifecycle`, `ObserverList`, `PostTaskAndReply`, `ObserverListThreadSafe`,
`LazyInstance`, `ObjectWatcher`, `UIPump`, and two small ones in arithmetic, `SequenceNumbers`
and `TickClock`. What is left out, and why, is under "Not modelled".

Proved: every safety property that a run checks, and for most liveness properties that
somebody can always go on, see "Proofs". What is left is liveness itself, which stays
with TLC, and the parts under "Not modelled".

## Modules

Two abstract specifications say what clients are promised:

- `TaskRunner`: a posted task starts at most once and never early. The runner takes
  tasks over in the order of the posts (`DoWork`, from the incoming queue), and of
  the nestable ones it has taken over the one with the earliest run time starts
  next, with equal run times the one posted first. A task it has not taken over yet
  may be overtaken by one that is due later.
  (Non-nestable tasks may be overtaken: they are put off in nested runs, and the
  deferred queue is looked at only when the loop is idle.)
- `CondVar`: threads asleep and threads woken; `Signal` wakes the last sleeper,
  `Broadcast` all of them, the woken return; a sleeper may also give up.

**`MessageLoop`** (`message_loop.cpp`, `message_pump_default.cpp`). The variables are
the members of the loop and of the pump; `state` is the stack of `RunState`s with
the position of the pump in each nested run. A post has three steps: the run time
is computed (`PostTask`), the task pushed under `incoming_queue_lock_`
(`AddToIncomingQueue`), the pump woken after the lock was released
(`ScheduleWork`). A handler of the pump is one step per branch: `DoWork` is
`DoWorkRefused`, `ReloadWorkQueue`, `DoWorkDone`, `DoWorkDelayed`,
`DoWorkImmediate`, and so on. A task's body is client code between `RunTask` and
`TaskReturns`: it may post, `Quit`, `QuitNow`, `SetNestableTasksAllowed` and call
`Run` or `RunAllPending` again. `Closure` keeps apart what `Closure::Equals` does,
because `DoWork` arms the timer by comparing closures.

**`ConditionVariable`** (`synchronization/condition_variable.cpp`). A step is a
critical section of `internal_lock_`; the user's lock, the wait for the event and
each `SetEvent` are steps of their own, so signals arrive late, out of order and
on events that were recycled meanwhile. The lists are sequences of event numbers;
`allocation_counter` counts the events ever created.

**`PathService`** (`path_service.cpp`, `base_paths.cpp`). `Get` is a stack of calls per
thread, because the providers of `DIR_EXE` and `DIR_SOURCE_ROOT` call `Get`
again; its three critical sections are three steps. A path is the one it was
computed from and the number of `DirName`s applied. `DIR_SOURCE_ROOT` is taken in
a tree that holds the source, two levels above the program's directory.

**`ThreadLifecycle`** (`threading/thread.cpp`, `message_loop_proxy_impl.cpp`,
`~MessageLoop`). The owner, the worker and any number of posting threads. `target`
holds the loops whose proxy still has a `target_message_loop_`; a poster that
passed the check holds the proxy's lock until its push is done. `fate` follows
every task to where it ended: run, deleted, leaked (a `Task*` that the destructor
does not delete) or refused by a proxy whose loop has gone. Deleting a task may
post another one. Running the loop is reduced to taking tasks in order, and a
delayed task may run at any time: `MessageLoop` has the detail.

**`PostTaskAndReply`** (`message_loop_proxy.cpp`). Loops that send each other relays
and are destroyed. A relay is owned by nobody: `queue` and `stack` show where it
is, `origin`, `target` and `released` where it was made, sent and deleted. A post
through a proxy is the push under `message_loop_lock_` and the return from it,
because in between another thread may run the reply and delete the relay through
which the posting thread reached the proxy (`PostReply`, `PostReturns`). The
destructor of the relay asks the proxy for its thread and so waits for the lock.
A post that does not come through a relay is one step: nothing else can happen to
it inside.

**`ObserverList`** (`observer_list.h`). Observers add, remove, clear, iterate and
destroy the list from inside iterations over it. `registered` and `owed` are
history: what clients asked for, and whom each iteration has yet to call.

**`ObserverListThreadSafe`** (`observer_list_threadsafe.h`). Each loop finds its
context through the map `observer_lists`, under `list_lock_`. A context holds the
vector and the depth of a list as in `ObserverList`, of which the module uses an
instance per context for what it shows and compacts. Contexts are addresses: one
that was deleted is given out again, and the calls that wait in a loop's queue
name them by address. Whoever leaves a context empty deletes it: `RemoveObserver`,
or the innermost `NotifyWrapper` that ends. Observers add, remove, notify and
run nested loops while they are called. Loops live as long as the list; threads
without a loop, which the code refuses, are left out.

**`LazyInstance`** (`lazy_instance.cpp`, `memory/singleton.h`, `at_exit.cpp`). A thread
is in a stack of calls of `Pointer()` or `get()`, since constructors use other
globals. The compare and swap, the publication of the instance and the
registration of its destructor are steps of their own. The four kinds differ in
whether they are registered (`leaky` ones are not), in what a waiting thread waits
for, and in whether they come back after exit (a `static` one is `dead_` and `get`
answers none until it is resurrected).

**`ObjectWatcher`** (`win/object_watcher.cpp`, `waitable_event_watcher.cpp`, the
destruction observers of `message_loop.cpp`). Watchers live on one loop's thread;
the system's wait thread calls `DoneWaiting` in three steps: the wait is satisfied,
`did_signal` is set, the `Watch` is posted. `StopWatching` is two steps, because
`UnregisterWaitEx` waits for `DoneWaiting`; `stopping` says what it was called by:
the client, the destructor, `Watch::Run` or the loop's destructor. Watches are heap
addresses, used again.

**`UIPump`** (`message_pump_win.cpp`, with the queues of `message_loop.cpp`). A loop of
`TYPE_UI`, such as the one of `src/win/Chromium.cpp`. The thread's stack holds runs
(`DoRunLoop`, with its position and locals), native modal loops of Windows, tasks,
handlers of window messages, and the pump's own handlers. A native loop knows only
window messages: it comes back to `DoWork` when it dispatches the kMsgHaveWork
that `ScheduleWork` posts, and to `DoDelayedWork` when it dispatches the timer.
`ProcessPumpReplacementMessage` is three steps, because posters may look at
`have_work_` before and after it is reset, and what it processes in place of the
kMsgHaveWork may open the next native loop. The queue of Windows is external:
posted messages come before WM_QUIT, that before the timer. Of tasks only whether
they are delayed is kept; a delayed one may run at any time, deferred ones are left
to `MessageLoop`. `WaitForWork` is empty in this repository (`#if 0`), so `DoRunLoop`
spins and needs no wakeup; only native loops do.

**`SequenceNumbers`** (`PendingTask::operator<`) and **`TickClock`**
(`RolloverProtectedNow`) are integers that wrap, for any width; what they promise
is proved in `MessageLoopProofs` and needs no run.

How they fit together: `ThreadLifecycle` uses the loop as `MessageLoop` describes
it and gives it an end; `PostTaskAndReply` lets several such ends meet, with the
proxies of `ThreadLifecycle`; `UIPump` serves the loop with another pump;
`ObjectWatcher` adds the loop's destruction observers
and a thread that is not ours; `ObserverListThreadSafe` is built on
`ObserverList`. All rely on the automatic reset of an event and on a lock being
one. The `MC` modules only add the symmetry set or the functions of an instance, or
leave out behaviors that differ by a permutation of the closures (`ReferenceSpec`).

Each module holds, next to a definition, the variants marked "Mutant": a plausible
error in that place. None is used by the specification; each makes one of the
properties fail, which is how the properties were shown to depend on the code.

### What clients are assumed to do

A guard that is not in the code is a rule clients keep:

- `Run` is called in a task only after nestable tasks were allowed (otherwise no
  task, not even one that quits, could run), and not after `QuitNow` in the same
  run (`DCHECK(keep_running_)`).
- A task body calls `Quit` or returns; it does not block on another thread.
- `Start` is called when the thread is not started, and `Stop` comes between
  `StopSoon` and the next `Start`. The owner posts through `message_loop()` only
  until it stops the thread.
- An observer is added when it is not in the list (`NOTREACHED` otherwise).
- Nobody is in `Pointer()` or `get()` while the `AtExitManager` runs its callbacks or
  a `Singleton` is resurrected, and what runs at exit registers nothing
  (`at_exit.h`). Constructors need each other in no circle.
- `StartWatching` is not called on a watcher that watches, and not by a destruction
  observer of the loop. `UnregisterWaitEx` does not fail; `RegisterWaitForSingleObject`
  may.
- `Quit` is called inside a run, `SetNestableTasksAllowed` by tasks. Native loops are
  opened, and tasks posted, at any time: in tasks, in handlers of messages and
  outside of every run.
- A thread-safe list is not used when its last client has given it up; `Notify` posts
  hold references of their own.

## Runs

| Run | Instance | Shows |
|---|---|---|
| `message_loop_safety` | 3 tasks, the loop and 1 foreign poster, 1 closure, delays 0 and 1, depth 2, 2 runs, time to 3 | no lost wakeup, no task lost, doubled or started uninvited, quits drain, the loop implements `TaskRunner` |
| `message_loop_liveness` | 2 tasks, 2 closures, delays 0 to 2, time to 3, fair | the timer is armed for the earlier of two run times; posted nestable tasks run; a quit ends the innermost run |
| `condition_variable` | 3 threads, with timeouts, fair | no event leaked or shared, never more events than threads, no signal lost or made up, the event lists implement `CondVar`, its liveness included |
| `path_service` | 2 threads, 2 directories | the cache agrees with overrides and providers, unless a key was overridden while a thread was computing a path (see Findings) |
| `thread_lifecycle` | 3 tasks, owner, worker, 1 poster, 2 starts, 4 rounds, fair | nobody posts into a loop that is gone; `Stop` drains, and returns every time; every accepted task settles; the `DCHECK`s on `message_loop_` and on the rounds hold |
| `observer_list` | 3 observers, vector to 5, depth 2, lists of both types | an iteration calls exactly whom it owes a call |
| `post_task_and_reply` | 2 loops, 3 relays, fair | a relay has one user, is deleted at home and after its reply, and leaks only when a loop goes; a proxy outlives the posts through it |
| `observer_list_threadsafe` | 2 loops nested once, 2 observers, 2 notifications, 3 addresses, vector to 3 | contexts are deleted once and not used after; every notification arrives, and none at an observer that was removed |
| `lazy_instance` | 3 threads; a lazy `a`, a singleton `b` that needs `a` and `c`, a static `c`, a leaky `d` that needs `a`; 2 exits, fair | one instance, destroyed once, after what was built on it; nobody spins forever |
| `object_watcher` | 2 watchers, 3 Watches, 2 events of which one resets itself, 3 starts, 2 signals, delegates nested once, fair | a Watch is deleted once; no delegate is called for a watch that ended; no post to a loop that is gone; a signal is answered |
| `ui_pump` | 2 posters, 3 tasks, 2 window messages, depth 4 | there is one kMsgHaveWork and `have_work_` tells where; every `ScheduleWork` leads a native loop to `DoWork` |
| `ui_pump_starved` | the same | a native loop in which nobody started the sub-pump: see Findings |

Why the bounds are enough for what is asked:

- The loop tells tasks apart by kind (nestable, delayed, closure) and by their
  order. Two tasks are enough for a race between one post and the other and for a
  timer set for the wrong one; the order of starts gets a third, so that one can be
  taken over, one delayed and one deferred. Depth 2 has an outer and an inner run,
  and the flags they share. Two delays and three instants let a task become due
  before, while and after the pump blocks. The liveness run has a third delay, so
  that the pump can sleep on two delayed tasks with different run times, and with
  equal closures `DoWork` can arm the timer for the later one: that the timer is set
  forward again when an earlier task is put in front is what `TimerArmed` is about.
- Three threads on a condition variable: one that times out, one that signals it
  late and one that gets the recycled event meanwhile.
- Two starts show what a stopped thread hands on to the next; one round more than
  tasks stands for the code's 100: enough rounds for whatever deleted tasks and
  other threads still post.
- Three observers: the one being called, one behind and one ahead of it. The
  vector is bounded because holes are only closed by the outermost iteration.
- Three relays on two loops: one in each direction and one nested in a task or
  reply of the others. The proofs hold for any number.
- Three addresses for two loops: one of them can be deleted and given to the other
  loop, or again to the same, while a notification that names it still waits.
- Three threads on the globals: one that creates, one that waits, one whose
  constructor comes between. Two exits, so that globals come back, the static one
  after `Resurrect` only.
- Three Watches for two watchers: one posted, one registered anew by the watcher
  that stopped, one of the other watcher.

- Depth 4 on the UI thread: a run in a native loop in a run, and one more. Two window
  messages: one is replaced for the kMsgHaveWork, the other comes in the native
  loop that its handler opens. Three tasks: one that runs, one left in the work
  queue, one that finds the incoming queue as the one before left it.

Deadlock is checked by `condition_variable`, `path_service` and `ui_pump`.
Everywhere else the system may stop: nobody has to post, a `Thread` may be left
alone, lists and loops are destroyed for good, every global may exist.

### Fairness

Only what the scheduler, the clock and the code's own loops give is assumed:

- `MessageLoop`: weak fairness of each thread's post once begun, of the pump, and of
  the clock. The loop thread is never blocked but in the pump's wait, which the
  event or the timeout ends. `WF(Pump)` includes that task bodies end. It does not
  make a task quit: a nested run nobody quits is allowed, and the two liveness
  properties name it.
- `ConditionVariable`: weak fairness of each thread's steps inside the class
  (`Recorded` only keeps the history that `NoSpuriousSignal` looks at). When to call
  it, and when to give the user's lock back, is left to clients; so the promise
  that a woken thread returns goes as far as its waiting for the user's lock.
- `ThreadLifecycle`: weak fairness of the owner's waits, of the worker and of pushes.
  Tasks are finitely many, so weak fairness of `Detach` is enough though posters
  hold the proxy's lock now and then.
- `PostTaskAndReply`: weak fairness of each thread's steps once a task or reply runs;
  it includes that these return. Relays are finitely many, so the lock that
  `SelfDestruct` waits for is free for good in the end.
- `LazyInstance`: weak fairness of each thread that is in a call. `GetReturns` excuses
  one case, `AskedInVain`: `Singleton::get` waits until nobody is creating the
  instance, so who asks for a dead static one may poll each time another thread is
  failing to create it.
- `ObjectWatcher`: weak fairness of the loop's thread, delegates included, and of the
  wait thread for each Watch. Nobody has to signal or to stop watching.

## Findings

`ui_pump_starved`: a post that finds the incoming queue non-empty does not call
`ScheduleWork`; "Someone else should have started the sub-pump."
(`message_loop.cpp:549`). On a UI loop the kMsgHaveWork of the first post may be gone
while its task still waits in the queue. `HandleWorkMessage` drops it when a native
loop dispatches it outside of every run (`message_pump_win.cpp:279-283`): a task is
posted, a message box is shown, then the loop is run, and the first window message
that `DoRunLoop` peeks, before its first `DoWork`, opens another native loop. Or the
message is taken for a time slice in which `DoWork` runs only what is left of
`work_queue_`, and a native loop opens before the next `DoWork`. In either case no
later post starts the sub-pump, and no task runs in that native loop until
something else calls `ScheduleWork`. `NativeLoopServed` is what holds: who does call
it is served.

Met on the way, and true of the code as modelled:

- `PathService::Get` stores a provider's answer in a critical section of its own
  (`path_service.cpp:189`), after the lookups in the cache and in the overrides
  released the lock. An `Override` of the key in between clears the cache and stores
  the new path, which `AddToCache` then replaces by the old one. `Get` looks into the
  cache first, so the override has no effect from then on, although
  `path_service.h:8-9` says "It is OK to use this service from multiple threads."
  This is the one exception of `CacheInSync` (`raced`).
- `PostTaskAndReply` binds the relay with `Unretained` (`message_loop_proxy.cpp:74`).
  When the loop the task was sent to is destroyed with the relay in its queue, the
  relay, the task and the reply leak while the originating loop runs on.
  `message_loop_proxy.h:44-45` says "Both |task| and |reply| are guaranteed to be
  deleted on the thread from which PostTaskAndReply() is invoked";
  `message_loop_proxy.cpp:15-16` allows the leak only "If this is not possible because
  the originating MessageLoop is no longer available". `LeakExplained` is what holds.
- In a native loop, a timer that was killed may not come back while delayed tasks
  wait: `HandleTimerMessage` kills it before it runs a task, which may open the next
  native loop; and a `DoDelayedWork` that nestable tasks forbid sets
  `delayed_work_time_` to null. `HandleTimerMessage` does not look at what
  `DoDelayedWork` answers.
- A nested `RunAllPending` may leave due tasks behind: when `DoDelayedWork` defers a
  task it answers false. `QuitDrains` therefore asks for delayed and deferred
  tasks at the outermost depth only.
- `DoIdleWork` runs deferred tasks without looking at `nestable_tasks_allowed_`; it
  does so at depth 1 only, where the flag is set (`NoUninvitedTask`).
- `~MessageLoop` leaks tasks of type `Task*` from the work queue, and those that
  come through the proxy between its last round and `Detach`.
- `WaitableEventWatcher` keeps `event_` when `ObjectWatcher::StartWatching` fails and
  when the loop is destroyed: `GetWatchedEvent` then names an event nobody watches.
- A published global is registered for destruction only afterwards. A thread that
  uses it meanwhile may register a global built on it first, which is then
  destroyed last (`raced` in `LazyInstance`).
- The sequence number of a task is an `int` that overflows, which is undefined in
  C++. A build that subtracts keeps the order across the wrap (`OrderSurvivesWrap`),
  one that compares loses it (`OrderLostAtWrap`).
- `MessageLoopProxyImpl::OnDestruct` is not `const` and does not override the `const`
  one of its base class: it is never called.

## Proofs

All theorems hold for every value of the constants that satisfies the module's
assumption: any number of tasks, threads, posters, loops, starts; any depth. They are
about `Spec`, with four exceptions: those of `SequenceNumbers` are about single
operations, those of `TickClock`, `PathService` and `ObserverList` about an `INSTANCE` of
the module with variables of its own (`Clock`, `Paths`, `Vector`), in the proof module
of a part that uses it.

**`MessageLoopProofs`**: `TypeCorrect`, `PumpIsWoken` (`NoLostWakeup`), `PumpIsArmed`
(`TimerArmed`). `NoLostWakeup` speaks of a blocked pump only and is not inductive.
The invariant that is, `IInv`, says what holds at every position of the pump:
`WakeupPending` (from the moment `DoWork` found the incoming queue empty, a
non-empty one means a signal is set or on its way), `Armed` (from the moment
`DoDelayedWork` looked, the timer is no later than any delayed task),
`OuterRunsInTask` (all runs but the innermost are inside a task, so that a nested
run that returns comes back into a task, never into a wait),
`WaitsOnlyToGoOn` and `QueuedWasPosted`. The case that needs thought is a task run
by one of the handlers: it may post and nest, and the loop then starts again with
`DoWork`.

`TasksAreKept` (`EachTaskOnce`) rests on `PlacesInv`: the number of places a task has
in the four queues is one if it was posted and has not started, else none; posts
under way push tasks that nobody else pushes. `StartsAreInvited` (`NoUninvitedTask`) and
`QuitLeavesNothing` (`QuitDrains`) rest on `FlatRunInv`: at depth 1 nestable tasks are
allowed whenever the pump is between tasks, and at `DoIdleWork` no delayed task is due
by the clock `DoDelayedWork` looked at. `LoopIsTaskRunner` (`ImplementsTaskRunner`)
is the refinement, initial states and steps. What `TaskRunner` has taken over is what
`DoWork` has taken out of `work_queue_` (`Taken`, `TakenGrows`): `OrderInv` says that it
is a prefix of what was posted, that the queues hold the rest in order, and that
sequence numbers grow along it. A nestable task that was taken over and has not
started is then in the delayed queue (`NonePrecedes`), and the one on top of it is the
one `TaskRunner` lets start.

**`ConditionVariableProofs`**: `TypeCorrect`, `NoEventLeaks` (`EventsAccounted`),
`SignalsArrive` (`NoLostSignal`), `NoSignalMadeUp` (`NoSpuriousSignal`),
`EventsAreBounded` (`EventsBounded`, which no run checks), `WaitsAsPromised`,
`WaitsAreServed`.
`EventsAccounted` is inductive with the types; `NoLostSignal` rests on it, because a late `SetEvent` may
hit any event, and only the one owner of an event can reset it. Until a time-out
and a signal met (`raced`) there is no late `SetEvent` (`NoLateSetEvent`: signaled and
selected events belong to threads that were taken off the list), hence no spurious
signal. The bound on the events is a pigeonhole argument: a new event is made when
every existing one has an owner, and the owners are distinct and do not include
the thread that asks.

`WaitsAreServed` is the safety core of that return: the user's lock is held by the
thread that is outside of the calls or about to wait (`HoldersAreIn`), never by one that
waits for its event, and with `NoLostSignal` a thread that was selected can go on or
the one that is to set its event can.

`WaitsAsPromised` is the safety half of `ImplementsCondVar`: the initial states are
initial in `CondVar`, and every step is one of its steps or a stutter. A thread sleeps
from the step that puts its event on the list to the one that takes it off, so the
waiting list is the stack of sleepers and what is to be shown is that `Extract`, which
looks for an event, takes out the place of its owner and of nobody else. `CondVar`
says that place by its index.

**`ThreadLifecycleProofs`**: `TypeCorrect`, `LoopsOutlivePosts` (`LoopOutlivesPosts`),
`OwnerIsRight` (`OwnerSeesThread`), `AcceptedTasksSettle` (`TasksSettled`),
`StopDrains` (`QuitComesLast`), `DestructorEnds` (`DestructorDrains`), `OwnerNeverStuck`. The invariant
`LifeInv` ties the places of owner and worker to the pointers: `LoopsExist` (which loops exist and have a proxy at each
station of the worker), `OwnerKnows` (what `started_`, `stopping_` and the startup
event tell the owner), `QuitIsLast` (the worker leaves only after a
`ThreadQuitTask`, which exists only when the owner is stopping: this is why the
owner, who looks at `stopping_` and takes no lock, never meets a loop that is
gone) and `PostsArrive`. `AccountInv` adds that queues are disjoint and free of
repetitions, `Draining` that nothing is left of `before_quit` when the pump answers
idle. `DestructorEnds` has a condition of its own: the `DCHECK(!did_work)` of `~MessageLoop`
holds if fewer tasks are discarded than it has rounds, which `RoundsDelete`
counts (each round but the last one deleted a task). With more tasks it need not:
each one deleted may post the next.

`OwnerNeverStuck` says that an owner who waits in `Start` or `Stop` is waited for by
nobody: what it waits for has happened, or the worker can step, or a poster inside
the proxy's lock can. It needs that the `ThreadQuitTask`, once `stopping_` is set, is
being posted, queued or was run (`QuitIsComing`), that the pump waits neither with work
nor after a quit (`WaitsForWork`), and that a worker that is starting has signaled or
has yet to (`WillSignal`).

**`PostTaskAndReplyProofs`**: `TypeCorrect`, `OneUserAtATime` (`RelayHasOneUser`),
`ProxiesOutlivePosts` (`ProxyOutlivesPost`), `LeaksAreExplained` (`LeakExplained`),
`DeletedAtHome` (`ReleasedAtHome`), `NoLockCircle`. `Queued` and `Held` are the positions of a relay in
the queues and on the threads; a lemma for each way a step can move positions
(push, pop, enter, drop) says what they are afterwards. `IInv` has four parts:
`OneUser` (a relay is in one place and alive there), `AtHome` (its task is queued
and run at its target, its reply at its origin, and a thread that is busy has a
running loop: this is why the proxy can be asked for its thread when the relay
deletes itself), `LocksHeld` (a lock is held by the thread that posts a reply
through it, and either the loop is attached, which its destructor can only end by
taking the lock, or nobody will delete the relay) and `Explained`.

`NoLockCircle`: a thread that needs the lock of a proxy waits for one other thread, and
that one, since it is posting through the proxy, needs no lock before it gives this
one back. The locks of two loops that post replies to each other are so never waited
for in a circle.

**`ObserverListThreadSafeProofs`**, first for one list: `ListsAreAccounted`, `NextIsOwed` and
`AllAreCalled` (`ListAccounted`, `NotifiesOnlyOwed` and `NotifiesAllOwed` of `ObserverList`).
`VectorInv` adds to `ListAccounted` that iterators stay inside the vector (`Within`:
only the outermost iteration shortens it, when no other is left) and that the
observers an iteration owes a call are those at the places it has yet to come to
(`OwesWhatIsAhead`). `FilteredKeeps` is the lemma about `Compact`: the ranks of the
kept places number them without gaps, so nothing else is lost and nothing comes
twice.

Then for the lists of many loops: `TypeCorrect`, `ContextsAreAccounted`
(`ContextsAccounted`), `EveryoneIsNotified` (`EveryoneNotified`), `CallsAreRegistered`
(`NotifiesRegistered`). `ListsInv` has six parts: `Exist` (what a loop holds, in the map or
on its stack, is allocated), `Apart` (two loops never hold the same context), `Depths`
(the depth of a context that is in use is the number of frames that iterate over it,
which is why exactly the last of them may delete it), `Vectors` (no observer twice, and
holes only while somebody iterates), `RegisteredAreListed` and `Delivered` (an
observer that is owed a notification finds it in its loop's queue, under the address
its context has now, or lies ahead of a frame that delivers it). The case that needs
thought is the address: a context deleted and allocated again must not make a
notification of the old one reach the new one.

**`LazyInstanceProofs`**: `TypeCorrect`, `CreatedAndDestroyedOnce` (`EachDestroyedOnce`),
`ConstructorsKeepTheirs` (`GivenIsThere`), `DestroyedInOrder` (`DependentsFirst`),
`NoWaitInACircle`. `IInv`:
`Creators` (what is being created has exactly one thread that constructs it),
`Registered` (what exists and is not leaky is on the manager's stack once, or one
thread is about to put it there), `Provided` (a thread waits only for what is being
created, exists or was given up; a constructor that is done was given all it
needs), `InOrder` (until a constructor raced with a registration, what was given lies
deeper on the stack than what was built on it), and the clients' rule that nobody is
in a call while the manager exits (`ExitsAlone`). The kinds and what they need of each
other are any.

`NoWaitInACircle` has a condition on the clients: constructors need each other in no
circle (`NoCircle`; the uses between the globals that TLC checks satisfy it, and with a
circle `WaitForInstance` spins forever). Then, in any set of instances that holds what
its members need, one of the threads that are in a call can go on. The proof takes,
of the instances somebody is in a call for, one that needs none of the others:
whoever is in a call for it is in no call further in, so that its creator can step, or
nobody waits for it. `AskedIsNeeded` and `GivenIsNeeded` tie the stacks of calls to
what constructors need.

`CacheStaysInSync` (`CacheInSync` of `PathService`) is in the same module. `PathInv`
says that every path that is cached, or in a thread's hands between the provider and
`AddToCache`, is the one `Get` has to answer, unless an override overtook a
computation; and that a call of a provider is on the stack of the key it is for. The
answer itself is a recursion over three keys, which the proof unrolls
(`ComputedIs`).

**`ObjectWatcherProofs`**: `TypeCorrect`, `EachWatchHasOneOwner` (`WatchesAccounted`),
`LoopOutlivesWaits` (`NoPostToDeadLoop`), `NotifiesTheWatched` (`NotifiesWatched`),
`StopNeverStuck`, `SignalsArrive`. `IInv`:
`Paired` (a watcher and its Watch know each other), `WaitsForWatcher` (a wait has a
watcher, and `did_signal` is set exactly from the moment it posts), `HandedOver` (a
Watch that did signal belongs to the loop: it is being posted, queued, run, or
leaked with the loop), `OneHolder` (in one of these places only), `Stops`, `Observes`
(the loop tells every watcher that has a Watch before it goes) and `WatchesEvent`.

`StopNeverStuck` and `SignalsArrive` need two facts more: `StopWatching` has ended the
wait it waits for, unless `DoneWaiting` is being called, which waits for nobody
(`StopEndsWait`); and a wait that nobody stops ends only with `did_signal` set
(`OnlyStopEndsWait`), so that a watcher whose wait is over finds its Watch posted or
queued.

**`UIPumpProofs`**: `TypeCorrect`, `OneMessage` (`OneWorkMessage`),
`NativeLoopsAreServed` (`NativeLoopServed`). `IInv` has three parts: `OnePlace`
(`OneWorkMessage` without sets), `Shape` (a frame of `ProcessPumpReplacementMessage`
is only ever the innermost one, is called where `DoWork` comes next, and never
finds a second kMsgHaveWork: the first `DCHECK`) and `Served` (when somebody called
`ScheduleWork` and there is no kMsgHaveWork, the thread calls `ScheduleWork` or
`DoWork` next, and no quit or native loop can come in between). Most steps
leave the kMsgHaveWork alone (`Quiet`) or are a `ScheduleWork` of the loop's thread
(`Scheduled`); what is left is the four steps that take it from the queue, and the
posters.

**`SequenceNumbers`**, in `MessageLoopProofs`: `OrderSurvivesWrap` (tasks keep their order
across the wrap of the counter if fewer than half its range were queued between
them), `OrderLostBeyond` (the bound is exact), `BuildsAgree` and `OrderLostAtWrap` (what a
build that compares instead of subtracting makes of it).

**`TickClock`**, in the same module: `ClockIsExact`: a call returns what the one before it
returned and the time between, across any number of wraps, if each period has a
call.

Only model-checked:

- the liveness properties (`NestableTaskRuns`, `QuitReturns`, `StopReturns`,
  `ReplyRuns`, `GetReturns`, `SignalAnswered`, and the half of `ImplementsCondVar` that
  says a woken thread returns), which are out of the prover's reach: that the thread
  or task they are about is never left with nobody to serve it is proved for
  `StopReturns` (`OwnerNeverStuck`), `ReplyRuns` (`NoLockCircle`, `LeaksAreExplained`),
  `GetReturns` (`NoWaitInACircle`), `SignalAnswered` (`StopNeverStuck`, `SignalsArrive`)
  and `ImplementsCondVar` (`WaitsAreServed`); that the steps are taken rests on fairness;
- `SubPumpStarted`, which is violated.

## Not modelled

`PROJECT.json` lists every part. In the parts that are modelled:

- `MessageLoop`: task observers, the Windows dispatcher and SEH frame, histograms and
  the lease of the high resolution timer. The lease (`message_loop.cpp:497`) is a
  member that posting threads read and write without a lock; what it decides is only
  the period of the system's timer.
- The destructor of `ConditionVariable` polls with `Sleep` and gives up, so that what
  follows depends on real time.
- `Thread`: COM initialization, names, a `PlatformThread::Create` that fails.
- `AtExitManager`: plain callbacks of clients, those that register callbacks (which
  `at_exit.h` asks clients not to do: `ProcessCallbacksNow` pops a callback after it
  ran, and would pop the new one instead), and shadowing managers, which are for
  tests.
- The UI pump: `os_modal_loop_`, which nothing in the repository sets,
  `PumpOutPendingPaintMessages`, observers and dispatchers of messages.

Parts that are not modelled at all:

- The I/O pump (`message_pump_win.cpp`) is completion ports.
- Thread-local storage: an array over an index of the system, one interlocked
  counter and a loop at thread exit; each thread sees its own.
- `SystemMonitor`: one flag, used on one thread.
- Locks, events and thread creation are the operating system's: atomic sections,
  auto-reset events and single steps in the models.
- Weak pointers and reference counts are left to the modules that rely on them (the
  weak pointer of an iterator is `alive` in `ObserverList`). Tasks and closures are
  values.
- Files, registry, processes, strings, values and statistics are data conversions
  and system calls with little shared state; the widget toolkit and the Chrome port
  are declarations, rendering and code disabled with `#if 0`; `src/skia`,
  `src/third_party` and `src/win/wtl` are vendored. These make up most of the
  repository's lines.
