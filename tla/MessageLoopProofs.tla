-------------------------- MODULE MessageLoopProofs --------------------------
(***************************************************************************)
(* For any number of tasks, posters and nested runs: the pump never        *)
(* sleeps through a posted task nor past a delayed one, no task is lost,   *)
(* doubled or started uninvited, a quit drains, and the loop implements    *)
(* TaskRunner. And for integers of any width: what becomes of the order of *)
(* the delayed tasks and of the clock they are timed by when the counters  *)
(* behind them wrap.                                                       *)
(***************************************************************************)
EXTENDS MessageLoop, SequenceNumbers, FiniteSetTheorems, SequenceTheorems,
        TLAPS

CONSTANT Period                                 \* of TickClock
VARIABLES timer, rollover_ms, last_seen_now, passed

\* TimeTicks::Now, which MessageLoop has as now.
Clock == INSTANCE TickClock

AllPosted(q) == \A t \in Task : InQueue(q, t) => InQueue(posted, t)

\* Only posted tasks are queued, so that a new post changes the PendingTask of
\* none that is.
QueuedWasPosted ==
  /\ AllPosted(incoming_queue)
  /\ AllPosted(work_queue)
  /\ \A t \in delayed_work_queue :
       InQueue(posted, t) /\ pending_task[t].delayed_run_time # Null

\* Every run but the innermost is in the body of a task, and a pump turns with
\* nestable tasks forbidden only in a run that will quit when idle.
OuterRunsInTask ==
  /\ \A d \in Depth : d < run_depth => state[d].pc = "task"
  /\ run_depth > 0 /\ Top.pc # "task" /\ ~nestable_tasks_allowed => Top.quit

\* The pump has seen both queues empty since it last ran or waited: whatever
\* came in later found incoming_queue empty, and its poster wakes the pump.
Looked ==
  /\ run_depth > 0
  /\ \/ Top.pc \in {"idle", "wait", "blocked"}
     \/ Top.pc = "delayed" /\ ~Top.did
  /\ nestable_tasks_allowed

Signaled == event \/ \E th \in Thread : posting[th].pc = "schedule"

WakeupPending ==
  Looked => work_queue = <<>> /\ (incoming_queue # <<>> => Signaled)

\* DoDelayedWork has armed the pump for the earliest delayed task.
Armed ==
  run_depth > 0 /\ Top.pc \in {"idle", "wait", "blocked"} /\ nestable_tasks_allowed =>
    \A t \in delayed_work_queue :
      /\ delayed_work_time # Null
      /\ delayed_work_time <= pending_task[t].delayed_run_time

\* DoIdleWork sends a run that is to quit home, it never waits.
WaitsOnlyToGoOn ==
  run_depth > 0 /\ Top.pc \in {"wait", "blocked"} => nestable_tasks_allowed

PumpInv == OuterRunsInTask /\ WakeupPending /\ Armed /\ WaitsOnlyToGoOn

IInv == QueuedWasPosted /\ PumpInv

-----------------------------------------------------------------------------
(* Types *)

\* The operators that move the pump keep its part of the state well typed.
LEMMA PumpTyped ==
  ASSUME TypeOK, run_depth > 0,
         NEW pc \in {"work", "delayed", "idle", "wait", "blocked"},
         NEW did \in BOOLEAN,
         HandlerReturns(pc, did) \/ GoTo(pc, did) \/ PumpReturns
  PROVE  /\ run_depth' \in 0..MaxDepth
         /\ keep_running' \in BOOLEAN
         /\ state' \in [Depth -> RunState]
<1>1. CASE GoTo(pc, did)
  <2>1. Top.quit \in BOOLEAN
    BY ConstantsAssumption DEF TypeOK, Top, RunState, Depth
  <2> QED BY <1>1, <2>1 DEF TypeOK, GoTo, RunState
<1>2. CASE PumpReturns
  <2>1. AutoRunState(FALSE) \in RunState
    BY DEF AutoRunState, RunState
  <2>2. run_depth - 1 \in 0..MaxDepth
    BY ConstantsAssumption DEF TypeOK
  <2> QED BY <1>2, <2>1, <2>2 DEF TypeOK, PumpReturns
<1> QED BY <1>1, <1>2 DEF HandlerReturns

LEMMA RunTaskTyped ==
  ASSUME TypeOK, run_depth > 0, NEW t \in Task,
         NEW handler \in {"work", "delayed", "idle"}, RunTask(t, handler)
  PROVE  /\ run_depth' \in 0..MaxDepth
         /\ keep_running' \in BOOLEAN
         /\ state' \in [Depth -> RunState]
         /\ nestable_tasks_allowed' \in BOOLEAN
         /\ started' \in SUBSET Task
<1>1. Top.did \in BOOLEAN /\ Top.quit \in BOOLEAN
  BY ConstantsAssumption DEF TypeOK, Top, RunState, Depth
<1>2. [pc |-> "task", from |-> handler, did |-> Top.did, quit |-> Top.quit]
        \in RunState
  BY <1>1 DEF RunState
<1> QED BY <1>2 DEF TypeOK, RunTask

LEMMA DeferOrRunTyped ==
  ASSUME TypeOK, run_depth > 0, NEW t \in Task,
         NEW handler \in {"work", "delayed", "idle"}, NEW ACTION next,
         DeferOrRunPendingTask(t, handler, next),
         next => /\ run_depth' \in 0..MaxDepth
                 /\ keep_running' \in BOOLEAN
                 /\ state' \in [Depth -> RunState]
  PROVE  /\ run_depth' \in 0..MaxDepth
         /\ keep_running' \in BOOLEAN
         /\ state' \in [Depth -> RunState]
         /\ nestable_tasks_allowed' \in BOOLEAN
         /\ started' \in SUBSET Task
         /\ deferred_non_nestable_work_queue' \in Seq(Task)
<1>1. CASE MayRun(t) /\ RunTask(t, handler)
             /\ UNCHANGED deferred_non_nestable_work_queue
  BY <1>1, RunTaskTyped DEF TypeOK
<1>2. CASE /\ next
           /\ deferred_non_nestable_work_queue' =
                Append(deferred_non_nestable_work_queue, t)
           /\ UNCHANGED <<nestable_tasks_allowed, started>>
  BY <1>2 DEF TypeOK
<1> QED BY <1>1, <1>2 DEF DeferOrRunPendingTask

LEMMA PushedTask ==
  ASSUME TypeOK, NEW th \in Thread, posting[th].pc = "push"
  PROVE  posting[th].task \in Task
<1>1. posting[th] \in Posting
  BY DEF TypeOK
<1>2. CASE posting[th] \in [pc : {"push"}, task : Task]
  BY <1>2
<1>3. CASE posting[th] = Idle \/ posting[th] \in [pc : {"schedule"}]
  BY <1>3 DEF Idle
<1> QED BY <1>1, <1>2, <1>3 DEF Posting

\* TypeOK without the conjuncts on history and types that each step keeps by
\* leaving the variable alone is proved action by action.
LEMMA TypeInductive == TypeOK /\ [Next]_vars => TypeOK'
<1> SUFFICES ASSUME TypeOK, [Next]_vars PROVE TypeOK'
  OBVIOUS
<1> USE ConstantsAssumption
<1>1. ASSUME NEW th \in Thread, NEW t \in Task, NEW delay \in Delays,
             NEW nestable \in BOOLEAN, NEW closure \in Closure,
             PostTask(th, t, closure, delay, nestable)
      PROVE  TypeOK'
  BY <1>1 DEF TypeOK, PostTask, PendingTask, Posting, Null, queues
<1>2. ASSUME NEW th \in Thread, AddToIncomingQueue(th) PROVE TypeOK'
  <2>1. posting[th].task \in Task
    BY <1>2, PushedTask DEF AddToIncomingQueue
  <2> QED BY <1>2, <2>1 DEF TypeOK, AddToIncomingQueue, Posting, queues
<1>3. ASSUME NEW th \in Thread, ScheduleWork(th) PROVE TypeOK'
  BY <1>3 DEF TypeOK, ScheduleWork, Posting, queues
<1>4. ASSUME NEW quit \in BOOLEAN, Run(quit) PROVE TypeOK'
  BY <1>4 DEF TypeOK, Run, AutoRunState, RunState, Depth, shared, queues
<1>5. CASE Quit
  <2>1. run_depth \in Depth
    BY <1>5 DEF TypeOK, Quit, InTask, Depth
  <2>2. state' \in [Depth -> RunState]
    BY <1>5, <2>1 DEF TypeOK, Quit, RunState
  <2> QED BY <1>5, <2>2 DEF TypeOK, Quit, shared, queues
<1>6. CASE QuitNow
  BY <1>6 DEF TypeOK, QuitNow, shared, queues
<1>7. ASSUME NEW allowed \in BOOLEAN, SetNestableTasksAllowed(allowed)
      PROVE  TypeOK'
  BY <1>7 DEF TypeOK, SetNestableTasksAllowed, queues
<1>8. CASE TaskReturns
  BY <1>8, PumpTyped DEF TypeOK, TaskReturns, InTask, shared, queues
<1>9. CASE DoWorkRefused
  BY <1>9, PumpTyped DEF TypeOK, DoWorkRefused, At, shared, queues
<1>10. CASE ReloadWorkQueue
  BY <1>10 DEF TypeOK, ReloadWorkQueue
<1>11. CASE DoWorkDone
  BY <1>11, PumpTyped DEF TypeOK, DoWorkDone, InDoWork, At, shared, queues
<1>12. CASE DoWorkDelayed
  <2>1. Head(work_queue) \in Task /\ Tail(work_queue) \in Seq(Task)
    BY <1>12 DEF TypeOK, DoWorkDelayed
  <2> DEFINE pt == [pending_task EXCEPT
                      ![Head(work_queue)].sequence_num = next_sequence_num]
  <2>2. pt \in [Task -> PendingTask]
    BY <2>1 DEF TypeOK, PendingTask
  <2>3. pending_task' = pt
    BY <1>12 DEF DoWorkDelayed
  <2>4. delayed_work_time' \in Nat
    <3>1. \/ delayed_work_time' = pt[Head(work_queue)].delayed_run_time
          \/ delayed_work_time' = delayed_work_time
      BY <1>12 DEF DoWorkDelayed
    <3>2. pt[Head(work_queue)].delayed_run_time \in Nat
      BY <2>1, <2>2 DEF PendingTask
    <3> QED BY <3>1, <3>2 DEF TypeOK
  <2>5. delayed_work_queue' \in SUBSET Task
    BY <1>12, <2>1 DEF TypeOK, DoWorkDelayed
  <2>6. next_sequence_num' \in Nat
    BY <1>12 DEF TypeOK, DoWorkDelayed
  <2> QED BY <1>12, <2>1, <2>2, <2>3, <2>4, <2>5, <2>6
          DEF TypeOK, DoWorkDelayed, shared
<1>13. CASE DoWorkImmediate
  <2>1. Head(work_queue) \in Task /\ Tail(work_queue) \in Seq(Task)
    BY <1>13 DEF TypeOK, DoWorkImmediate
  <2>2. /\ run_depth' \in 0..MaxDepth
        /\ keep_running' \in BOOLEAN
        /\ state' \in [Depth -> RunState]
        /\ nestable_tasks_allowed' \in BOOLEAN
        /\ started' \in SUBSET Task
        /\ deferred_non_nestable_work_queue' \in Seq(Task)
    <3>1. run_depth > 0
      BY <1>13 DEF DoWorkImmediate, InDoWork, At
    <3> DEFINE next == UNCHANGED <<state, run_depth, keep_running>>
    <3>2. next => /\ run_depth' \in 0..MaxDepth
                  /\ keep_running' \in BOOLEAN
                  /\ state' \in [Depth -> RunState]
      BY DEF TypeOK
    <3>3. DeferOrRunPendingTask(Head(work_queue), "work", next)
      BY <1>13 DEF DoWorkImmediate
    <3> HIDE DEF next
    <3> QED BY <2>1, <3>1, <3>2, <3>3, DeferOrRunTyped
  <2> QED BY <1>13, <2>1, <2>2 DEF TypeOK, DoWorkImmediate, shared
<1>14. CASE DoDelayedWorkNone
  BY <1>14, PumpTyped DEF TypeOK, DoDelayedWorkNone, DelayedIdle, At, Null, shared, queues
<1>15. ASSUME NEW t \in Task, DoDelayedWorkNotYet(t) PROVE TypeOK'
  BY <1>15, PumpTyped
     DEF TypeOK, DoDelayedWorkNotYet, InDoDelayedWork, DelayedIdle, Refreshed,
         At, PendingTask, shared, queues
<1>16. ASSUME NEW t \in Task, DoDelayedWorkDue(t) PROVE TypeOK'
  <2>1. delayed_work_time' \in Nat
    BY <1>16 DEF TypeOK, DoDelayedWorkDue, PendingTask
  <2>2. /\ run_depth' \in 0..MaxDepth
        /\ keep_running' \in BOOLEAN
        /\ state' \in [Depth -> RunState]
        /\ nestable_tasks_allowed' \in BOOLEAN
        /\ started' \in SUBSET Task
        /\ deferred_non_nestable_work_queue' \in Seq(Task)
    <3>1. run_depth > 0
      BY <1>16 DEF DoDelayedWorkDue, InDoDelayedWork, At
    <3>2. DelayedIdle => /\ run_depth' \in 0..MaxDepth
                         /\ keep_running' \in BOOLEAN
                         /\ state' \in [Depth -> RunState]
      BY <3>1, PumpTyped DEF DelayedIdle
    <3>3. DeferOrRunPendingTask(t, "delayed", DelayedIdle)
      BY <1>16 DEF DoDelayedWorkDue
    <3> QED BY <3>1, <3>2, <3>3, DeferOrRunTyped
  <2>3. recent_time' \in Nat
    BY <1>16 DEF TypeOK, DoDelayedWorkDue, Refreshed
  <2> QED BY <1>16, <2>1, <2>2, <2>3 DEF TypeOK, DoDelayedWorkDue, shared
<1>17. CASE ProcessNextDelayedNonNestableTask
  <2>1. /\ Head(deferred_non_nestable_work_queue) \in Task
        /\ Tail(deferred_non_nestable_work_queue) \in Seq(Task)
    BY <1>17 DEF TypeOK, ProcessNextDelayedNonNestableTask, MayRunDeferred
  <2> QED BY <1>17, <2>1, RunTaskTyped
          DEF TypeOK, ProcessNextDelayedNonNestableTask, At, shared
<1>18. CASE DoIdleWorkQuits
  BY <1>18, PumpTyped DEF TypeOK, DoIdleWorkQuits, At, shared, queues
<1>19. CASE DoIdleWorkNone
  BY <1>19, PumpTyped DEF TypeOK, DoIdleWorkNone, At, shared, queues
<1>20. CASE PumpDecidesToWait
  <2>1. delayed_work_time' \in Nat
    <3>1. delayed_work_time' = delayed_work_time \/ delayed_work_time' = Null
      BY <1>20, Zenon DEF PumpDecidesToWait
    <3> QED BY <3>1 DEF TypeOK, Null
  <2>2. /\ run_depth' \in 0..MaxDepth
        /\ keep_running' \in BOOLEAN
        /\ state' \in [Depth -> RunState]
    BY <1>20, PumpTyped DEF PumpDecidesToWait, At
  <2> QED BY <1>20, <2>1, <2>2 DEF TypeOK, PumpDecidesToWait, shared, queues
<1>21. CASE PumpWakes
  BY <1>21, PumpTyped DEF TypeOK, PumpWakes, At, queues
<1>22. CASE PumpTimesOut
  BY <1>22, PumpTyped DEF TypeOK, PumpTimesOut, At, shared, queues
<1>23. CASE Tick
  BY <1>23 DEF TypeOK, Tick, queues
<1>24. CASE UNCHANGED vars
  BY <1>24 DEF TypeOK, vars, shared, queues
<1> QED
  BY <1>1, <1>2, <1>3, <1>4, <1>5, <1>6, <1>7, <1>8, <1>9, <1>10, <1>11, <1>12,
     <1>13, <1>14, <1>15, <1>16, <1>17, <1>18, <1>19, <1>20, <1>21, <1>22, <1>23,
     <1>24
  DEF Next, Client, Post, Pump, DoWork, DoDelayedWork, DoIdleWork, PumpWaits

\* Every reachable state is well typed.
THEOREM TypeCorrect == Spec => []TypeOK
<1>1. Init => TypeOK
  <2> SUFFICES ASSUME Init PROVE TypeOK
    OBVIOUS
  <2>1. posting \in [Thread -> Posting]
    BY DEF Init, Posting
  <2>2. pending_task \in [Task -> PendingTask]
    BY ConstantsAssumption DEF Init, PendingTask, Null
  <2>3. state \in [Depth -> RunState]
    BY DEF Init, AutoRunState, RunState
  <2>4. /\ incoming_queue \in Seq(Task)
        /\ work_queue \in Seq(Task)
        /\ deferred_non_nestable_work_queue \in Seq(Task)
        /\ posted \in Seq(Task)
    BY DEF Init
  <2>5. /\ now \in Nat
        /\ recent_time \in Nat
        /\ delayed_work_time \in Nat
        /\ next_sequence_num \in Nat
        /\ runs \in Nat
        /\ run_depth \in 0..MaxDepth
    BY ConstantsAssumption DEF Init, Null
  <2> QED BY <2>1, <2>2, <2>3, <2>4, <2>5, Zenon DEF Init, TypeOK
<1>2. QED BY <1>1, TypeInductive, PTL DEF Spec

-----------------------------------------------------------------------------
(* Queues hold posted tasks only *)

LEMMA AppendInQueue ==
  ASSUME NEW S, NEW q \in Seq(S), NEW x \in S
  PROVE  \A t : InQueue(Append(q, x), t) <=> InQueue(q, t) \/ t = x
<1>1. /\ DOMAIN q = 1..Len(q)
      /\ DOMAIN Append(q, x) = 1..(Len(q) + 1)
      /\ Len(q) \in Nat
      /\ \A i \in 1..Len(q) : Append(q, x)[i] = q[i]
      /\ Append(q, x)[Len(q) + 1] = x
  OBVIOUS
<1> QED BY <1>1 DEF InQueue, Range

LEMMA HeadTailInQueue ==
  ASSUME NEW S, NEW q \in Seq(S), q # <<>>
  PROVE  /\ InQueue(q, Head(q))
         /\ \A t : InQueue(Tail(q), t) => InQueue(q, t)
<1>1. /\ DOMAIN q = 1..Len(q)
      /\ DOMAIN Tail(q) = 1..(Len(q) - 1)
      /\ Len(q) \in Nat /\ Len(q) > 0
      /\ \A i \in 1..(Len(q) - 1) : Tail(q)[i] = q[i + 1]
      /\ Head(q) = q[1]
  OBVIOUS
<1> QED BY <1>1 DEF InQueue, Range

LEMMA EmptyInQueue == \A t : ~InQueue(<<>>, t)
BY DEF InQueue, Range

\* A step that leaves the queues, the posted tasks and the PendingTasks alone.
LEMMA QueuedUnchanged ==
  QueuedWasPosted
    /\ UNCHANGED <<incoming_queue, work_queue, delayed_work_queue,
                   pending_task, posted>>
  => QueuedWasPosted'
BY DEF QueuedWasPosted, AllPosted

LEMMA QueuedInductive ==
  TypeOK /\ QueuedWasPosted /\ [Next]_vars => QueuedWasPosted'
<1> SUFFICES ASSUME TypeOK, QueuedWasPosted, [Next]_vars PROVE QueuedWasPosted'
  OBVIOUS
<1>1. ASSUME NEW th \in Thread, NEW t \in Task, NEW delay \in Delays,
             NEW nestable \in BOOLEAN, NEW closure \in Closure,
             PostTask(th, t, closure, delay, nestable)
      PROVE  QueuedWasPosted'
  <2>1. ~InQueue(posted, t)
    BY <1>1 DEF PostTask, Unposted, InQueue, Range
  <2>2. \A u \in delayed_work_queue : pending_task'[u] = pending_task[u]
    BY <1>1, <2>1 DEF PostTask, QueuedWasPosted, TypeOK
  <2> QED BY <1>1, <2>2 DEF PostTask, QueuedWasPosted, AllPosted, queues
<1>2. ASSUME NEW th \in Thread, AddToIncomingQueue(th) PROVE QueuedWasPosted'
  <2> DEFINE x == posting[th].task
  <2>1. x \in Task
    BY <1>2, PushedTask DEF AddToIncomingQueue
  <2>2. \A u : InQueue(posted', u) <=> InQueue(posted, u) \/ u = x
    BY <1>2, <2>1, AppendInQueue DEF AddToIncomingQueue, TypeOK
  <2>3. \A u : InQueue(incoming_queue', u) <=> InQueue(incoming_queue, u) \/ u = x
    BY <1>2, <2>1, AppendInQueue DEF AddToIncomingQueue, TypeOK
  <2> QED BY <1>2, <2>2, <2>3
          DEF AddToIncomingQueue, QueuedWasPosted, AllPosted, queues
<1>3. CASE ReloadWorkQueue
  BY <1>3, EmptyInQueue DEF ReloadWorkQueue, QueuedWasPosted, AllPosted
<1>4. CASE DoWorkDelayed
  <2> DEFINE h == Head(work_queue)
  <2>1. h \in Task /\ InQueue(work_queue, h)
    BY <1>4, HeadTailInQueue DEF DoWorkDelayed, TypeOK
  <2>2. \A u : InQueue(work_queue', u) => InQueue(work_queue, u)
    BY <1>4, HeadTailInQueue DEF DoWorkDelayed, TypeOK
  <2>3. InQueue(posted, h) /\ pending_task[h].delayed_run_time # Null
    BY <1>4, <2>1 DEF DoWorkDelayed, QueuedWasPosted, AllPosted
  <2>4. \A u \in Task :
          pending_task'[u].delayed_run_time = pending_task[u].delayed_run_time
    BY <1>4, <2>1 DEF DoWorkDelayed, TypeOK, PendingTask
  <2>5. delayed_work_queue' = delayed_work_queue \union {h}
    BY <1>4 DEF DoWorkDelayed
  <2>6. delayed_work_queue \in SUBSET Task
    BY DEF TypeOK
  <2>7. UNCHANGED <<incoming_queue, posted>>
    BY <1>4 DEF DoWorkDelayed, shared
  <2> HIDE DEF h
  <2> QED BY <2>1, <2>2, <2>3, <2>4, <2>5, <2>6, <2>7
          DEF QueuedWasPosted, AllPosted
<1>5. CASE DoWorkImmediate
  <2>1. \A u : InQueue(work_queue', u) => InQueue(work_queue, u)
    BY <1>5, HeadTailInQueue DEF DoWorkImmediate, TypeOK
  <2> QED BY <1>5, <2>1 DEF DoWorkImmediate, QueuedWasPosted, AllPosted, shared
<1>6. ASSUME NEW t \in Task, DoDelayedWorkDue(t) PROVE QueuedWasPosted'
  BY <1>6 DEF DoDelayedWorkDue, QueuedWasPosted, AllPosted, shared
<1>7. CASE /\ ~ \E th \in Thread : AddToIncomingQueue(th)
           /\ ~ \E th \in Thread, t \in Task, delay \in Delays,
                   nestable \in BOOLEAN, closure \in Closure :
                     PostTask(th, t, closure, delay, nestable)
           /\ ~ReloadWorkQueue /\ ~DoWorkDelayed /\ ~DoWorkImmediate
           /\ ~ \E t \in Task : DoDelayedWorkDue(t)
  <2>1. UNCHANGED <<incoming_queue, work_queue, delayed_work_queue,
                    pending_task, posted>>
    BY <1>7
       DEF Next, vars, shared, queues, Client, Run, Quit, QuitNow,
           SetNestableTasksAllowed, Post, ScheduleWork, Pump, TaskReturns,
           DoWork, DoWorkRefused, DoWorkDone, DoDelayedWork, DoDelayedWorkNone,
           DoDelayedWorkNotYet, DoIdleWork, ProcessNextDelayedNonNestableTask,
           DoIdleWorkQuits, DoIdleWorkNone, PumpWaits, PumpDecidesToWait,
           PumpWakes, PumpTimesOut, Tick
  <2> QED BY <2>1, QueuedUnchanged
<1> QED BY <1>1, <1>2, <1>3, <1>4, <1>5, <1>6, <1>7

-----------------------------------------------------------------------------
(* The pump *)

\* Outside Run and in the body of a task the pump promises nothing.
LEMMA NotTurning ==
  ASSUME run_depth = 0 \/ Top.pc = "task",
         \A d \in Depth : d < run_depth => state[d].pc = "task"
  PROVE  PumpInv
BY DEF PumpInv, OuterRunsInTask, WakeupPending, Looked, Armed, WaitsOnlyToGoOn

\* Leaving a run lands outside Run or in the body of the task that ran it.
LEMMA AfterPumpReturns ==
  ASSUME TypeOK, run_depth > 0, OuterRunsInTask, PumpReturns
  PROVE  PumpInv'
<1>1. /\ run_depth' \in Nat /\ run_depth' = run_depth - 1
      /\ run_depth \in Depth
      /\ \A d \in Depth : d # run_depth => state'[d] = state[d]
  BY ConstantsAssumption DEF TypeOK, PumpReturns, Depth
<1>2. \A d \in Depth : d < run_depth => state'[d].pc = "task"
  BY <1>1 DEF OuterRunsInTask, Depth
<1>3. run_depth' = 0 \/ Top'.pc = "task"
  <2>1. run_depth' # 0 => run_depth' \in Depth /\ run_depth' < run_depth
    <3>1. MaxDepth \in Nat /\ run_depth \in Nat /\ run_depth <= MaxDepth
      BY ConstantsAssumption DEF TypeOK
    <3> QED BY <1>1, <3>1 DEF Depth
  <2> QED BY <1>2, <2>1 DEF Top
<1>4. \A d \in Depth : d < run_depth' => state'[d].pc = "task"
  BY <1>1, <1>2 DEF TypeOK, Depth
<1> QED BY <1>3, <1>4
        DEF PumpInv, OuterRunsInTask, WakeupPending, Looked, Armed, WaitsOnlyToGoOn

\* A task starts.
LEMMA AfterRunTask ==
  ASSUME TypeOK, run_depth > 0, OuterRunsInTask,
         NEW t \in Task, NEW handler, RunTask(t, handler)
  PROVE  PumpInv'
<1>1. /\ run_depth' = run_depth
      /\ run_depth \in Depth
      /\ Top'.pc = "task"
      /\ \A d \in Depth : d # run_depth => state'[d] = state[d]
  BY ConstantsAssumption DEF TypeOK, RunTask, Top, Depth
<1>2. \A d \in Depth : d < run_depth' => state'[d].pc = "task"
  BY <1>1 DEF OuterRunsInTask, Depth
<1> QED BY <1>1, <1>2
        DEF PumpInv, OuterRunsInTask, WakeupPending, Looked, Armed, WaitsOnlyToGoOn

\* The pump goes on with another handler.
LEMMA AfterGoTo ==
  ASSUME TypeOK, run_depth > 0, OuterRunsInTask, NEW pc, NEW did, GoTo(pc, did)
  PROVE  /\ run_depth' = run_depth
         /\ Top'.pc = pc /\ Top'.did = did /\ Top'.quit = Top.quit
         /\ \A d \in Depth : d < run_depth' => state'[d].pc = "task"
<1>1. /\ run_depth' = run_depth
      /\ run_depth \in Depth
      /\ Top' = [pc |-> pc, from |-> "work", did |-> did, quit |-> Top.quit]
      /\ \A d \in Depth : d # run_depth => state'[d] = state[d]
  BY ConstantsAssumption DEF TypeOK, GoTo, Top, Depth
<1> QED BY <1>1 DEF OuterRunsInTask, Depth

\* The client on the loop thread: it runs only where NotTurning holds.
LEMMA ClientKeepsTurn ==
  ASSUME InTask \/ OutsideRun, OuterRunsInTask, TypeOK,
         UNCHANGED run_depth,
         \A d \in Depth : state'[d].pc = state[d].pc
  PROVE  PumpInv'
<1>1. run_depth = 0 \/ run_depth \in Depth
  BY ConstantsAssumption DEF TypeOK, Depth
<1>2. run_depth' = 0 \/ Top'.pc = "task"
  BY <1>1 DEF InTask, OutsideRun, Top
<1>3. \A d \in Depth : d < run_depth' => state'[d].pc = "task"
  BY DEF OuterRunsInTask
<1> QED BY <1>2, <1>3
        DEF PumpInv, OuterRunsInTask, WakeupPending, Looked, Armed, WaitsOnlyToGoOn

\* A step that leaves the pump, its flags and its queues alone keeps the
\* invariant as long as no wakeup is taken back.
LEMMA PumpUnchanged ==
  ASSUME PumpInv,
         UNCHANGED <<run_depth, state, nestable_tasks_allowed, work_queue,
                     delayed_work_queue, delayed_work_time>>,
         Looked /\ incoming_queue' # <<>> => Signaled',
         \A t \in delayed_work_queue : pending_task'[t] = pending_task[t]
  PROVE  PumpInv'
<1>1. OuterRunsInTask'
  BY DEF PumpInv, OuterRunsInTask, Top
<1>2. Looked' = Looked
  BY DEF Looked, Top
<1>3. WakeupPending'
  BY <1>2 DEF PumpInv, WakeupPending
<1>4. Armed' /\ WaitsOnlyToGoOn'
  BY DEF PumpInv, Armed, WaitsOnlyToGoOn, Top
<1> QED BY <1>1, <1>3, <1>4 DEF PumpInv

\* DoDelayedWork answered false, having armed the pump for the queue it left.
LEMMA AfterDelayedIdle ==
  ASSUME TypeOK, PumpInv, At("delayed"), DelayedIdle,
         UNCHANGED <<incoming_queue, event, posting, work_queue,
                     nestable_tasks_allowed>>,
         nestable_tasks_allowed =>
           \A t \in delayed_work_queue' :
             /\ delayed_work_time' # Null
             /\ delayed_work_time' <= pending_task'[t].delayed_run_time
  PROVE  PumpInv'
<1>1. run_depth > 0 /\ Top.pc = "delayed" /\ OuterRunsInTask /\ WakeupPending
  BY DEF At, PumpInv
<1>2. ~nestable_tasks_allowed => Top.quit
  BY <1>1 DEF OuterRunsInTask
<1>3. CASE PumpReturns
  BY <1>1, <1>3, AfterPumpReturns
<1>4. CASE GoTo("work", FALSE)
  <2>1. /\ run_depth' = run_depth
        /\ Top'.pc = "work" /\ Top'.quit = Top.quit
        /\ \A d \in Depth : d < run_depth' => state'[d].pc = "task"
    BY <1>1, <1>4, AfterGoTo
  <2> QED BY <1>1, <1>2, <2>1
          DEF PumpInv, OuterRunsInTask, WakeupPending, Looked, Armed,
              WaitsOnlyToGoOn
<1>5. CASE GoTo("idle", FALSE) /\ ~Top.did
  <2>1. /\ run_depth' = run_depth
        /\ Top'.pc = "idle" /\ Top'.quit = Top.quit
        /\ \A d \in Depth : d < run_depth' => state'[d].pc = "task"
    BY <1>1, <1>5, AfterGoTo
  <2>2. Looked' => Looked
    BY <1>1, <1>5 DEF Looked
  <2>3. WakeupPending'
    BY <1>1, <2>2 DEF WakeupPending, Signaled
  <2> QED BY <1>2, <2>1, <2>3
          DEF PumpInv, OuterRunsInTask, Armed, WaitsOnlyToGoOn
<1> QED BY <1>3, <1>4, <1>5 DEF DelayedIdle, HandlerReturns

\* The top of the priority queue is no later than any task in it.
LEMMA TopIsEarliest ==
  ASSUME TypeOK, NEW q \in SUBSET Task, NEW t, IsTop(pending_task, q, t)
  PROVE  \A u \in q : pending_task[t].delayed_run_time
                        <= pending_task[u].delayed_run_time
<1>1. \A u \in q : pending_task[u].delayed_run_time \in Nat
  BY DEF TypeOK, PendingTask
<1>2. t \in q /\ \A u \in q \ {t} : RunsBefore(pending_task, t, u)
  BY DEF IsTop
<1> QED BY <1>1, <1>2 DEF RunsBefore

LEMMA PumpInductive ==
  TypeOK /\ QueuedWasPosted /\ PumpInv /\ [Next]_vars => PumpInv'
<1> SUFFICES ASSUME TypeOK, QueuedWasPosted, PumpInv, [Next]_vars PROVE PumpInv'
  OBVIOUS
<1>1. OuterRunsInTask
  BY DEF PumpInv
<1>2. ASSUME NEW th \in Thread, NEW t \in Task, NEW delay \in Delays,
             NEW nestable \in BOOLEAN, NEW closure \in Closure,
             PostTask(th, t, closure, delay, nestable)
      PROVE  PumpInv'
  <2>1. ~InQueue(posted, t)
    BY <1>2 DEF PostTask, Unposted, InQueue, Range
  <2>2. \A u \in delayed_work_queue : pending_task'[u] = pending_task[u]
    BY <1>2, <2>1 DEF PostTask, QueuedWasPosted, TypeOK
  <2>3. posting[th].pc # "schedule"
    BY <1>2 DEF PostTask, MayPost, Idle
  <2>4. Signaled => Signaled'
    BY <1>2, <2>3 DEF PostTask, Signaled, TypeOK
  <2>5. UNCHANGED <<run_depth, state, nestable_tasks_allowed, work_queue,
                    delayed_work_queue, delayed_work_time, incoming_queue>>
    BY <1>2 DEF PostTask, queues
  <2>6. Looked /\ incoming_queue' # <<>> => Signaled'
    BY <2>4, <2>5 DEF PumpInv, WakeupPending
  <2> QED BY <2>2, <2>5, <2>6, PumpUnchanged
<1>3. ASSUME NEW th \in Thread, AddToIncomingQueue(th) PROVE PumpInv'
  <2>1. UNCHANGED <<run_depth, state, nestable_tasks_allowed, work_queue,
                    delayed_work_queue, delayed_work_time, pending_task, event>>
    BY <1>3 DEF AddToIncomingQueue, queues
  <2>2. CASE incoming_queue = <<>>
    <3>1. posting'[th].pc = "schedule"
      BY <1>3, <2>2 DEF AddToIncomingQueue, TypeOK
    <3> QED BY <2>1, <3>1, PumpUnchanged DEF Signaled
  <2>3. CASE incoming_queue # <<>>
    <3>1. Signaled => Signaled'
      BY <1>3, <2>1 DEF AddToIncomingQueue, Signaled, TypeOK
    <3>2. Looked /\ incoming_queue' # <<>> => Signaled'
      BY <2>3, <3>1 DEF PumpInv, WakeupPending
    <3> QED BY <2>1, <3>2, PumpUnchanged
  <2> QED BY <2>2, <2>3
<1>4. ASSUME NEW th \in Thread, ScheduleWork(th) PROVE PumpInv'
  BY <1>4, PumpUnchanged DEF ScheduleWork, Signaled, queues
<1>5. ASSUME NEW quit \in BOOLEAN, Run(quit) PROVE PumpInv'
  <2>1. /\ run_depth' = run_depth + 1
        /\ run_depth \in Nat /\ run_depth' \in Depth
        /\ state' = [state EXCEPT ![run_depth + 1] = AutoRunState(quit)]
        /\ ~quit => nestable_tasks_allowed
        /\ UNCHANGED nestable_tasks_allowed
    BY <1>5, ConstantsAssumption DEF Run, TypeOK, Depth
  <2>2. Top'.pc = "work" /\ Top'.quit = quit
    BY <2>1 DEF TypeOK, Top, AutoRunState
  <2>3. \A d \in Depth : d < run_depth' => state'[d].pc = "task"
    <3>1. \A d \in Depth : d < run_depth => state'[d].pc = "task"
      BY <1>1, <2>1 DEF OuterRunsInTask, Depth, TypeOK
    <3>2. run_depth > 0 => state'[run_depth].pc = "task"
      BY <1>5, <2>1 DEF Run, InTask, OutsideRun, Top, TypeOK
    <3> QED BY <2>1, <3>1, <3>2 DEF Depth
  <2> QED BY <2>1, <2>2, <2>3
          DEF PumpInv, OuterRunsInTask, WakeupPending, Looked, Armed,
              WaitsOnlyToGoOn
<1>6. CASE Quit
  BY <1>1, <1>6, ClientKeepsTurn DEF Quit, TypeOK, RunState, Depth
<1>7. CASE QuitNow
  BY <1>1, <1>7, ClientKeepsTurn DEF QuitNow
<1>8. ASSUME NEW allowed \in BOOLEAN, SetNestableTasksAllowed(allowed)
      PROVE  PumpInv'
  BY <1>1, <1>8, ClientKeepsTurn DEF SetNestableTasksAllowed
<1>9. CASE TaskReturns
  <2>1. run_depth > 0 /\ nestable_tasks_allowed' = TRUE
    BY <1>9 DEF TaskReturns, InTask
  <2>2. CASE PumpReturns
    BY <1>1, <2>1, <2>2, AfterPumpReturns
  <2>3. ASSUME NEW pc, NEW did, GoTo(pc, did),
               pc = "work" \/ (pc = "delayed" /\ did = TRUE)
        PROVE  PumpInv'
    BY <1>1, <2>1, <2>3, AfterGoTo
       DEF PumpInv, OuterRunsInTask, WakeupPending, Looked, Armed,
           WaitsOnlyToGoOn
  <2> QED BY <1>9, <2>2, <2>3 DEF TaskReturns, HandlerReturns
<1>10. CASE DoWorkRefused
  <2>1. /\ run_depth > 0 /\ Top.pc = "work" /\ ~nestable_tasks_allowed
        /\ UNCHANGED nestable_tasks_allowed
    BY <1>10 DEF DoWorkRefused, At
  <2>2. Top.quit
    BY <2>1, <1>1 DEF OuterRunsInTask
  <2>3. CASE PumpReturns
    BY <1>1, <2>1, <2>3, AfterPumpReturns
  <2>4. CASE GoTo("delayed", FALSE)
    <3>1. /\ run_depth' = run_depth
          /\ Top'.pc = "delayed" /\ Top'.quit = Top.quit
          /\ \A d \in Depth : d < run_depth' => state'[d].pc = "task"
      BY <1>1, <2>1, <2>4, AfterGoTo
    <3> QED BY <2>1, <2>2, <3>1
            DEF PumpInv, OuterRunsInTask, WakeupPending, Looked, Armed,
                WaitsOnlyToGoOn
  <2> QED BY <1>10, <2>3, <2>4 DEF DoWorkRefused, HandlerReturns
<1>11. CASE ReloadWorkQueue
  BY <1>1, <1>11
     DEF ReloadWorkQueue, InDoWork, At, PumpInv, OuterRunsInTask, WakeupPending,
         Looked, Armed, WaitsOnlyToGoOn, Top
<1>12. CASE DoWorkDone
  <2>1. /\ run_depth > 0 /\ nestable_tasks_allowed
        /\ work_queue = <<>> /\ incoming_queue = <<>>
        /\ UNCHANGED <<nestable_tasks_allowed, work_queue, incoming_queue>>
    BY <1>12 DEF DoWorkDone, InDoWork, At, shared, queues
  <2>2. CASE PumpReturns
    BY <1>1, <2>1, <2>2, AfterPumpReturns
  <2>3. CASE GoTo("delayed", FALSE)
    BY <1>1, <2>1, <2>3, AfterGoTo
       DEF PumpInv, OuterRunsInTask, WakeupPending, Looked, Armed,
           WaitsOnlyToGoOn
  <2> QED BY <1>12, <2>2, <2>3 DEF DoWorkDone, HandlerReturns
<1>13. CASE DoWorkDelayed
  BY <1>1, <1>13
     DEF DoWorkDelayed, InDoWork, At, PumpInv, OuterRunsInTask, WakeupPending,
         Looked, Armed, WaitsOnlyToGoOn, Top
<1>14. CASE DoWorkImmediate
  <2> DEFINE h == Head(work_queue)
  <2>1. /\ run_depth > 0 /\ Top.pc = "work" /\ nestable_tasks_allowed
        /\ h \in Task
    BY <1>14 DEF DoWorkImmediate, InDoWork, At, TypeOK
  <2>2. CASE RunTask(h, "work")
    BY <1>1, <2>1, <2>2, AfterRunTask
  <2>3. CASE UNCHANGED <<state, run_depth, nestable_tasks_allowed>>
    BY <1>1, <2>1, <2>3
       DEF PumpInv, OuterRunsInTask, WakeupPending, Looked, Armed,
           WaitsOnlyToGoOn, Top
  <2> QED BY <1>14, <2>2, <2>3 DEF DoWorkImmediate, DeferOrRunPendingTask
<1>15. CASE DoDelayedWorkNone
  BY <1>15, AfterDelayedIdle DEF DoDelayedWorkNone, shared, queues
<1>16. ASSUME NEW t \in Task, DoDelayedWorkNotYet(t) PROVE PumpInv'
  <2>1. /\ t \in delayed_work_queue
        /\ \A u \in delayed_work_queue : pending_task[t].delayed_run_time
                                           <= pending_task[u].delayed_run_time
    BY <1>16, TopIsEarliest
       DEF DoDelayedWorkNotYet, InDoDelayedWork, IsTop, TypeOK
  <2>2. pending_task[t].delayed_run_time # Null
    BY <2>1 DEF QueuedWasPosted
  <2> QED BY <1>16, <2>1, <2>2, AfterDelayedIdle
          DEF DoDelayedWorkNotYet, InDoDelayedWork, shared, queues
<1>17. ASSUME NEW t \in Task, DoDelayedWorkDue(t) PROVE PumpInv'
  <2>1. /\ At("delayed") /\ run_depth > 0
        /\ delayed_work_queue' \subseteq delayed_work_queue
        /\ delayed_work_queue' \in SUBSET Task
        /\ UNCHANGED <<incoming_queue, event, posting, work_queue, pending_task>>
    BY <1>17 DEF DoDelayedWorkDue, InDoDelayedWork, At, shared, TypeOK
  <2>2. CASE RunTask(t, "delayed")
    BY <1>1, <2>1, <2>2, AfterRunTask
  <2>3. CASE DelayedIdle /\ UNCHANGED nestable_tasks_allowed
    <3>1. ASSUME NEW u \in delayed_work_queue',
                 IsTop(pending_task, delayed_work_queue', u),
                 delayed_work_time' = pending_task[u].delayed_run_time
          PROVE  \A v \in delayed_work_queue' :
                   /\ delayed_work_time' # Null
                   /\ delayed_work_time' <= pending_task'[v].delayed_run_time
      <4>1. \A v \in delayed_work_queue' : pending_task[u].delayed_run_time
                                             <= pending_task[v].delayed_run_time
        BY <2>1, <3>1, TopIsEarliest
      <4>2. pending_task[u].delayed_run_time # Null
        BY <2>1, <3>1 DEF QueuedWasPosted
      <4> QED BY <2>1, <3>1, <4>1, <4>2
    <3>2. \A v \in delayed_work_queue' :
            /\ delayed_work_time' # Null
            /\ delayed_work_time' <= pending_task'[v].delayed_run_time
      BY <1>17, <3>1 DEF DoDelayedWorkDue
    <3> QED BY <2>1, <2>3, <3>2, AfterDelayedIdle
  <2> QED BY <1>17, <2>2, <2>3 DEF DoDelayedWorkDue, DeferOrRunPendingTask
<1>18. CASE ProcessNextDelayedNonNestableTask
  <2>1. /\ run_depth > 0
        /\ Head(deferred_non_nestable_work_queue) \in Task
    BY <1>18 DEF ProcessNextDelayedNonNestableTask, MayRunDeferred, At, TypeOK
  <2> QED BY <1>1, <1>18, <2>1, AfterRunTask
          DEF ProcessNextDelayedNonNestableTask
<1>19. CASE DoIdleWorkQuits
  BY <1>1, <1>19, AfterPumpReturns DEF DoIdleWorkQuits, At
<1>20. CASE DoIdleWorkNone
  <2>1. run_depth > 0 /\ Top.pc = "idle" /\ ~Top.quit
    BY <1>20 DEF DoIdleWorkNone, At
  <2>2. nestable_tasks_allowed
    BY <1>1, <2>1 DEF OuterRunsInTask
  <2>3. CASE PumpReturns
    BY <1>1, <2>1, <2>3, AfterPumpReturns
  <2>4. CASE GoTo("wait", FALSE)
    <3>1. /\ run_depth' = run_depth
          /\ Top'.pc = "wait"
          /\ \A d \in Depth : d < run_depth' => state'[d].pc = "task"
      BY <1>1, <2>1, <2>4, AfterGoTo
    <3>2. WakeupPending'
      BY <1>20, <2>1, <3>1
         DEF DoIdleWorkNone, PumpInv, WakeupPending, Looked, Signaled, shared,
             queues
    <3>3. Armed'
      BY <1>20, <2>1, <3>1 DEF DoIdleWorkNone, PumpInv, Armed, shared, queues
    <3> QED BY <1>20, <2>2, <3>1, <3>2, <3>3
            DEF DoIdleWorkNone, PumpInv, OuterRunsInTask, WaitsOnlyToGoOn
  <2> QED BY <1>20, <2>3, <2>4 DEF DoIdleWorkNone, HandlerReturns
<1>21. CASE PumpDecidesToWait
  <2>1. run_depth > 0 /\ Top.pc = "wait" /\ nestable_tasks_allowed
    BY <1>21 DEF PumpDecidesToWait, At, PumpInv, WaitsOnlyToGoOn
  <2>2. CASE GoTo("work", FALSE)
    BY <1>1, <1>21, <2>1, <2>2, AfterGoTo
       DEF PumpDecidesToWait, PumpInv, OuterRunsInTask, WakeupPending, Looked,
           Armed, WaitsOnlyToGoOn
  <2>3. CASE GoTo("blocked", FALSE) /\ UNCHANGED delayed_work_time
    <3>1. /\ run_depth' = run_depth
          /\ Top'.pc = "blocked"
          /\ \A d \in Depth : d < run_depth' => state'[d].pc = "task"
      BY <1>1, <2>1, <2>3, AfterGoTo
    <3>2. WakeupPending'
      BY <1>21, <2>1, <3>1
         DEF PumpDecidesToWait, PumpInv, WakeupPending, Looked, Signaled, shared,
             queues
    <3>3. Armed'
      BY <1>21, <2>1, <2>3, <3>1
         DEF PumpDecidesToWait, PumpInv, Armed, shared, queues
    <3> QED BY <1>21, <2>1, <3>1, <3>2, <3>3
            DEF PumpDecidesToWait, PumpInv, OuterRunsInTask, WaitsOnlyToGoOn
  <2> QED BY <1>21, <2>2, <2>3 DEF PumpDecidesToWait
<1>22. ASSUME PumpWakes \/ PumpTimesOut PROVE PumpInv'
  <2>1. /\ run_depth > 0 /\ Top.pc = "blocked"
        /\ GoTo("work", FALSE)
        /\ UNCHANGED nestable_tasks_allowed
    BY <1>22 DEF PumpWakes, PumpTimesOut, At
  <2>2. nestable_tasks_allowed
    BY <2>1 DEF PumpInv, WaitsOnlyToGoOn
  <2> QED BY <1>1, <2>1, <2>2, AfterGoTo
          DEF PumpInv, OuterRunsInTask, WakeupPending, Looked, Armed,
              WaitsOnlyToGoOn
<1>23. CASE Tick \/ UNCHANGED vars
  <2>1. UNCHANGED <<run_depth, state, nestable_tasks_allowed, work_queue,
                    delayed_work_queue, delayed_work_time, pending_task,
                    incoming_queue, event, posting>>
    BY <1>23 DEF Tick, vars, shared, queues
  <2>2. Looked /\ incoming_queue' # <<>> => Signaled'
    BY <2>1 DEF PumpInv, WakeupPending, Signaled
  <2> QED BY <2>1, <2>2, PumpUnchanged
<1> QED
  BY <1>2, <1>3, <1>4, <1>5, <1>6, <1>7, <1>8, <1>9, <1>10, <1>11, <1>12, <1>13,
     <1>14, <1>15, <1>16, <1>17, <1>18, <1>19, <1>20, <1>21, <1>22, <1>23
  DEF Next, Client, Post, Pump, DoWork, DoDelayedWork, DoIdleWork, PumpWaits

-----------------------------------------------------------------------------

LEMMA Invariance == Spec => [](TypeOK /\ IInv)
<1>1. Init => QueuedWasPosted
  BY EmptyInQueue DEF Init, QueuedWasPosted, AllPosted
<1>2. Init => PumpInv
  <2> SUFFICES ASSUME Init PROVE PumpInv
    OBVIOUS
  <2>1. run_depth = 0
    BY DEF Init
  <2>2. \A d \in Depth : ~(d < run_depth)
    BY <2>1 DEF Depth
  <2> QED BY <2>1, <2>2, NotTurning
<1>3. TypeOK /\ IInv /\ [Next]_vars => IInv'
  BY QueuedInductive, PumpInductive DEF IInv
<1> QED BY <1>1, <1>2, <1>3, TypeCorrect, PTL DEF Spec, IInv

\* A pump blocked in WaitForSingleObject has its event signaled, or a poster
\* about to signal it, whenever the incoming queue holds a task, although
\* AddToIncomingQueue signals only for the first task of an empty queue.
THEOREM PumpIsWoken == Spec => []NoLostWakeup
<1>1. IInv => NoLostWakeup
  BY DEF IInv, PumpInv, WakeupPending, WaitsOnlyToGoOn, Looked, NoLostWakeup, At,
         Signaled
<1> QED BY <1>1, Invariance, PTL

\* A blocked pump has nothing left in its work queue and sleeps no longer than
\* the earliest delayed task, whatever nested runs did to the one
\* delayed_work_time_ they share.
THEOREM PumpIsArmed == Spec => []TimerArmed
<1>1. IInv => TimerArmed
  BY DEF IInv, PumpInv, WakeupPending, Armed, WaitsOnlyToGoOn, Looked, TimerArmed,
         At
<1> QED BY <1>1, Invariance, PTL

-----------------------------------------------------------------------------
(* Each task once *)

PostedOnce == \A i, j \in DOMAIN posted : posted[i] = posted[j] => i = j

StartedWasPosted == \A t \in started : InQueue(posted, t)

\* A task on its way to the incoming queue is in no queue yet, and one thread
\* has it.
PushedIsNew ==
  \A th \in Thread : posting[th].pc = "push" =>
    /\ ~InQueue(posted, posting[th].task)
    /\ \A other \in Thread \ {th} :
         posting[other].pc = "push" => posting[other].task # posting[th].task

PlacesInv == PostedOnce /\ StartedWasPosted /\ PushedIsNew /\ EachTaskOnce

\* A queue counts a task once more when the task is appended, and once less
\* when it is taken from the front.
LEMMA CountFinite ==
  ASSUME NEW S, NEW q \in Seq(S), NEW t
  PROVE  /\ IsFiniteSet({i \in DOMAIN q : q[i] = t})
         /\ CountIn(q, t) \in Nat
         /\ CountIn(q, t) = 0 <=> ~InQueue(q, t)
<1>1. IsFiniteSet(1 .. Len(q)) /\ DOMAIN q = 1 .. Len(q)
  BY FS_Interval
<1>2. IsFiniteSet({i \in DOMAIN q : q[i] = t})
  BY <1>1, FS_Subset
<1>3. {i \in DOMAIN q : q[i] = t} = {} <=> ~InQueue(q, t)
  BY DEF InQueue, Range
<1> QED BY <1>2, <1>3, FS_CardinalityType, FS_EmptySet DEF CountIn

LEMMA CountEmpty == \A t : CountIn(<<>>, t) = 0
<1> TAKE t
<1>1. {i \in DOMAIN <<>> : <<>>[i] = t} = {}
  OBVIOUS
<1> QED BY <1>1, FS_EmptySet DEF CountIn

LEMMA CountAppend ==
  ASSUME NEW S, NEW q \in Seq(S), NEW x \in S, NEW t
  PROVE  CountIn(Append(q, x), t) = CountIn(q, t) + (IF x = t THEN 1 ELSE 0)
<1> DEFINE A == {i \in DOMAIN q : q[i] = t}
           B == {i \in DOMAIN Append(q, x) : Append(q, x)[i] = t}
<1>1. /\ DOMAIN q = 1..Len(q)
      /\ DOMAIN Append(q, x) = 1..(Len(q) + 1)
      /\ Len(q) \in Nat
      /\ \A i \in 1..Len(q) : Append(q, x)[i] = q[i]
      /\ Append(q, x)[Len(q) + 1] = x
  OBVIOUS
<1>2. B = IF x = t THEN A \union {Len(q) + 1} ELSE A
  BY <1>1
<1>3. Len(q) + 1 \notin A
  BY <1>1
<1>4. IsFiniteSet(A) /\ Cardinality(A) \in Nat
  BY CountFinite, FS_CardinalityType
<1>5. CountIn(q, t) = Cardinality(A) /\ CountIn(Append(q, x), t) = Cardinality(B)
  BY DEF CountIn
<1> HIDE DEF A, B
<1>6. Cardinality(A \union {Len(q) + 1}) = Cardinality(A) + 1
  BY <1>3, <1>4, FS_AddElement
<1> QED BY <1>2, <1>4, <1>5, <1>6

LEMMA CountTail ==
  ASSUME NEW S, NEW q \in Seq(S), q # <<>>, NEW t
  PROVE  CountIn(Tail(q), t) + (IF Head(q) = t THEN 1 ELSE 0) = CountIn(q, t)
<1> DEFINE A == {i \in DOMAIN q : q[i] = t}
           B == {i \in DOMAIN Tail(q) : Tail(q)[i] = t}
           f == [i \in B |-> i + 1]
<1>1. /\ DOMAIN q = 1..Len(q)
      /\ DOMAIN Tail(q) = 1..(Len(q) - 1)
      /\ Len(q) \in Nat /\ Len(q) > 0
      /\ \A i \in 1..(Len(q) - 1) : Tail(q)[i] = q[i + 1]
      /\ Head(q) = q[1]
      /\ Tail(q) \in Seq(S)
  OBVIOUS
<1>2. \A i \in B : i \in 1 .. Len(q) - 1 /\ f[i] = i + 1
  BY <1>1
<1>3. \A i \in B : f[i] \in A \ {1}
  BY <1>1, <1>2
<1>4. \A j \in A \ {1} : j - 1 \in B /\ f[j - 1] = j
  BY <1>1
<1>5. ExistsBijection(B, A \ {1})
  <2>1. f \in [B -> A \ {1}]
    BY <1>3
  <2>2. \A i, j \in B : f[i] = f[j] => i = j
    BY <1>2
  <2>3. \A j \in A \ {1} : \E i \in B : f[i] = j
    BY <1>4
  <2>4. f \in Bijection(B, A \ {1})
    BY <2>1, <2>2, <2>3 DEF Bijection, Injection, Surjection, IsInjective
  <2> QED BY <2>4 DEF ExistsBijection
<1>6. IsFiniteSet(A) /\ IsFiniteSet(B)
  BY <1>1, CountFinite
<1>7. Cardinality(A \ {1}) = Cardinality(B)
  BY <1>5, <1>6, FS_Bijection
<1>8. 1 \in A <=> Head(q) = t
  BY <1>1
<1>9. Cardinality(A) \in Nat /\ Cardinality(B) \in Nat
  BY <1>6, FS_CardinalityType
<1>10. Cardinality(A \ {1}) = IF 1 \in A THEN Cardinality(A) - 1 ELSE Cardinality(A)
  BY <1>6, FS_RemoveElement
<1>11. CountIn(q, t) = Cardinality(A) /\ CountIn(Tail(q), t) = Cardinality(B)
  BY DEF CountIn
<1> HIDE DEF A, B
<1> QED BY <1>7, <1>8, <1>9, <1>10, <1>11

LEMMA CountOfTail ==
  ASSUME NEW S, NEW q \in Seq(S), q # <<>>, NEW t
  PROVE  CountIn(Tail(q), t) \in Nat
<1>1. Tail(q) \in Seq(S)
  OBVIOUS
<1> QED BY <1>1, CountFinite

\* Where a task is, told by the counts.
LEMMA Placed ==
  ASSUME TypeOK, EachTaskOnce, NEW t \in Task
  PROVE  /\ CountIn(incoming_queue, t) \in Nat
         /\ CountIn(work_queue, t) \in Nat
         /\ CountIn(deferred_non_nestable_work_queue, t) \in Nat
         /\ CountIn(incoming_queue, t) + CountIn(work_queue, t)
              + CountIn(deferred_non_nestable_work_queue, t)
              + (IF t \in delayed_work_queue THEN 1 ELSE 0)
              = IF InQueue(posted, t) /\ t \notin started THEN 1 ELSE 0
         /\ CountIn(incoming_queue, t) > 0 <=> InQueue(incoming_queue, t)
         /\ CountIn(work_queue, t) > 0 <=> InQueue(work_queue, t)
         /\ CountIn(deferred_non_nestable_work_queue, t) > 0
              <=> InQueue(deferred_non_nestable_work_queue, t)
<1>1. /\ incoming_queue \in Seq(Task)
      /\ work_queue \in Seq(Task)
      /\ deferred_non_nestable_work_queue \in Seq(Task)
  BY DEF TypeOK
<1>2. \A q \in Seq(Task) : /\ CountIn(q, t) \in Nat
                           /\ CountIn(q, t) > 0 <=> InQueue(q, t)
  <2> TAKE q \in Seq(Task)
  <2>1. CountIn(q, t) \in Nat /\ (CountIn(q, t) = 0 <=> ~InQueue(q, t))
    BY CountFinite
  <2> QED BY <2>1
<1>3. CountIn(incoming_queue, t) + CountIn(work_queue, t)
        + CountIn(deferred_non_nestable_work_queue, t)
        + (IF t \in delayed_work_queue THEN 1 ELSE 0)
        = IF InQueue(posted, t) /\ t \notin started THEN 1 ELSE 0
  BY DEF EachTaskOnce
<1> QED BY <1>1, <1>2, <1>3

\* A waiting task was posted, has not started and waits nowhere else.
LEMMA WaitsOnce ==
  ASSUME TypeOK, EachTaskOnce, NEW t \in Task
  PROVE  /\ \/ InQueue(incoming_queue, t) \/ InQueue(work_queue, t)
            \/ InQueue(deferred_non_nestable_work_queue, t)
            \/ t \in delayed_work_queue
            <=> InQueue(posted, t) /\ t \notin started
         /\ InQueue(incoming_queue, t) =>
              /\ ~InQueue(work_queue, t)
              /\ ~InQueue(deferred_non_nestable_work_queue, t)
              /\ t \notin delayed_work_queue
         /\ InQueue(work_queue, t) =>
              /\ ~InQueue(deferred_non_nestable_work_queue, t)
              /\ t \notin delayed_work_queue
         /\ InQueue(deferred_non_nestable_work_queue, t) =>
              t \notin delayed_work_queue
BY Placed

\* The steps that move no task, and start none.
NoTaskMoves ==
  UNCHANGED <<incoming_queue, work_queue, delayed_work_queue,
              deferred_non_nestable_work_queue, posted, started>>

LEMMA OtherSteps ==
  ASSUME [Next]_vars,
         ~ \E th \in Thread : AddToIncomingQueue(th),
         ~ReloadWorkQueue, ~DoWorkDelayed, ~DoWorkImmediate,
         ~ \E t \in Task : DoDelayedWorkDue(t),
         ~ProcessNextDelayedNonNestableTask
  PROVE  NoTaskMoves
BY DEF Next, vars, shared, queues, Client, PostTask, Run, Quit, QuitNow,
       SetNestableTasksAllowed, Post, ScheduleWork, Pump, TaskReturns, DoWork,
       DoWorkRefused, DoWorkDone, DoDelayedWork, DoDelayedWorkNone,
       DoDelayedWorkNotYet, DoIdleWork, DoIdleWorkQuits, DoIdleWorkNone,
       PumpWaits, PumpDecidesToWait, PumpWakes, PumpTimesOut, Tick, NoTaskMoves

\* The steps that are neither of a poster nor of a call of Post*Task.
LEMMA PostingUnchanged ==
  ASSUME [Next]_vars,
         ~ \E th \in Thread : AddToIncomingQueue(th) \/ ScheduleWork(th),
         ~ \E th \in Thread, t \in Task, closure \in Closure, delay \in Delays,
              nestable \in BOOLEAN : PostTask(th, t, closure, delay, nestable)
  PROVE  UNCHANGED posting
BY DEF Next, vars, shared, queues, Client, Run, Quit, QuitNow,
       SetNestableTasksAllowed, Post, Pump, TaskReturns, DoWork, ReloadWorkQueue,
       DoWorkDelayed, DoWorkImmediate, DoDelayedWorkDue,
       ProcessNextDelayedNonNestableTask,
       DoWorkRefused, DoWorkDone, DoDelayedWork, DoDelayedWorkNone,
       DoDelayedWorkNotYet, DoIdleWork, DoIdleWorkQuits, DoIdleWorkNone,
       PumpWaits, PumpDecidesToWait, PumpWakes, PumpTimesOut, Tick

\* What a task leaves by and what it comes to, elsewhere.
LEMMA DeferredOrStarted ==
  ASSUME NEW t, NEW handler, NEW ACTION next,
         DeferOrRunPendingTask(t, handler, next)
  PROVE  \/ /\ MayRun(t) /\ RunTask(t, handler)
            /\ started' = started \union {t}
            /\ UNCHANGED deferred_non_nestable_work_queue
         \/ /\ ~MayRun(t)
            /\ UNCHANGED <<started, nestable_tasks_allowed>>
            /\ deferred_non_nestable_work_queue' =
                 Append(deferred_non_nestable_work_queue, t)
            /\ next
BY DEF DeferOrRunPendingTask, RunTask

\* EachTaskOnce, for a task t that leaves one place and goes to another.
LEMMA EachTaskOnceMoves ==
  ASSUME TypeOK, EachTaskOnce, [Next]_vars,
         ~ \E th \in Thread : AddToIncomingQueue(th)
  PROVE  EachTaskOnce'
<1>1. /\ incoming_queue \in Seq(Task) /\ work_queue \in Seq(Task)
      /\ deferred_non_nestable_work_queue \in Seq(Task)
  BY DEF TypeOK
<1>2. CASE ReloadWorkQueue
  <2>1. /\ work_queue = <<>> /\ work_queue' = incoming_queue
        /\ incoming_queue' = <<>>
        /\ UNCHANGED <<deferred_non_nestable_work_queue, delayed_work_queue,
                       posted, started>>
    BY <1>2 DEF ReloadWorkQueue
  <2> SUFFICES ASSUME NEW t \in Task
               PROVE  CountIn(incoming_queue', t) + CountIn(work_queue', t)
                        + CountIn(deferred_non_nestable_work_queue, t)
                        + (IF t \in delayed_work_queue THEN 1 ELSE 0)
                        = IF InQueue(posted, t) /\ t \notin started THEN 1 ELSE 0
    BY <2>1 DEF EachTaskOnce
  <2>2. CountIn(work_queue, t) = 0 /\ CountIn(incoming_queue', t) = 0
    BY <2>1, CountEmpty
  <2> QED BY <2>1, <2>2, Placed
<1>3. CASE DoWorkDelayed
  <2>1. PICK h \in Task : h = Head(work_queue)
    BY <1>1, <1>3 DEF DoWorkDelayed
  <2>2. /\ work_queue # <<>> /\ work_queue' = Tail(work_queue)
        /\ delayed_work_queue' = delayed_work_queue \union {h}
        /\ UNCHANGED <<incoming_queue, deferred_non_nestable_work_queue,
                       posted, started>>
    BY <1>3, <2>1 DEF DoWorkDelayed, shared
  <2> SUFFICES ASSUME NEW t \in Task
               PROVE  CountIn(incoming_queue, t) + CountIn(work_queue', t)
                        + CountIn(deferred_non_nestable_work_queue, t)
                        + (IF t \in delayed_work_queue' THEN 1 ELSE 0)
                        = IF InQueue(posted, t) /\ t \notin started THEN 1 ELSE 0
    BY <2>2 DEF EachTaskOnce
  <2>3. CountIn(work_queue', t) + (IF h = t THEN 1 ELSE 0) = CountIn(work_queue, t)
    BY <1>1, <2>1, <2>2, CountTail
  <2>4. CountIn(work_queue', t) \in Nat
    BY <1>1, <2>2, CountOfTail
  <2>5. /\ CountIn(incoming_queue, t) \in Nat /\ CountIn(work_queue, t) \in Nat
        /\ CountIn(deferred_non_nestable_work_queue, t) \in Nat
        /\ CountIn(incoming_queue, t) + CountIn(work_queue, t)
             + CountIn(deferred_non_nestable_work_queue, t)
             + (IF t \in delayed_work_queue THEN 1 ELSE 0)
             = IF InQueue(posted, t) /\ t \notin started THEN 1 ELSE 0
    BY Placed
  <2>6. CASE h = t
    <3>1. CountIn(work_queue', t) + 1 = CountIn(work_queue, t)
      BY <2>3, <2>6
    <3>2. t \notin delayed_work_queue
      BY <2>4, <2>5, <3>1
    <3>3. t \in delayed_work_queue'
      BY <2>2, <2>6
    <3> QED BY <2>2, <2>4, <2>5, <3>1, <3>2, <3>3
  <2>7. CASE h # t
    <3>1. CountIn(work_queue', t) = CountIn(work_queue, t)
      BY <2>3, <2>4, <2>7
    <3>2. t \in delayed_work_queue' <=> t \in delayed_work_queue
      BY <2>2, <2>7
    <3> QED BY <2>2, <2>5, <3>1, <3>2
  <2> QED BY <2>6, <2>7
<1>4. CASE DoWorkImmediate
  <2>1. PICK h \in Task : h = Head(work_queue)
    BY <1>1, <1>4 DEF DoWorkImmediate
  <2>2. /\ work_queue # <<>> /\ work_queue' = Tail(work_queue)
        /\ UNCHANGED <<incoming_queue, delayed_work_queue, posted>>
    BY <1>4, <2>1 DEF DoWorkImmediate, shared
  <2>3. \/ started' = started \union {h} /\ UNCHANGED deferred_non_nestable_work_queue
        \/ /\ UNCHANGED started
           /\ deferred_non_nestable_work_queue' =
                Append(deferred_non_nestable_work_queue, h)
    BY <1>4, <2>1, DeferredOrStarted DEF DoWorkImmediate
  <2> SUFFICES ASSUME NEW t \in Task
               PROVE  CountIn(incoming_queue, t) + CountIn(work_queue', t)
                        + CountIn(deferred_non_nestable_work_queue', t)
                        + (IF t \in delayed_work_queue THEN 1 ELSE 0)
                        = IF InQueue(posted, t) /\ t \notin started' THEN 1 ELSE 0
    BY <2>2 DEF EachTaskOnce
  <2>4. CountIn(work_queue', t) + (IF h = t THEN 1 ELSE 0) = CountIn(work_queue, t)
    BY <1>1, <2>1, <2>2, CountTail
  <2>5. CountIn(work_queue', t) \in Nat
    BY <1>1, <2>2, CountOfTail
  <2>6. CountIn(Append(deferred_non_nestable_work_queue, h), t) =
           CountIn(deferred_non_nestable_work_queue, t) + (IF h = t THEN 1 ELSE 0)
    BY <1>1, CountAppend
  <2>7. \/ /\ started' = started \union {h}
           /\ CountIn(deferred_non_nestable_work_queue', t) =
                CountIn(deferred_non_nestable_work_queue, t)
        \/ /\ UNCHANGED started
           /\ CountIn(deferred_non_nestable_work_queue', t) =
                CountIn(deferred_non_nestable_work_queue, t)
                  + (IF h = t THEN 1 ELSE 0)
    BY <2>3, <2>6
  <2> QED BY <2>4, <2>5, <2>7, Placed
<1>5. ASSUME NEW h \in Task, DoDelayedWorkDue(h) PROVE EachTaskOnce'
  <2>1. /\ h \in delayed_work_queue
        /\ delayed_work_queue' = delayed_work_queue \ {h}
        /\ UNCHANGED <<incoming_queue, work_queue, posted>>
    BY <1>5 DEF DoDelayedWorkDue, InDoDelayedWork, IsTop, shared
  <2>2. \/ started' = started \union {h} /\ UNCHANGED deferred_non_nestable_work_queue
        \/ /\ UNCHANGED started
           /\ deferred_non_nestable_work_queue' =
                Append(deferred_non_nestable_work_queue, h)
    BY <1>5, DeferredOrStarted DEF DoDelayedWorkDue
  <2> SUFFICES ASSUME NEW t \in Task
               PROVE  CountIn(incoming_queue, t) + CountIn(work_queue, t)
                        + CountIn(deferred_non_nestable_work_queue', t)
                        + (IF t \in delayed_work_queue' THEN 1 ELSE 0)
                        = IF InQueue(posted, t) /\ t \notin started' THEN 1 ELSE 0
    BY <2>1 DEF EachTaskOnce
  <2>3. CountIn(Append(deferred_non_nestable_work_queue, h), t) =
           CountIn(deferred_non_nestable_work_queue, t) + (IF h = t THEN 1 ELSE 0)
    BY <1>1, CountAppend
  <2>4. \/ /\ started' = started \union {h}
           /\ CountIn(deferred_non_nestable_work_queue', t) =
                CountIn(deferred_non_nestable_work_queue, t)
        \/ /\ UNCHANGED started
           /\ CountIn(deferred_non_nestable_work_queue', t) =
                CountIn(deferred_non_nestable_work_queue, t)
                  + (IF h = t THEN 1 ELSE 0)
    BY <2>2, <2>3
  <2> QED BY <2>1, <2>4, Placed
<1>6. CASE ProcessNextDelayedNonNestableTask
  <2> DEFINE q == deferred_non_nestable_work_queue
  <2>1. PICK h \in Task : h = Head(q)
    BY <1>1, <1>6 DEF ProcessNextDelayedNonNestableTask, MayRunDeferred
  <2>2. /\ q # <<>>
        /\ deferred_non_nestable_work_queue' = Tail(q)
        /\ started' = started \union {h}
        /\ UNCHANGED <<incoming_queue, work_queue, delayed_work_queue, posted>>
    BY <1>6, <2>1
       DEF ProcessNextDelayedNonNestableTask, MayRunDeferred, RunTask, shared
  <2> SUFFICES ASSUME NEW t \in Task
               PROVE  CountIn(incoming_queue, t) + CountIn(work_queue, t)
                        + CountIn(deferred_non_nestable_work_queue', t)
                        + (IF t \in delayed_work_queue THEN 1 ELSE 0)
                        = IF InQueue(posted, t) /\ t \notin started' THEN 1 ELSE 0
    BY <2>2 DEF EachTaskOnce
  <2>3. CountIn(deferred_non_nestable_work_queue', t) + (IF h = t THEN 1 ELSE 0)
          = CountIn(q, t)
    BY <1>1, <2>1, <2>2, CountTail
  <2>4. CountIn(deferred_non_nestable_work_queue', t) \in Nat
    BY <1>1, <2>2, CountOfTail
  <2>5. /\ CountIn(incoming_queue, t) \in Nat /\ CountIn(work_queue, t) \in Nat
        /\ CountIn(q, t) \in Nat
        /\ CountIn(incoming_queue, t) + CountIn(work_queue, t) + CountIn(q, t)
             + (IF t \in delayed_work_queue THEN 1 ELSE 0)
             = IF InQueue(posted, t) /\ t \notin started THEN 1 ELSE 0
    BY Placed
  <2>6. CASE h = t
    <3>1. CountIn(deferred_non_nestable_work_queue', t) + 1 = CountIn(q, t)
      BY <2>3, <2>6
    <3>2. t \in started'
      BY <2>2, <2>6
    <3> QED BY <2>2, <2>4, <2>5, <3>1, <3>2
  <2>7. CASE h # t
    <3>1. CountIn(deferred_non_nestable_work_queue', t) = CountIn(q, t)
      BY <2>3, <2>4, <2>7
    <3>2. t \in started' <=> t \in started
      BY <2>2, <2>7
    <3> QED BY <2>2, <2>5, <3>1, <3>2
  <2> QED BY <2>6, <2>7
<1>7. CASE NoTaskMoves
  BY <1>7 DEF NoTaskMoves, EachTaskOnce
<1> QED BY <1>2, <1>3, <1>4, <1>5, <1>6, <1>7, OtherSteps

LEMMA PlacesInductive ==
  TypeOK /\ PlacesInv /\ [Next]_vars => PlacesInv'
<1> SUFFICES ASSUME TypeOK, PostedOnce, StartedWasPosted, PushedIsNew,
                    EachTaskOnce, [Next]_vars
             PROVE  PlacesInv'
  BY DEF PlacesInv
<1>1. /\ incoming_queue \in Seq(Task) /\ work_queue \in Seq(Task)
      /\ deferred_non_nestable_work_queue \in Seq(Task)
      /\ posted \in Seq(Task)
      /\ posting \in [Thread -> Posting]
  BY DEF TypeOK
<1>2. ASSUME NEW th \in Thread, AddToIncomingQueue(th) PROVE PlacesInv'
  <2>1. PICK x \in Task : x = posting[th].task
    BY <1>2, PushedTask DEF AddToIncomingQueue
  <2>2. /\ posting[th].pc = "push"
        /\ incoming_queue' = Append(incoming_queue, x)
        /\ posted' = Append(posted, x)
        /\ posting'[th].pc # "push"
        /\ \A other \in Thread \ {th} : posting'[other] = posting[other]
        /\ UNCHANGED <<work_queue, delayed_work_queue,
                       deferred_non_nestable_work_queue, started>>
    BY <1>1, <1>2, <2>1 DEF AddToIncomingQueue, queues, Idle
  <2>3. ~InQueue(posted, x) /\ x \notin started
    BY <2>1, <2>2 DEF PushedIsNew, StartedWasPosted
  <2>4. \A t : InQueue(posted', t) <=> InQueue(posted, t) \/ t = x
    BY <1>1, <2>2, AppendInQueue
  <2>5. PostedOnce'
    <3>1. /\ DOMAIN posted = 1..Len(posted)
          /\ DOMAIN posted' = 1..(Len(posted) + 1)
          /\ Len(posted) \in Nat
          /\ \A i \in 1..Len(posted) : posted'[i] = posted[i]
          /\ posted'[Len(posted) + 1] = x
      BY <1>1, <2>2
    <3>2. \A i \in 1..Len(posted) : posted[i] # x
      BY <2>3, <3>1 DEF InQueue, Range
    <3> QED BY <3>1, <3>2 DEF PostedOnce
  <2>6. StartedWasPosted'
    BY <2>2, <2>4 DEF StartedWasPosted
  <2>7. PushedIsNew'
    BY <2>1, <2>2, <2>4 DEF PushedIsNew
  <2>8. EachTaskOnce'
    <3> SUFFICES ASSUME NEW t \in Task
                 PROVE  CountIn(incoming_queue', t) + CountIn(work_queue, t)
                          + CountIn(deferred_non_nestable_work_queue, t)
                          + (IF t \in delayed_work_queue THEN 1 ELSE 0)
                          = IF InQueue(posted', t) /\ t \notin started THEN 1 ELSE 0
      BY <2>2 DEF EachTaskOnce
    <3>1. CountIn(incoming_queue', t) =
            CountIn(incoming_queue, t) + (IF x = t THEN 1 ELSE 0)
      BY <1>1, <2>2, CountAppend
    <3> QED BY <2>3, <2>4, <3>1, Placed
  <2> QED BY <2>5, <2>6, <2>7, <2>8 DEF PlacesInv
<1>3. CASE ~ \E th \in Thread : AddToIncomingQueue(th)
  <2>1. UNCHANGED posted
    BY <1>3, OtherSteps
       DEF NoTaskMoves, ReloadWorkQueue, DoWorkDelayed, DoWorkImmediate,
           DoDelayedWorkDue, ProcessNextDelayedNonNestableTask
  <2>2. PostedOnce'
    BY <2>1 DEF PostedOnce
  <2>3. EachTaskOnce'
    BY <1>3, EachTaskOnceMoves
  <2>4. StartedWasPosted'
    <3> SUFFICES ASSUME NEW t \in Task, t \in started', ~InQueue(posted, t)
                 PROVE  FALSE
      <4>1. started' \in SUBSET Task
        BY TypeInductive DEF TypeOK
      <4> QED BY <2>1, <4>1 DEF StartedWasPosted
    <3>1. t \notin started
      BY DEF StartedWasPosted
    <3>2. ASSUME NEW h \in Task,
                 \/ InQueue(work_queue, h)
                 \/ h \in delayed_work_queue
                 \/ InQueue(deferred_non_nestable_work_queue, h),
                 started' \subseteq started \union {h}
          PROVE  FALSE
      BY <3>1, <3>2, WaitsOnce
    <3>3. CASE DoWorkImmediate
      <4>1. /\ work_queue # <<>> /\ Head(work_queue) \in Task
            /\ InQueue(work_queue, Head(work_queue))
        BY <1>1, <3>3, HeadTailInQueue DEF DoWorkImmediate
      <4> QED BY <3>2, <3>3, <4>1, DeferredOrStarted DEF DoWorkImmediate
    <3>4. ASSUME NEW h \in Task, DoDelayedWorkDue(h) PROVE FALSE
      <4>1. h \in delayed_work_queue
        BY <3>4 DEF DoDelayedWorkDue, InDoDelayedWork, IsTop
      <4> QED BY <3>2, <3>4, <4>1, DeferredOrStarted DEF DoDelayedWorkDue
    <3>5. CASE ProcessNextDelayedNonNestableTask
      <4> DEFINE q == deferred_non_nestable_work_queue
      <4>1. q # <<>> /\ Head(q) \in Task /\ InQueue(q, Head(q))
        BY <1>1, <3>5, HeadTailInQueue
           DEF ProcessNextDelayedNonNestableTask, MayRunDeferred
      <4> QED BY <3>2, <3>5, <4>1 DEF ProcessNextDelayedNonNestableTask, RunTask
    <3>6. CASE ReloadWorkQueue \/ DoWorkDelayed \/ NoTaskMoves
      BY <3>1, <3>6 DEF ReloadWorkQueue, DoWorkDelayed, NoTaskMoves
    <3> QED BY <1>3, <3>3, <3>4, <3>5, <3>6, OtherSteps
  <2>5. PushedIsNew'
    <3>1. ASSUME NEW th \in Thread, ScheduleWork(th) PROVE PushedIsNew'
      BY <1>1, <2>1, <3>1 DEF ScheduleWork, PushedIsNew, Idle
    <3>2. ASSUME NEW th \in Thread, NEW t \in Task, NEW closure \in Closure,
                 NEW delay \in Delays, NEW nestable \in BOOLEAN,
                 PostTask(th, t, closure, delay, nestable)
          PROVE  PushedIsNew'
      <4>1. /\ posting'[th] = [pc |-> "push", task |-> t]
            /\ \A other \in Thread \ {th} : posting'[other] = posting[other]
            /\ ~InQueue(posted, t)
            /\ \A other \in Thread :
                 posting[other].pc = "push" => posting[other].task # t
        BY <1>1, <3>2 DEF PostTask, Unposted, InQueue
      <4> QED BY <2>1, <4>1 DEF PushedIsNew
    <3>3. CASE UNCHANGED posting
      BY <2>1, <3>3 DEF PushedIsNew
    <3> QED BY <1>3, <3>1, <3>2, <3>3, PostingUnchanged
  <2> QED BY <2>2, <2>3, <2>4, <2>5 DEF PlacesInv
<1> QED BY <1>2, <1>3

LEMMA PlacesInitially == Init => PlacesInv
<1> SUFFICES ASSUME Init PROVE PlacesInv
  OBVIOUS
<1>1. /\ incoming_queue = <<>> /\ work_queue = <<>> /\ posted = <<>>
      /\ deferred_non_nestable_work_queue = <<>>
      /\ delayed_work_queue = {} /\ started = {}
      /\ \A th \in Thread : posting[th].pc = "idle"
  BY DEF Init, Idle
<1>2. EachTaskOnce
  BY <1>1, CountEmpty, EmptyInQueue DEF EachTaskOnce
<1> QED BY <1>1, <1>2 DEF PlacesInv, PostedOnce, StartedWasPosted, PushedIsNew

LEMMA PlacesAlways == Spec => []PlacesInv
BY PlacesInitially, PlacesInductive, TypeCorrect, PTL DEF Spec

\* Swapping, delaying, deferring, nested runs: no task is lost and none is
\* queued or started twice.
THEOREM TasksAreKept == Spec => []EachTaskOnce
<1>1. PlacesInv => EachTaskOnce
  BY DEF PlacesInv
<1> QED BY <1>1, PlacesAlways, PTL

-----------------------------------------------------------------------------
(* Nested runs and quitting *)

\* Only the body of a task of an outer run forbids nestable tasks: DoIdleWork
\* may rely on it, it runs deferred tasks at depth 1 and never asks.
FlatRunMayNest ==
  run_depth = 0 \/ (run_depth = 1 /\ Top.pc # "task") => nestable_tasks_allowed

\* DoDelayedWork goes on to DoIdleWork only when no delayed task is due by the
\* time it read last. (In a nested run it does so, too, when it deferred one.)
LookedAtDelayed ==
  run_depth = 1 /\ Top.pc = "idle" =>
    \A t \in delayed_work_queue : pending_task[t].delayed_run_time > recent_time

FlatRunInv == FlatRunMayNest /\ LookedAtDelayed

\* A run that goes on, with another handler than DoIdleWork.
LEMMA FlatGoesOn ==
  ASSUME TypeOK, run_depth > 0, FlatRunMayNest, NEW pc, pc # "idle", NEW did,
         GoTo(pc, did), Top.pc # "task" \/ nestable_tasks_allowed',
         UNCHANGED nestable_tasks_allowed \/ nestable_tasks_allowed'
  PROVE  FlatRunInv'
<1>1. /\ run_depth' = run_depth /\ run_depth \in Depth
      /\ Top' = [pc |-> pc, from |-> "work", did |-> did, quit |-> Top.quit]
  BY ConstantsAssumption DEF TypeOK, GoTo, Top, Depth
<1> QED BY <1>1 DEF FlatRunInv, FlatRunMayNest, LookedAtDelayed

\* A run that ends lands in the body of a task, or outside Run with nestable
\* tasks allowed.
LEMMA FlatReturns ==
  ASSUME TypeOK, run_depth > 0, FlatRunMayNest, OuterRunsInTask, PumpReturns,
         Top.pc # "task" \/ nestable_tasks_allowed',
         UNCHANGED nestable_tasks_allowed \/ nestable_tasks_allowed'
  PROVE  FlatRunInv'
<1>1. /\ run_depth' = run_depth - 1 /\ run_depth \in Depth
      /\ run_depth \in Nat /\ MaxDepth \in Nat /\ run_depth <= MaxDepth
      /\ \A d \in Depth : d # run_depth => state'[d] = state[d]
  BY ConstantsAssumption DEF TypeOK, PumpReturns, Depth
<1>2. CASE run_depth = 1
  BY <1>1, <1>2 DEF FlatRunInv, FlatRunMayNest, LookedAtDelayed
<1>3. CASE run_depth > 1
  <2>1. run_depth' \in Depth /\ run_depth' # run_depth /\ run_depth' < run_depth
    BY <1>1, <1>3 DEF Depth
  <2>2. Top'.pc = "task" /\ run_depth' > 0
    BY <1>1, <1>3, <2>1 DEF OuterRunsInTask, Top
  <2> QED BY <2>2 DEF FlatRunInv, FlatRunMayNest, LookedAtDelayed
<1> QED BY <1>1, <1>2, <1>3

LEMMA FlatStarts ==
  ASSUME TypeOK, run_depth > 0, NEW t, NEW handler, RunTask(t, handler)
  PROVE  FlatRunInv'
<1>1. run_depth' = run_depth /\ run_depth \in Depth /\ Top'.pc = "task"
  BY ConstantsAssumption DEF TypeOK, RunTask, Top, Depth
<1> QED BY <1>1 DEF FlatRunInv, FlatRunMayNest, LookedAtDelayed

\* A step that leaves the pump alone and changes no queued PendingTask.
LEMMA FlatUnchanged ==
  ASSUME FlatRunInv,
         UNCHANGED <<run_depth, nestable_tasks_allowed, delayed_work_queue,
                     recent_time>>,
         Top' = Top,
         \A t \in delayed_work_queue : pending_task'[t] = pending_task[t]
  PROVE  FlatRunInv'
BY DEF FlatRunInv, FlatRunMayNest, LookedAtDelayed

\* DoDelayedWork answered false.
LEMMA FlatDelayedIdle ==
  ASSUME TypeOK, FlatRunMayNest, OuterRunsInTask, At("delayed"), DelayedIdle,
         UNCHANGED nestable_tasks_allowed,
         run_depth = 1 => \A t \in delayed_work_queue' :
           pending_task'[t].delayed_run_time > recent_time'
  PROVE  FlatRunInv'
<1>1. run_depth > 0 /\ Top.pc = "delayed"
  BY DEF At
<1>2. CASE PumpReturns
  BY <1>1, <1>2, FlatReturns
<1>3. CASE GoTo("work", FALSE)
  BY <1>1, <1>3, FlatGoesOn
<1>4. CASE GoTo("idle", FALSE)
  BY <1>1, <1>4, AfterGoTo DEF FlatRunInv, FlatRunMayNest, LookedAtDelayed
<1> QED BY <1>2, <1>3, <1>4 DEF DelayedIdle, HandlerReturns

LEMMA FlatRunInductive ==
  TypeOK /\ IInv /\ FlatRunInv /\ [Next]_vars => FlatRunInv'
<1> SUFFICES ASSUME TypeOK, QueuedWasPosted, OuterRunsInTask, FlatRunInv,
                    [Next]_vars
             PROVE  FlatRunInv'
  BY DEF IInv, PumpInv
<1>1. FlatRunMayNest
  BY DEF FlatRunInv
<1>2. ASSUME NEW th \in Thread, NEW t \in Task, NEW delay \in Delays,
             NEW nestable \in BOOLEAN, NEW closure \in Closure,
             PostTask(th, t, closure, delay, nestable)
      PROVE  FlatRunInv'
  <2>1. ~InQueue(posted, t)
    BY <1>2 DEF PostTask, Unposted, InQueue
  <2>2. \A u \in delayed_work_queue : pending_task'[u] = pending_task[u]
    BY <1>2, <2>1 DEF PostTask, QueuedWasPosted, TypeOK
  <2> QED BY <1>2, <2>2, FlatUnchanged DEF PostTask, queues, Top
<1>3. ASSUME NEW quit \in BOOLEAN, Run(quit) PROVE FlatRunInv'
  <2>1. /\ run_depth' = run_depth + 1
        /\ run_depth \in Nat /\ run_depth' \in Depth
        /\ state' = [state EXCEPT ![run_depth + 1] = AutoRunState(quit)]
        /\ UNCHANGED nestable_tasks_allowed
    BY <1>3, ConstantsAssumption DEF Run, TypeOK, Depth
  <2>2. Top'.pc = "work"
    BY <2>1 DEF TypeOK, Top, AutoRunState
  <2> QED BY <1>1, <2>1, <2>2 DEF FlatRunInv, FlatRunMayNest, LookedAtDelayed
<1>4. CASE Quit
  <2>1. run_depth \in Depth /\ run_depth > 0 /\ Top.pc = "task"
    BY <1>4 DEF TypeOK, Quit, InTask, Depth
  <2>2. run_depth' = run_depth /\ Top'.pc = "task"
    BY <1>4, <2>1 DEF TypeOK, Quit, Top, RunState
  <2> QED BY <2>1, <2>2 DEF FlatRunInv, FlatRunMayNest, LookedAtDelayed
<1>5. ASSUME NEW allowed \in BOOLEAN, SetNestableTasksAllowed(allowed)
      PROVE  FlatRunInv'
  <2>1. Top' = Top /\ Top.pc = "task" /\ UNCHANGED run_depth /\ run_depth > 0
    BY <1>5 DEF SetNestableTasksAllowed, InTask, Top
  <2> QED BY <2>1 DEF FlatRunInv, FlatRunMayNest, LookedAtDelayed
<1>6. ASSUME TaskReturns \/ DoWorkRefused \/ DoWorkDone PROVE FlatRunInv'
  <2>1. /\ run_depth > 0
        /\ Top.pc # "task" \/ nestable_tasks_allowed'
        /\ UNCHANGED nestable_tasks_allowed \/ nestable_tasks_allowed'
    BY <1>6 DEF TaskReturns, InTask, DoWorkRefused, DoWorkDone, InDoWork, At
  <2>2. PICK pc, did : pc # "idle" /\ HandlerReturns(pc, did)
    BY <1>6 DEF TaskReturns, DoWorkRefused, DoWorkDone
  <2>3. CASE PumpReturns
    BY <1>1, <2>1, <2>3, FlatReturns
  <2>4. CASE GoTo(pc, did)
    BY <1>1, <2>1, <2>2, <2>4, FlatGoesOn
  <2> QED BY <2>2, <2>3, <2>4 DEF HandlerReturns
<1>7. ASSUME ReloadWorkQueue \/ DoWorkDelayed PROVE FlatRunInv'
  BY <1>1, <1>7
     DEF ReloadWorkQueue, DoWorkDelayed, InDoWork, At, Top, FlatRunInv,
         FlatRunMayNest, LookedAtDelayed
<1>8. CASE DoWorkImmediate
  <2>1. run_depth > 0 /\ Top.pc = "work"
    BY <1>8 DEF DoWorkImmediate, InDoWork, At
  <2>2. CASE RunTask(Head(work_queue), "work")
    BY <2>1, <2>2, FlatStarts
  <2>3. CASE UNCHANGED <<state, run_depth, nestable_tasks_allowed>>
    BY <1>1, <2>1, <2>3 DEF Top, FlatRunInv, FlatRunMayNest, LookedAtDelayed
  <2> QED BY <1>8, <2>2, <2>3 DEF DoWorkImmediate, DeferOrRunPendingTask
<1>9. CASE DoDelayedWorkNone
  <2>1. At("delayed") /\ run_depth > 0 /\ Top.pc = "delayed"
    BY <1>9 DEF DoDelayedWorkNone, At
  <2>2. run_depth = 1 => delayed_work_queue' = {}
    BY <1>1, <1>9, <2>1 DEF DoDelayedWorkNone, FlatRunMayNest, queues
  <2> QED BY <1>1, <1>9, <2>1, <2>2, FlatDelayedIdle DEF DoDelayedWorkNone
<1>10. ASSUME NEW t \in Task, DoDelayedWorkNotYet(t) PROVE FlatRunInv'
  <2>1. /\ At("delayed")
        /\ t \in delayed_work_queue
        /\ \A u \in delayed_work_queue : pending_task[t].delayed_run_time
                                           <= pending_task[u].delayed_run_time
    BY <1>10, TopIsEarliest DEF DoDelayedWorkNotYet, InDoDelayedWork, IsTop, TypeOK
  <2>2. /\ pending_task[t].delayed_run_time > recent_time'
        /\ recent_time' \in Nat
    BY <1>10 DEF DoDelayedWorkNotYet, TypeOK, Refreshed
  <2>3. \A u \in delayed_work_queue : pending_task[u].delayed_run_time \in Nat
    BY DEF TypeOK, PendingTask
  <2>4. \A u \in delayed_work_queue :
          pending_task[u].delayed_run_time > recent_time'
    BY <2>1, <2>2, <2>3
  <2> QED BY <1>1, <1>10, <2>1, <2>4, FlatDelayedIdle
          DEF DoDelayedWorkNotYet, queues
<1>11. ASSUME NEW t \in Task, DoDelayedWorkDue(t) PROVE FlatRunInv'
  <2>1. At("delayed") /\ run_depth > 0
    BY <1>11 DEF DoDelayedWorkDue, InDoDelayedWork, At
  <2>2. CASE RunTask(t, "delayed")
    BY <2>1, <2>2, FlatStarts
  <2>3. CASE ~MayRun(t) /\ UNCHANGED nestable_tasks_allowed /\ DelayedIdle
    <3>1. run_depth # 1
      BY <2>3 DEF MayRun
    <3> QED BY <1>1, <2>1, <2>3, <3>1, FlatDelayedIdle
  <2> QED BY <1>11, <2>2, <2>3 DEF DoDelayedWorkDue, DeferOrRunPendingTask
<1>12. CASE ProcessNextDelayedNonNestableTask
  BY <1>12, FlatStarts DEF ProcessNextDelayedNonNestableTask, At
<1>13. ASSUME \/ DoIdleWorkQuits \/ DoIdleWorkNone
              \/ PumpDecidesToWait \/ PumpWakes \/ PumpTimesOut
       PROVE  FlatRunInv'
  <2>1. run_depth > 0 /\ Top.pc # "task" /\ UNCHANGED nestable_tasks_allowed
    BY <1>13 DEF DoIdleWorkQuits, DoIdleWorkNone, PumpDecidesToWait, PumpWakes,
                 PumpTimesOut, At
  <2>2. PumpReturns \/ \E pc \in {"work", "wait", "blocked"} : GoTo(pc, FALSE)
    BY <1>13 DEF DoIdleWorkQuits, DoIdleWorkNone, PumpDecidesToWait, PumpWakes,
                 PumpTimesOut, HandlerReturns
  <2>3. CASE PumpReturns
    BY <1>1, <2>1, <2>3, FlatReturns
  <2>4. ASSUME NEW pc \in {"work", "wait", "blocked"}, GoTo(pc, FALSE)
        PROVE  FlatRunInv'
    BY <1>1, <2>1, <2>4, FlatGoesOn
  <2> QED BY <2>2, <2>3, <2>4
<1>14. ASSUME \/ \E th \in Thread : Post(th)
              \/ QuitNow \/ Tick \/ UNCHANGED vars
       PROVE  FlatRunInv'
  <2>1. UNCHANGED <<run_depth, state, nestable_tasks_allowed, delayed_work_queue,
                    recent_time, pending_task>>
    BY <1>14 DEF Post, AddToIncomingQueue, ScheduleWork, QuitNow, Tick, vars,
                 shared, queues
  <2> QED BY <2>1, FlatUnchanged DEF Top
<1> QED
  BY <1>2, <1>3, <1>4, <1>5, <1>6, <1>7, <1>8, <1>9, <1>10, <1>11, <1>12, <1>13,
     <1>14
  DEF Next, Client, Pump, DoWork, DoDelayedWork, DoIdleWork, PumpWaits

LEMMA FlatRunAlways == Spec => []FlatRunInv
<1>1. Init => FlatRunInv
  BY DEF Init, FlatRunInv, FlatRunMayNest, LookedAtDelayed
<1> QED BY <1>1, FlatRunInductive, Invariance, PTL DEF Spec

\* A task starts inside another only at the other's wish, a non-nestable one
\* at depth 1 only, by whichever of the three ways it starts. DoIdleWork does
\* not look at nestable_tasks_allowed_, and need not.
THEOREM StartsAreInvited == Spec => NoUninvitedTask
<1> DEFINE Invited == \A t \in started' \ started :
                        /\ nestable_tasks_allowed
                        /\ pending_task[t].nestable \/ run_depth = 1
<1>1. TypeOK /\ FlatRunInv /\ [Next]_vars => [Invited]_vars
  <2> SUFFICES ASSUME TypeOK, FlatRunMayNest, [Next]_vars PROVE Invited
    BY DEF FlatRunInv
  <2>1. CASE DoWorkImmediate
    BY <2>1, DeferredOrStarted DEF DoWorkImmediate, InDoWork, MayRun
  <2>2. ASSUME NEW t \in Task, DoDelayedWorkDue(t) PROVE Invited
    BY <2>2, DeferredOrStarted DEF DoDelayedWorkDue, InDoDelayedWork, MayRun
  <2>3. CASE ProcessNextDelayedNonNestableTask
    BY <2>3 DEF ProcessNextDelayedNonNestableTask, MayRunDeferred, At,
                FlatRunMayNest
  <2>4. CASE \/ NoTaskMoves \/ ReloadWorkQueue \/ DoWorkDelayed
             \/ \E th \in Thread : AddToIncomingQueue(th)
    BY <2>4 DEF NoTaskMoves, ReloadWorkQueue, DoWorkDelayed, AddToIncomingQueue
  <2> QED BY <2>1, <2>2, <2>3, <2>4, OtherSteps
<1> QED BY <1>1, FlatRunAlways, TypeCorrect, PTL DEF Spec, NoUninvitedTask

\* A run that leaves from DoIdleWork, because Quit or RunAllPending asked for
\* it, leaves nothing in work_queue and, at depth 1, no deferred and no due
\* task, whatever nested runs did before.
THEOREM QuitLeavesNothing == Spec => QuitDrains
<1> DEFINE Drained ==
      run_depth' < run_depth /\ At("idle") /\ nestable_tasks_allowed =>
        /\ work_queue = <<>>
        /\ run_depth = 1 =>
             /\ deferred_non_nestable_work_queue = <<>>
             /\ \A t \in delayed_work_queue :
                  pending_task[t].delayed_run_time > recent_time
<1>1. TypeOK /\ IInv /\ FlatRunInv /\ [Next]_vars => [Drained]_vars
  <2> SUFFICES ASSUME TypeOK, WakeupPending, LookedAtDelayed, [Next]_vars,
                      run_depth' < run_depth, At("idle"), nestable_tasks_allowed
               PROVE  /\ work_queue = <<>>
                      /\ run_depth = 1 =>
                           /\ deferred_non_nestable_work_queue = <<>>
                           /\ \A t \in delayed_work_queue :
                                pending_task[t].delayed_run_time > recent_time
    BY DEF IInv, PumpInv, FlatRunInv
  <2>1. run_depth \in Nat /\ run_depth > 0 /\ Top.pc = "idle"
    BY ConstantsAssumption DEF At, TypeOK
  <2>2. work_queue = <<>>
    BY <2>1 DEF WakeupPending, Looked
  <2>3. run_depth' # run_depth /\ run_depth' # run_depth + 1
    BY <2>1
  <2>4. DoIdleWorkQuits \/ DoIdleWorkNone
    BY <2>1, <2>3
       DEF Next, vars, shared, Client, PostTask, Run, Quit, QuitNow, InTask,
           SetNestableTasksAllowed, Post, AddToIncomingQueue, ScheduleWork,
           Pump, TaskReturns, DoWork, DoWorkRefused, ReloadWorkQueue,
           DoWorkDone, DoWorkDelayed, DoWorkImmediate, InDoWork, At,
           DoDelayedWork, DoDelayedWorkNone, DoDelayedWorkNotYet,
           DoDelayedWorkDue, InDoDelayedWork, DoIdleWork,
           ProcessNextDelayedNonNestableTask, RunTask, PumpWaits,
           PumpDecidesToWait, PumpWakes, PumpTimesOut, GoTo, Tick
  <2>5. run_depth = 1 => deferred_non_nestable_work_queue = <<>>
    BY <2>4 DEF DoIdleWorkQuits, DoIdleWorkNone, MayRunDeferred
  <2> QED BY <2>1, <2>2, <2>5 DEF LookedAtDelayed
<1> QED BY <1>1, FlatRunAlways, Invariance, PTL DEF Spec, QuitDrains

-----------------------------------------------------------------------------
(* The order tasks start in *)

TimesArePast == now > 0 /\ recent_time <= now

\* A task on its way to the incoming queue has the run time of some delay,
\* counted from an instant that has passed.
PushedIsDue ==
  \A th \in Thread : posting[th].pc = "push" =>
    \E delay \in Delays :
      LET run_time == pending_task[posting[th].task].delayed_run_time
      IN  IF delay = 0 THEN run_time = Null
                       ELSE run_time > delay /\ run_time <= now + delay

\* Only the time and the depth were in a deferred task's way, and the time has
\* come.
DeferredIsDue ==
  \A t \in Task : InQueue(deferred_non_nestable_work_queue, t) =>
    ~pending_task[t].nestable /\ pending_task[t].delayed_run_time <= now

\* What DoWork has not taken over are the last tasks posted, in order.
QueuesInOrder ==
  /\ Taken \in Nat
  /\ \A i \in 1 .. Len(work_queue) : posted[Taken + i] = work_queue[i]
  /\ \A i \in 1 .. Len(incoming_queue) :
       posted[Taken + Len(work_queue) + i] = incoming_queue[i]

\* Delayed tasks are numbered in the order they were posted.
Numbered ==
  /\ \A t \in delayed_work_queue : pending_task[t].sequence_num < next_sequence_num
  /\ \A i, j \in DOMAIN posted :
       /\ i < j
       /\ posted[i] \in delayed_work_queue /\ posted[j] \in delayed_work_queue
       => pending_task[posted[i]].sequence_num < pending_task[posted[j]].sequence_num

OrderInv == TimesArePast /\ PushedIsDue /\ DeferredIsDue /\ QueuesInOrder /\ Numbered

\* The tasks DoWork has not taken over are those it finds in the two queues.
LEMMA NotTaken ==
  ASSUME TypeOK, PostedOnce, QueuesInOrder, NEW i \in DOMAIN posted
  PROVE  i > Taken <=> InQueue(work_queue, posted[i]) \/ InQueue(incoming_queue, posted[i])
<1> DEFINE w == Len(work_queue)
           m == Len(incoming_queue)
<1>1. PICK n \in Nat : n = Taken
  BY DEF QueuesInOrder
<1>2. /\ w \in Nat /\ DOMAIN work_queue = 1 .. w
      /\ m \in Nat /\ DOMAIN incoming_queue = 1 .. m
      /\ Len(posted) \in Nat /\ DOMAIN posted = 1 .. Len(posted)
      /\ Len(posted) = n + w + m
  BY <1>1 DEF TypeOK, Taken
<1>3. /\ \A k \in 1 .. w : posted[n + k] = work_queue[k]
      /\ \A k \in 1 .. m : posted[n + w + k] = incoming_queue[k]
  BY <1>1 DEF QueuesInOrder
<1>4. ASSUME i > n
      PROVE  InQueue(work_queue, posted[i]) \/ InQueue(incoming_queue, posted[i])
  <2>1. CASE i <= n + w
    <3>1. i - n \in 1 .. w /\ n + (i - n) = i
      BY <1>2, <1>4, <2>1
    <3>2. posted[i] = work_queue[i - n]
      BY <1>3, <3>1
    <3> QED BY <1>2, <3>1, <3>2 DEF InQueue, Range
  <2>2. CASE i > n + w
    <3>1. i - n - w \in 1 .. m /\ n + w + (i - n - w) = i
      BY <1>2, <1>4, <2>2
    <3>2. posted[i] = incoming_queue[i - n - w]
      BY <1>3, <3>1
    <3> QED BY <1>2, <3>1, <3>2 DEF InQueue, Range
  <2> QED BY <1>2, <2>1, <2>2
<1>5. ASSUME InQueue(work_queue, posted[i]) PROVE i > n
  <2>1. PICK k \in 1 .. w : work_queue[k] = posted[i]
    BY <1>2, <1>5 DEF InQueue, Range
  <2>2. n + k \in DOMAIN posted /\ posted[n + k] = posted[i]
    BY <1>2, <1>3, <2>1
  <2> QED BY <2>1, <2>2 DEF PostedOnce
<1>6. ASSUME InQueue(incoming_queue, posted[i]) PROVE i > n
  <2>1. PICK k \in 1 .. m : incoming_queue[k] = posted[i]
    BY <1>2, <1>6 DEF InQueue, Range
  <2>2. n + w + k \in DOMAIN posted /\ posted[n + w + k] = posted[i]
    BY <1>2, <1>3, <2>1
  <2>3. i = n + w + k
    BY <2>2 DEF PostedOnce
  <2> QED BY <1>2, <2>1, <2>3
<1> QED BY <1>1, <1>4, <1>5, <1>6

LEMMA HeadIsNext ==
  ASSUME TypeOK, QueuesInOrder, work_queue # <<>>
  PROVE  Taken + 1 \in DOMAIN posted /\ posted[Taken + 1] = Head(work_queue)
<1>1. /\ Len(work_queue) \in Nat /\ Len(work_queue) > 0
      /\ Head(work_queue) = work_queue[1]
      /\ Len(incoming_queue) \in Nat
      /\ Len(posted) \in Nat /\ DOMAIN posted = 1 .. Len(posted)
  BY DEF TypeOK
<1>2. Taken \in Nat /\ Len(posted) = Taken + Len(work_queue) + Len(incoming_queue)
  BY <1>1 DEF QueuesInOrder, Taken
<1> QED BY <1>1, <1>2 DEF QueuesInOrder

\* DoWork takes the tasks over one by one, and nothing else does.
LEMMA TakenGrows ==
  ASSUME TypeOK, QueuesInOrder
  PROVE  /\ DoWorkDelayed \/ DoWorkImmediate =>
              Taken' = Taken + 1 /\ Taken < Len(posted)
         /\ \/ \E th \in Thread : AddToIncomingQueue(th)
            \/ ReloadWorkQueue
            \/ \E t \in Task : DoDelayedWorkDue(t)
            \/ ProcessNextDelayedNonNestableTask
            \/ NoTaskMoves
            => Taken' = Taken
<1>1. /\ incoming_queue \in Seq(Task) /\ work_queue \in Seq(Task)
      /\ posted \in Seq(Task) /\ Taken \in Nat
      /\ Len(incoming_queue) \in Nat /\ Len(work_queue) \in Nat /\ Len(posted) \in Nat
  BY DEF TypeOK, QueuesInOrder
<1>2. ASSUME DoWorkDelayed \/ DoWorkImmediate
      PROVE  Taken' = Taken + 1 /\ Taken < Len(posted)
  <2>1. /\ work_queue # <<>> /\ work_queue' = Tail(work_queue)
        /\ UNCHANGED <<incoming_queue, posted>>
    BY <1>2 DEF DoWorkDelayed, DoWorkImmediate, shared
  <2>2. Len(work_queue') = Len(work_queue) - 1 /\ Len(work_queue) > 0
    BY <1>1, <2>1
  <2> QED BY <1>1, <2>1, <2>2 DEF Taken
<1>3. ASSUME NEW th \in Thread, AddToIncomingQueue(th) PROVE Taken' = Taken
  <2>1. PICK x \in Task : x = posting[th].task
    BY <1>3, PushedTask DEF AddToIncomingQueue
  <2>2. /\ incoming_queue' = Append(incoming_queue, x)
        /\ posted' = Append(posted, x)
        /\ UNCHANGED work_queue
    BY <1>3, <2>1 DEF AddToIncomingQueue, queues
  <2>3. /\ Len(incoming_queue') = Len(incoming_queue) + 1
        /\ Len(posted') = Len(posted) + 1
    BY <1>1, <2>2
  <2> QED BY <1>1, <2>2, <2>3 DEF Taken
<1>4. ASSUME ReloadWorkQueue PROVE Taken' = Taken
  <2>1. Len(work_queue) = 0 /\ Len(incoming_queue') = 0
    BY <1>4 DEF ReloadWorkQueue
  <2>2. Len(work_queue') = Len(incoming_queue) /\ Len(posted') = Len(posted)
    BY <1>4 DEF ReloadWorkQueue
  <2> QED BY <1>1, <2>1, <2>2 DEF Taken
<1>5. ASSUME \/ \E t \in Task : DoDelayedWorkDue(t)
             \/ ProcessNextDelayedNonNestableTask
             \/ NoTaskMoves
      PROVE  Taken' = Taken
  <2>1. UNCHANGED <<work_queue, incoming_queue, posted>>
    BY <1>5 DEF NoTaskMoves, DoDelayedWorkDue, ProcessNextDelayedNonNestableTask,
                shared
  <2> QED BY <2>1 DEF Taken
<1> QED BY <1>2, <1>3, <1>4, <1>5

\* The steps of the queues, one after the other.
LEMMA QueuesInOrderInductive ==
  ASSUME TypeOK, QueuesInOrder, [Next]_vars
  PROVE  QueuesInOrder'
<1>1. PICK w \in Nat, m \in Nat : w = Len(work_queue) /\ m = Len(incoming_queue)
  BY DEF TypeOK
<1>2. PICK n \in Nat : n = Taken
  BY DEF QueuesInOrder
<1>3. /\ w = Len(work_queue) /\ m = Len(incoming_queue)
      /\ Len(posted) = n + w + m
      /\ \A k \in 1 .. w : posted[n + k] = work_queue[k]
      /\ \A k \in 1 .. m : posted[n + w + k] = incoming_queue[k]
      /\ work_queue \in Seq(Task) /\ incoming_queue \in Seq(Task)
      /\ posted \in Seq(Task)
  BY <1>1, <1>2 DEF QueuesInOrder, TypeOK, Taken
<1>4. ASSUME NEW th \in Thread, AddToIncomingQueue(th) PROVE QueuesInOrder'
  <2>1. PICK x \in Task : x = posting[th].task
    BY <1>4, PushedTask DEF AddToIncomingQueue
  <2>2. /\ incoming_queue' = Append(incoming_queue, x)
        /\ posted' = Append(posted, x)
        /\ UNCHANGED work_queue
    BY <1>4, <2>1 DEF AddToIncomingQueue, queues
  <2>3. /\ Len(incoming_queue') = m + 1 /\ Len(posted') = n + w + m + 1
        /\ incoming_queue'[m + 1] = x /\ posted'[n + w + m + 1] = x
        /\ \A k \in 1 .. m : incoming_queue'[k] = incoming_queue[k]
        /\ \A k \in 1 .. n + w + m : posted'[k] = posted[k]
    <3>1. \A q \in Seq(Task), l \in Nat : l = Len(q) =>
            /\ Len(Append(q, x)) = l + 1
            /\ Append(q, x)[l + 1] = x
            /\ \A k \in 1 .. l : Append(q, x)[k] = q[k]
      OBVIOUS
    <3>2. n + w + m \in Nat
      OBVIOUS
    <3> QED BY <1>3, <2>2, <3>1, <3>2
  <2>4. Taken' = n
    BY <1>2, <1>4, TakenGrows
  <2>5. \A k \in 1 .. m + 1 : posted'[n + w + k] = incoming_queue'[k]
    <3>1. \A k \in 1 .. m : n + w + k \in 1 .. n + w + m
      OBVIOUS
    <3>2. \A k \in 1 .. m : posted'[n + w + k] = incoming_queue'[k]
      BY <1>3, <2>3, <3>1
    <3>3. posted'[n + w + (m + 1)] = incoming_queue'[m + 1]
      BY <2>3
    <3> QED BY <3>2, <3>3
  <2>6. \A k \in 1 .. w : posted'[n + k] = work_queue[k]
    <3>1. \A k \in 1 .. w : n + k \in 1 .. n + w + m
      OBVIOUS
    <3> QED BY <1>3, <2>3, <3>1
  <2> QED BY <1>3, <2>2, <2>3, <2>4, <2>5, <2>6 DEF QueuesInOrder
<1>5. CASE ReloadWorkQueue
  <2>1. /\ w = 0 /\ work_queue' = incoming_queue /\ incoming_queue' = <<>>
        /\ UNCHANGED posted
    BY <1>3, <1>5 DEF ReloadWorkQueue
  <2>2. Taken' = n
    BY <1>2, <1>5, TakenGrows
  <2> QED BY <1>3, <2>1, <2>2 DEF QueuesInOrder
<1>6. ASSUME DoWorkDelayed \/ DoWorkImmediate PROVE QueuesInOrder'
  <2>1. /\ work_queue # <<>> /\ work_queue' = Tail(work_queue)
        /\ UNCHANGED <<incoming_queue, posted>>
    BY <1>6 DEF DoWorkDelayed, DoWorkImmediate, shared
  <2>2. /\ Len(work_queue') = w - 1 /\ w > 0
        /\ \A k \in 1 .. w - 1 : work_queue'[k] = work_queue[k + 1]
    BY <1>3, <2>1
  <2>3. Taken' = n + 1
    BY <1>2, <1>6, TakenGrows
  <2>4. \A k \in 1 .. w - 1 : posted[n + 1 + k] = work_queue'[k]
    <3>1. \A k \in 1 .. w - 1 : k + 1 \in 1 .. w /\ n + (k + 1) = n + 1 + k
      OBVIOUS
    <3> QED BY <1>3, <2>2, <3>1
  <2>5. \A k \in 1 .. m : posted[n + 1 + (w - 1) + k] = incoming_queue[k]
    BY <1>3, <2>2
  <2> QED BY <1>3, <2>1, <2>2, <2>3, <2>4, <2>5 DEF QueuesInOrder
<1>7. ASSUME NoTaskMoves \/ (\E t \in Task : DoDelayedWorkDue(t))
               \/ ProcessNextDelayedNonNestableTask
      PROVE  QueuesInOrder'
  <2>1. UNCHANGED <<work_queue, incoming_queue, posted>>
    BY <1>7 DEF NoTaskMoves, DoDelayedWorkDue, ProcessNextDelayedNonNestableTask,
                shared
  <2> QED BY <2>1 DEF QueuesInOrder, Taken
<1> QED BY <1>4, <1>5, <1>6, <1>7, OtherSteps

LEMMA TimePasses ==
  ASSUME TypeOK, TimesArePast, [Next]_vars
  PROVE  /\ now' = now \/ now' = now + 1
         /\ now \in Nat
         /\ TimesArePast'
<1>1. now' = now \/ now' = now + 1
  BY DEF Next, vars, shared, queues, Client, PostTask, Run, Quit, QuitNow,
         SetNestableTasksAllowed, Post, AddToIncomingQueue, ScheduleWork, Pump,
         TaskReturns, DoWork, DoWorkRefused, ReloadWorkQueue, DoWorkDone,
         DoWorkDelayed, DoWorkImmediate, DoDelayedWork, DoDelayedWorkNone,
         DoDelayedWorkNotYet, DoDelayedWorkDue, DoIdleWork,
         ProcessNextDelayedNonNestableTask, DoIdleWorkQuits, DoIdleWorkNone,
         PumpWaits, PumpDecidesToWait, PumpWakes, PumpTimesOut, Tick
<1>2. recent_time' \in {recent_time, Null, now}
  BY DEF Next, vars, shared, queues, Client, PostTask, Run, Quit, QuitNow,
         SetNestableTasksAllowed, Post, AddToIncomingQueue, ScheduleWork, Pump,
         TaskReturns, DoWork, DoWorkRefused, ReloadWorkQueue, DoWorkDone,
         DoWorkDelayed, DoWorkImmediate, DoDelayedWork, DoDelayedWorkNone,
         DoDelayedWorkNotYet, DoDelayedWorkDue, Refreshed, DoIdleWork,
         ProcessNextDelayedNonNestableTask, DoIdleWorkQuits, DoIdleWorkNone,
         PumpWaits, PumpDecidesToWait, PumpWakes, PumpTimesOut, Tick
<1> QED BY <1>1, <1>2 DEF TypeOK, TimesArePast, Null

\* Only PostTask and AddToDelayedWorkQueue write a PendingTask.
LEMMA PendingUnchanged ==
  ASSUME [Next]_vars, ~DoWorkDelayed,
         ~ \E th \in Thread, t \in Task, closure \in Closure, delay \in Delays,
              nestable \in BOOLEAN : PostTask(th, t, closure, delay, nestable)
  PROVE  UNCHANGED pending_task
BY DEF Next, vars, shared, queues, Client, Run, Quit, QuitNow,
       SetNestableTasksAllowed, Post, AddToIncomingQueue, ScheduleWork, Pump,
       TaskReturns, DoWork, DoWorkRefused, ReloadWorkQueue, DoWorkDone,
       DoWorkImmediate, DoDelayedWork, DoDelayedWorkNone, DoDelayedWorkNotYet,
       DoDelayedWorkDue, DoIdleWork, ProcessNextDelayedNonNestableTask,
       DoIdleWorkQuits, DoIdleWorkNone, PumpWaits, PumpDecidesToWait, PumpWakes,
       PumpTimesOut, Tick

\* A posted task keeps its run time, its kind and its number, unless DoWork
\* takes it off work_queue to number it. One that is being posted keeps the
\* first two.
LEMMA PostedKeeps ==
  ASSUME TypeOK, [Next]_vars, NEW t \in Task,
         \/ InQueue(posted, t)
         \/ \E th \in Thread : posting[th].pc = "push" /\ posting[th].task = t
  PROVE  /\ pending_task'[t].nestable = pending_task[t].nestable
         /\ pending_task'[t].delayed_run_time = pending_task[t].delayed_run_time
         /\ pending_task'[t] = pending_task[t]
              \/ (DoWorkDelayed /\ t = Head(work_queue))
<1>1. ASSUME NEW th \in Thread, NEW u \in Task, NEW closure \in Closure,
             NEW delay \in Delays, NEW nestable \in BOOLEAN,
             PostTask(th, u, closure, delay, nestable)
      PROVE  pending_task'[t] = pending_task[t]
  <2>1. u # t
    BY <1>1 DEF PostTask, Unposted, InQueue
  <2> QED BY <1>1, <2>1 DEF PostTask, TypeOK
<1>2. CASE DoWorkDelayed
  <2>1. pending_task' = [pending_task EXCEPT
                           ![Head(work_queue)].sequence_num = next_sequence_num]
    BY <1>2 DEF DoWorkDelayed
  <2>2. pending_task \in [Task -> PendingTask]
    BY DEF TypeOK
  <2> QED BY <1>2, <2>1, <2>2 DEF PendingTask
<1> QED BY <1>1, <1>2, PendingUnchanged

LEMMA PushedIsDueInductive ==
  ASSUME TypeOK, TimesArePast, PushedIsDue, [Next]_vars
  PROVE  PushedIsDue'
<1> SUFFICES ASSUME NEW th \in Thread, posting'[th].pc = "push"
             PROVE  \E delay \in Delays :
                      LET run_time == pending_task'[posting'[th].task].delayed_run_time
                      IN  IF delay = 0 THEN run_time = Null
                          ELSE run_time > delay /\ run_time <= now' + delay
  BY DEF PushedIsDue
<1>1. now' >= now /\ now \in Nat /\ now' \in Nat /\ now > 0
  BY TimePasses DEF TimesArePast
<1>2. CASE posting'[th] = posting[th]
  <2>1. PICK t \in Task : t = posting[th].task
    BY <1>2, PushedTask
  <2>2. pending_task'[t].delayed_run_time = pending_task[t].delayed_run_time
    BY <1>2, <2>1, PostedKeeps
  <2>3. PICK delay \in Delays :
          IF delay = 0 THEN pending_task[t].delayed_run_time = Null
          ELSE /\ pending_task[t].delayed_run_time > delay
               /\ pending_task[t].delayed_run_time <= now + delay
    BY <1>2, <2>1 DEF PushedIsDue
  <2>4. delay \in Nat /\ pending_task[t].delayed_run_time \in Nat
    BY ConstantsAssumption DEF TypeOK, PendingTask
  <2>5. IF delay = 0 THEN pending_task'[t].delayed_run_time = Null
        ELSE /\ pending_task'[t].delayed_run_time > delay
             /\ pending_task'[t].delayed_run_time <= now' + delay
    BY <1>1, <2>2, <2>3, <2>4
  <2> QED BY <1>2, <2>1, <2>5
<1>3. ASSUME NEW other \in Thread, NEW t \in Task, NEW closure \in Closure,
             NEW delay \in Delays, NEW nestable \in BOOLEAN,
             PostTask(other, t, closure, delay, nestable), other = th
      PROVE  \E d \in Delays :
               LET run_time == pending_task'[posting'[th].task].delayed_run_time
               IN  IF d = 0 THEN run_time = Null
                   ELSE run_time > d /\ run_time <= now' + d
  <2>1. posting'[th].task = t /\ now' = now
    BY <1>3 DEF PostTask, TypeOK
  <2>2. pending_task'[t].delayed_run_time = IF delay > 0 THEN now + delay ELSE Null
    BY <1>3 DEF PostTask, TypeOK
  <2>3. delay \in Nat
    BY ConstantsAssumption
  <2>4. IF delay = 0 THEN pending_task'[t].delayed_run_time = Null
        ELSE /\ pending_task'[t].delayed_run_time > delay
             /\ pending_task'[t].delayed_run_time <= now' + delay
    <3>1. CASE delay = 0
      BY <2>2, <3>1
    <3>2. CASE delay > 0
      <4>1. pending_task'[t].delayed_run_time = now + delay
        BY <2>2, <3>2
      <4>2. now + delay > delay
        BY <1>1, <2>3
      <4> QED BY <1>1, <2>1, <2>3, <3>2, <4>1, <4>2
    <3> QED BY <2>3, <3>1, <3>2
  <2> QED BY <2>1, <2>4
<1>4. ASSUME NEW other \in Thread, AddToIncomingQueue(other) \/ ScheduleWork(other),
             other = th
      PROVE  FALSE
  BY <1>4 DEF AddToIncomingQueue, ScheduleWork, TypeOK, Idle
<1>5. ASSUME NEW other \in Thread, other # th,
             \/ AddToIncomingQueue(other) \/ ScheduleWork(other)
             \/ \E t \in Task, closure \in Closure, delay \in Delays,
                   nestable \in BOOLEAN : PostTask(other, t, closure, delay, nestable)
      PROVE  posting'[th] = posting[th]
  BY <1>5 DEF AddToIncomingQueue, ScheduleWork, PostTask, TypeOK
<1> QED BY <1>2, <1>3, <1>4, <1>5, PostingUnchanged

LEMMA DeferredIsDueInductive ==
  ASSUME TypeOK, EachTaskOnce, TimesArePast, DeferredIsDue, [Next]_vars
  PROVE  DeferredIsDue'
<1> DEFINE q == deferred_non_nestable_work_queue
<1>1. q \in Seq(Task) /\ work_queue \in Seq(Task)
  BY DEF TypeOK
<1>2. /\ now' >= now /\ now \in Nat /\ now' \in Nat /\ recent_time <= now
      /\ \A t \in Task : pending_task[t].delayed_run_time \in Nat
  BY TimePasses DEF TimesArePast, TypeOK, PendingTask
<1> SUFFICES ASSUME NEW t \in Task, InQueue(q', t)
             PROVE  ~pending_task'[t].nestable /\ pending_task'[t].delayed_run_time <= now'
  BY DEF DeferredIsDue
<1>3. CASE InQueue(q, t)
  <2>1. InQueue(posted, t)
    BY <1>3, WaitsOnce
  <2> QED BY <1>2, <1>3, <2>1, PostedKeeps DEF DeferredIsDue
<1>4. ASSUME NEW h \in Task, ~MayRun(h), q' = Append(q, h), UNCHANGED pending_task,
             pending_task[h].delayed_run_time <= now
      PROVE  ~pending_task'[t].nestable /\ pending_task'[t].delayed_run_time <= now'
  <2>1. InQueue(q, t) \/ t = h
    BY <1>1, <1>4, AppendInQueue
  <2> QED BY <1>2, <1>3, <1>4, <2>1 DEF MayRun
<1>5. CASE DoWorkImmediate
  <2>1. PICK h \in Task : h = Head(work_queue)
    BY <1>1, <1>5 DEF DoWorkImmediate
  <2>2. /\ UNCHANGED pending_task
        /\ pending_task[h].delayed_run_time = Null
        /\ UNCHANGED q \/ (~MayRun(h) /\ q' = Append(q, h))
    BY <1>5, <2>1, DeferredOrStarted DEF DoWorkImmediate
  <2> QED BY <1>2, <1>3, <1>4, <2>2 DEF Null
<1>6. ASSUME NEW h \in Task, DoDelayedWorkDue(h)
      PROVE  ~pending_task'[t].nestable /\ pending_task'[t].delayed_run_time <= now'
  <2>1. /\ UNCHANGED pending_task
        /\ pending_task[h].delayed_run_time <= Refreshed(h)
        /\ UNCHANGED q \/ (~MayRun(h) /\ q' = Append(q, h))
    BY <1>6, DeferredOrStarted DEF DoDelayedWorkDue
  <2>2. Refreshed(h) <= now /\ Refreshed(h) \in Nat
    BY <1>2 DEF Refreshed, TypeOK
  <2>3. pending_task[h].delayed_run_time <= now
    BY <1>2, <2>1, <2>2
  <2> QED BY <1>3, <1>4, <2>1, <2>3
<1>7. CASE ProcessNextDelayedNonNestableTask
  <2>1. q # <<>> /\ q' = Tail(q)
    BY <1>7 DEF ProcessNextDelayedNonNestableTask, MayRunDeferred
  <2> QED BY <1>1, <1>3, <2>1, HeadTailInQueue
<1>8. ASSUME \/ NoTaskMoves \/ ReloadWorkQueue \/ DoWorkDelayed
             \/ \E th \in Thread : AddToIncomingQueue(th)
      PROVE  UNCHANGED q
  BY <1>8 DEF NoTaskMoves, ReloadWorkQueue, DoWorkDelayed, AddToIncomingQueue, queues
<1> QED BY <1>3, <1>5, <1>6, <1>7, <1>8, OtherSteps

LEMMA NumberedInductive ==
  ASSUME TypeOK, PlacesInv, QueuesInOrder, Numbered, [Next]_vars
  PROVE  Numbered'
<1>1. /\ posted \in Seq(Task) /\ Len(posted) \in Nat
      /\ DOMAIN posted = 1 .. Len(posted)
      /\ work_queue \in Seq(Task)
      /\ next_sequence_num \in Nat
      /\ \A t \in Task : pending_task[t].sequence_num \in Nat
      /\ PostedOnce /\ EachTaskOnce
  BY DEF TypeOK, PendingTask, PlacesInv
<1>2. \A t \in delayed_work_queue : t \in Task /\ InQueue(posted, t)
  BY <1>1, WaitsOnce DEF TypeOK
<1>3. ASSUME NEW th \in Thread, AddToIncomingQueue(th) PROVE Numbered'
  <2>1. PICK x \in Task : x = posting[th].task
    BY <1>3, PushedTask DEF AddToIncomingQueue
  <2>2. /\ posted' = Append(posted, x)
        /\ UNCHANGED <<delayed_work_queue, pending_task, next_sequence_num>>
        /\ ~InQueue(posted, x)
    BY <1>3, <2>1 DEF AddToIncomingQueue, queues, PlacesInv, PushedIsNew
  <2>3. /\ DOMAIN posted' = 1 .. Len(posted) + 1
        /\ \A i \in DOMAIN posted : posted'[i] = posted[i]
        /\ posted'[Len(posted) + 1] = x
    BY <1>1, <2>2
  <2>4. x \notin delayed_work_queue
    BY <1>2, <2>2
  <2>5. \A i \in DOMAIN posted' : posted'[i] \in delayed_work_queue' =>
          i \in DOMAIN posted /\ posted'[i] = posted[i]
    BY <1>1, <2>2, <2>3, <2>4
  <2> QED BY <2>2, <2>5 DEF Numbered
<1>4. CASE DoWorkDelayed
  <2>1. PICK h \in Task : h = Head(work_queue)
    BY <1>1, <1>4 DEF DoWorkDelayed
  <2>2. /\ work_queue # <<>>
        /\ pending_task' = [pending_task EXCEPT ![h].sequence_num = next_sequence_num]
        /\ delayed_work_queue' = delayed_work_queue \union {h}
        /\ next_sequence_num' = next_sequence_num + 1
        /\ UNCHANGED posted
    BY <1>4, <2>1 DEF DoWorkDelayed
  <2>3. /\ InQueue(work_queue, h) /\ h \notin delayed_work_queue
        /\ \A t \in delayed_work_queue : ~InQueue(work_queue, t) /\ ~InQueue(incoming_queue, t)
    BY <1>1, <1>2, <2>1, <2>2, HeadTailInQueue, WaitsOnce
  <2>4. /\ pending_task'[h].sequence_num = next_sequence_num
        /\ \A t \in delayed_work_queue :
             pending_task'[t].sequence_num = pending_task[t].sequence_num
    BY <1>2, <2>2, <2>3 DEF TypeOK, PendingTask
  <2>5. \A i \in DOMAIN posted : posted[i] \in delayed_work_queue => ~(i > Taken)
    BY <1>1, <2>3, NotTaken
  <2>6. \A i \in DOMAIN posted : posted[i] = h => i > Taken
    BY <1>1, <2>3, NotTaken
  <2>7. Taken \in Nat
    BY DEF QueuesInOrder
  <2>8. \A t \in delayed_work_queue' : pending_task'[t].sequence_num < next_sequence_num'
    BY <1>1, <1>2, <2>2, <2>4 DEF Numbered
  <2>9. ASSUME NEW i \in DOMAIN posted, NEW j \in DOMAIN posted, i < j,
               posted[i] \in delayed_work_queue', posted[j] \in delayed_work_queue'
        PROVE  pending_task'[posted[i]].sequence_num
                 < pending_task'[posted[j]].sequence_num
    <3>1. CASE posted[i] \in delayed_work_queue /\ posted[j] \in delayed_work_queue
      BY <2>4, <2>9, <3>1 DEF Numbered
    <3>2. CASE posted[i] \in delayed_work_queue /\ posted[j] = h
      BY <2>4, <3>2 DEF Numbered
    <3>3. CASE posted[i] = h
      <4>1. i > Taken /\ j > Taken
        BY <1>1, <2>6, <2>7, <2>9, <3>3
      <4>2. posted[j] = h
        BY <2>2, <2>5, <2>9, <4>1
      <4> QED BY <1>1, <2>9, <3>3, <4>2 DEF PostedOnce
    <3> QED BY <2>2, <2>9, <3>1, <3>2, <3>3
  <2> QED BY <2>2, <2>8, <2>9 DEF Numbered
<1>5. CASE ~DoWorkDelayed /\ ~ \E th \in Thread : AddToIncomingQueue(th)
  <2>1. /\ delayed_work_queue' \subseteq delayed_work_queue
        /\ UNCHANGED <<posted, next_sequence_num>>
    BY <1>5
       DEF Next, vars, shared, queues, Client, PostTask, Run, Quit, QuitNow,
           SetNestableTasksAllowed, Post, ScheduleWork, Pump, TaskReturns,
           DoWork, DoWorkRefused, ReloadWorkQueue, DoWorkDone, DoWorkImmediate,
           DoDelayedWork, DoDelayedWorkNone, DoDelayedWorkNotYet,
           DoDelayedWorkDue, DoIdleWork, ProcessNextDelayedNonNestableTask,
           DoIdleWorkQuits, DoIdleWorkNone, PumpWaits, PumpDecidesToWait,
           PumpWakes, PumpTimesOut, Tick
  <2>2. \A t \in delayed_work_queue : pending_task'[t] = pending_task[t]
    BY <1>2, <1>5, PostedKeeps
  <2> QED BY <2>1, <2>2 DEF Numbered
<1> QED BY <1>3, <1>4, <1>5

LEMMA OrderInductive ==
  TypeOK /\ PlacesInv /\ OrderInv /\ [Next]_vars => OrderInv'
BY TimePasses, PushedIsDueInductive, DeferredIsDueInductive,
   QueuesInOrderInductive, NumberedInductive DEF OrderInv, PlacesInv

LEMMA OrderAlways == Spec => []OrderInv
<1>1. Init => OrderInv
  <2> SUFFICES ASSUME Init PROVE OrderInv
    OBVIOUS
  <2>1. /\ now = 1 /\ recent_time = 0
        /\ posted = <<>> /\ work_queue = <<>> /\ incoming_queue = <<>>
        /\ deferred_non_nestable_work_queue = <<>> /\ delayed_work_queue = {}
        /\ \A th \in Thread : posting[th].pc = "idle"
    BY DEF Init, Idle, Null
  <2>2. QueuesInOrder
    BY <2>1 DEF QueuesInOrder, Taken
  <2> QED BY <2>1, <2>2, EmptyInQueue
          DEF OrderInv, TimesArePast, PushedIsDue, DeferredIsDue, Numbered
<1> QED BY <1>1, OrderInductive, PlacesAlways, TypeCorrect, PTL DEF Spec

\* A delayed or deferred task was taken over.
LEMMA WaitingWasTaken ==
  ASSUME TypeOK, PostedOnce, EachTaskOnce, QueuesInOrder, NEW h \in Task,
         h \in delayed_work_queue \/ InQueue(deferred_non_nestable_work_queue, h)
  PROVE  \E k \in DOMAIN posted : posted[k] = h /\ k <= Taken
<1>1. InQueue(posted, h) /\ ~InQueue(work_queue, h) /\ ~InQueue(incoming_queue, h)
  BY WaitsOnce
<1>2. PICK k \in DOMAIN posted : posted[k] = h
  BY <1>1 DEF InQueue, Range
<1>3. ~(k > Taken) /\ k \in Nat /\ Taken \in Nat
  BY <1>1, <1>2, NotTaken DEF TypeOK, QueuesInOrder
<1> QED BY <1>2, <1>3

\* Of the tasks taken over none that precedes h waits when DoWork or
\* DoDelayedWork takes h.
LEMMA NonePrecedes ==
  ASSUME TypeOK, QueuedWasPosted, PlacesInv, OrderInv, NEW h \in Task,
         \/ pending_task[h].delayed_run_time = Null
         \/ IsTop(pending_task, delayed_work_queue, h),
         NEW i \in DOMAIN posted, i <= Taken, pending_task[posted[i]].nestable,
         \/ pending_task[posted[i]].delayed_run_time < pending_task[h].delayed_run_time
         \/ /\ pending_task[posted[i]].delayed_run_time = pending_task[h].delayed_run_time
            /\ \E j \in DOMAIN posted : i < j /\ posted[j] = h
  PROVE  posted[i] \in started
<1> SUFFICES ASSUME posted[i] \notin started PROVE FALSE
  OBVIOUS
<1>1. PICK u \in Task : u = posted[i]
  BY DEF TypeOK
<1>2. /\ PostedOnce /\ EachTaskOnce /\ QueuesInOrder /\ Numbered
      /\ Taken \in Nat /\ DOMAIN posted \subseteq Nat
      /\ \A t \in {u, h} : /\ pending_task[t].delayed_run_time \in Nat
                          /\ pending_task[t].sequence_num \in Nat
  <2>1. DOMAIN posted = 1 .. Len(posted)
    BY DEF TypeOK
  <2>2. DOMAIN posted \subseteq Nat
    BY <2>1
  <2>3. \A t \in {u, h} : pending_task[t] \in PendingTask
    BY DEF TypeOK
  <2> QED BY <2>2, <2>3 DEF PendingTask, PlacesInv, OrderInv, QueuesInOrder
<1>3. InQueue(posted, u) /\ u \notin started
  BY <1>1 DEF InQueue, Range
\* It was taken over and may be run at any depth: it is a delayed task.
<1>4. u \in delayed_work_queue
  <2>1. ~InQueue(work_queue, u) /\ ~InQueue(incoming_queue, u)
    BY <1>1, <1>2, NotTaken
  <2>2. InQueue(deferred_non_nestable_work_queue, u) \/ u \in delayed_work_queue
    BY <1>2, <1>3, <2>1, WaitsOnce
  <2> QED BY <1>1, <2>2 DEF OrderInv, DeferredIsDue
<1>5. CASE pending_task[h].delayed_run_time = Null
  <2>1. pending_task[u].delayed_run_time # Null
    BY <1>4 DEF QueuedWasPosted
  <2> QED BY <1>1, <1>2, <1>5, <2>1 DEF Null
<1>6. CASE IsTop(pending_task, delayed_work_queue, h)
  <2>1. h \in delayed_work_queue
    BY <1>6 DEF IsTop
  <2>2. u # h
    BY <1>1, <1>2 DEF PostedOnce
  <2>3. RunsBefore(pending_task, h, u)
    BY <1>4, <1>6, <2>2 DEF IsTop
  <2>4. /\ pending_task[u].delayed_run_time = pending_task[h].delayed_run_time
        /\ pending_task[h].sequence_num < pending_task[u].sequence_num
    BY <1>1, <1>2, <2>3 DEF RunsBefore
  <2>5. PICK j \in DOMAIN posted : i < j /\ posted[j] = h
    BY <1>1, <1>2, <2>4
  <2>6. pending_task[u].sequence_num < pending_task[h].sequence_num
    BY <1>1, <1>2, <1>4, <2>1, <2>5 DEF Numbered
  <2> QED BY <1>2, <2>4, <2>6
<1> QED BY <1>5, <1>6

\* The loop starts h, the task it takes over now or took over before:
\* TaskRunner may.
LEMMA MayStart ==
  ASSUME TypeOK, QueuedWasPosted, PlacesInv, OrderInv, NEW h \in Task,
         \/ pending_task[h].delayed_run_time = Null
         \/ IsTop(pending_task, delayed_work_queue, h)
         \/ ~pending_task[h].nestable,
         NEW k \in DOMAIN posted, posted[k] = h, k <= Taken',
         Taken' = Taken \/ (Taken' = Taken + 1 /\ k = Taken + 1),
         h \notin started,
         pending_task[h].delayed_run_time <= now,
         started' = started \union {h},
         UNCHANGED <<posted, pending_task, now>>
  PROVE  Runner!Next
<1>1. /\ posted \in Seq(Task) /\ DOMAIN posted = 1 .. Len(posted)
      /\ Len(posted) \in Nat /\ Taken \in Nat /\ Taken <= Len(posted)
      /\ PostedOnce
      /\ pending_task[h].delayed_run_time \in Nat
  <2>1. Taken <= Len(posted)
    BY DEF TypeOK, OrderInv, QueuesInOrder, Taken
  <2> QED BY <2>1 DEF TypeOK, PendingTask, OrderInv, QueuesInOrder, PlacesInv
<1>2. Taken' \in Taken .. (Taken + 1) /\ Taken' <= Len(posted) /\ Taken' \in Nat
  BY <1>1
<1>3. ASSUME NEW i \in 1 .. Taken', Runner!Precedes(posted[i], h)
      PROVE  posted[i] \in started
  <2>1. i \in DOMAIN posted /\ posted[i] \in Task
    BY <1>1, <1>2
  <2>2. InQueue(posted, posted[i]) /\ InQueue(posted, h)
    BY <2>1 DEF InQueue, Range
  <2>3. /\ pending_task[posted[i]].nestable /\ pending_task[h].nestable
        /\ \/ pending_task[posted[i]].delayed_run_time < pending_task[h].delayed_run_time
           \/ /\ pending_task[posted[i]].delayed_run_time
                   = pending_task[h].delayed_run_time
              /\ \E l, j \in DOMAIN posted :
                   l < j /\ posted[l] = posted[i] /\ posted[j] = h
    BY <1>3, <2>1, <2>2 DEF Runner!Precedes
  <2>4. \/ pending_task[posted[i]].delayed_run_time < pending_task[h].delayed_run_time
        \/ /\ pending_task[posted[i]].delayed_run_time = pending_task[h].delayed_run_time
           /\ \E j \in DOMAIN posted : i < j /\ posted[j] = h
    BY <1>1, <2>1, <2>3 DEF PostedOnce
  <2>5. posted[i] # h
    BY <1>1, <2>1, <2>4 DEF PostedOnce
  <2>6. i <= Taken
    BY <1>1, <1>2, <2>5
  <2> QED BY <2>1, <2>3, <2>4, <2>6, NonePrecedes
<1>4. h \in Runner!TakenOver' /\ \A u \in Runner!TakenOver' :
         Runner!Precedes(u, h) => u \in started
  BY <1>1, <1>2, <1>3 DEF Runner!TakenOver
<1>5. [t \in Task |-> IF InQueue(posted, t)
                     THEN pending_task[t].delayed_run_time ELSE Null][h] <= now
  BY DEF InQueue, Range
<1>6. Runner!Start(h)
  BY <1>2, <1>4, <1>5 DEF Runner!Start
<1> QED BY <1>6 DEF Runner!Next

LEMMA ImplementsStep ==
  ASSUME TypeOK, IInv, PlacesInv, OrderInv, [Next]_vars
  PROVE  [Runner!Next]_(Runner!vars)
<1>1. /\ QueuedWasPosted /\ PostedOnce /\ StartedWasPosted /\ EachTaskOnce
      /\ QueuesInOrder /\ Taken \in Nat
      /\ posted \in Seq(Task) /\ DOMAIN posted = 1 .. Len(posted)
      /\ work_queue \in Seq(Task)
      /\ deferred_non_nestable_work_queue \in Seq(Task)
      /\ now \in Nat /\ recent_time <= now /\ recent_time \in Nat
      /\ \A t \in Task : pending_task[t].delayed_run_time \in Nat
  BY DEF IInv, PlacesInv, OrderInv, QueuesInOrder, TimesArePast, TypeOK, PendingTask
\* What clients see of the posted tasks stays as it is.
<1>2. \A t \in Task : InQueue(posted, t) =>
        /\ pending_task'[t].nestable = pending_task[t].nestable
        /\ pending_task'[t].delayed_run_time = pending_task[t].delayed_run_time
  BY PostedKeeps
<1>3. ASSUME UNCHANGED posted
      PROVE  /\ UNCHANGED [t \in Task |-> IF InQueue(posted, t)
                             THEN pending_task[t].delayed_run_time ELSE Null]
             /\ UNCHANGED [t \in Task |-> IF InQueue(posted, t)
                             THEN pending_task[t].nestable ELSE TRUE]
  BY <1>2, <1>3
<1>4. ASSUME UNCHANGED <<posted, started, now>>, UNCHANGED Taken
      PROVE  UNCHANGED Runner!vars
  BY <1>3, <1>4 DEF Runner!vars
\* A delayed or a deferred task is taken over, it starts later.
<1>5. ASSUME DoWorkDelayed \/ DoWorkImmediate, UNCHANGED <<posted, started, now>>
      PROVE  Runner!Next
  <2>1. Taken < Len(posted) /\ Taken' = Taken + 1
    BY <1>1, <1>5, TakenGrows
  <2>2. Runner!TakeOver
    BY <1>3, <1>5, <2>1 DEF Runner!TakeOver
  <2> QED BY <2>2 DEF Runner!Next
<1>6. ASSUME NEW th \in Thread, AddToIncomingQueue(th) PROVE Runner!Next
  <2>1. PICK x \in Task : x = posting[th].task
    BY <1>6, PushedTask DEF AddToIncomingQueue
  <2>2. /\ posted' = Append(posted, x)
        /\ UNCHANGED <<started, now, pending_task>>
        /\ ~InQueue(posted, x)
    BY <1>6, <2>1 DEF AddToIncomingQueue, PlacesInv, PushedIsNew
  <2>3. \A t : InQueue(posted', t) <=> InQueue(posted, t) \/ t = x
    BY <1>1, <2>2, AppendInQueue
  <2>4. PICK delay \in Delays :
          IF delay = 0 THEN pending_task[x].delayed_run_time = Null
          ELSE /\ pending_task[x].delayed_run_time > delay
               /\ pending_task[x].delayed_run_time <= now + delay
    BY <1>6, <2>1 DEF AddToIncomingQueue, OrderInv, PushedIsDue
  <2>5. ~Runner!Posted(x)
    BY <2>2 DEF Runner!Posted, Runner!Range, InQueue, Range
  <2>6. Taken' = Taken
    BY <1>1, <1>6, TakenGrows
  <2>7. Runner!Post(x, delay)
    BY <2>2, <2>3, <2>4, <2>5, <2>6 DEF Runner!Post
  <2> QED BY <2>7 DEF Runner!Next
<1>7. CASE DoWorkImmediate
  <2>1. PICK h \in Task : h = Head(work_queue)
    BY <1>1, <1>7 DEF DoWorkImmediate
  <2>2. /\ work_queue # <<>> /\ pending_task[h].delayed_run_time = Null
        /\ UNCHANGED <<posted, pending_task, now>>
        /\ UNCHANGED started \/ started' = started \union {h}
    BY <1>7, <2>1, DeferredOrStarted DEF DoWorkImmediate, shared
  <2>3. h \notin started /\ pending_task[h].delayed_run_time <= now
    BY <1>1, <2>1, <2>2, HeadTailInQueue, WaitsOnce DEF Null
  <2>4. /\ Taken + 1 \in DOMAIN posted /\ posted[Taken + 1] = h
        /\ Taken' = Taken + 1 /\ Taken + 1 <= Taken'
    BY <1>1, <1>7, <2>1, <2>2, HeadIsNext, TakenGrows
  <2>5. CASE started' = started \union {h}
    BY <1>1, <2>2, <2>3, <2>4, <2>5, MayStart
  <2> QED BY <1>5, <1>7, <2>2, <2>5
<1>8. ASSUME NEW h \in Task, DoDelayedWorkDue(h) PROVE [Runner!Next]_(Runner!vars)
  <2>1. /\ IsTop(pending_task, delayed_work_queue, h)
        /\ pending_task[h].delayed_run_time <= Refreshed(h)
        /\ UNCHANGED <<posted, pending_task, now>>
        /\ UNCHANGED started \/ started' = started \union {h}
    BY <1>8, DeferredOrStarted DEF DoDelayedWorkDue, InDoDelayedWork, shared
  <2>2. h \in delayed_work_queue /\ h \notin started /\ Taken' = Taken
    BY <1>1, <1>8, <2>1, WaitsOnce, TakenGrows DEF IsTop
  <2>3. Refreshed(h) <= now /\ Refreshed(h) \in Nat
    BY <1>1 DEF Refreshed
  <2>4. pending_task[h].delayed_run_time <= now
    BY <1>1, <2>1, <2>3
  <2>5. PICK k \in DOMAIN posted : posted[k] = h /\ k <= Taken
    BY <1>1, <2>2, WaitingWasTaken
  <2>6. CASE started' = started \union {h}
    BY <1>1, <2>1, <2>2, <2>4, <2>5, <2>6, MayStart
  <2> QED BY <1>4, <2>1, <2>2, <2>6
<1>9. CASE ProcessNextDelayedNonNestableTask
  <2> DEFINE q == deferred_non_nestable_work_queue
  <2>1. PICK h \in Task : h = Head(q)
    BY <1>1, <1>9 DEF ProcessNextDelayedNonNestableTask, MayRunDeferred
  <2>2. /\ q # <<>> /\ started' = started \union {h}
        /\ UNCHANGED <<posted, pending_task, now>>
    BY <1>9, <2>1 DEF ProcessNextDelayedNonNestableTask, MayRunDeferred, RunTask,
                      shared
  <2>3. InQueue(q, h)
    BY <1>1, <2>1, <2>2, HeadTailInQueue
  <2>4. h \notin started /\ Taken' = Taken
    BY <1>1, <1>9, <2>3, WaitsOnce, TakenGrows
  <2>5. ~pending_task[h].nestable /\ pending_task[h].delayed_run_time <= now
    BY <2>3 DEF OrderInv, DeferredIsDue
  <2>6. PICK k \in DOMAIN posted : posted[k] = h /\ k <= Taken
    BY <1>1, <2>3, WaitingWasTaken
  <2> QED BY <1>1, <2>2, <2>4, <2>5, <2>6, MayStart
<1>10. CASE Tick
  <2>1. now' = now + 1 /\ UNCHANGED <<posted, started>> /\ UNCHANGED Taken
    BY <1>10 DEF Tick, queues, Taken
  <2>2. Runner!Tick
    BY <1>3, <2>1 DEF Runner!Tick
  <2> QED BY <2>2 DEF Runner!Next
<1>11. CASE DoWorkDelayed
  BY <1>5, <1>11 DEF DoWorkDelayed, shared
<1>12. ASSUME ~ \E th \in Thread : AddToIncomingQueue(th),
              ~DoWorkDelayed, ~DoWorkImmediate,
              ~ \E t \in Task : DoDelayedWorkDue(t),
              ~ProcessNextDelayedNonNestableTask, ~Tick
       PROVE  UNCHANGED Runner!vars
  <2>1. NoTaskMoves \/ ReloadWorkQueue
    BY <1>12, OtherSteps
  <2>2. UNCHANGED Taken
    BY <1>1, <2>1, TakenGrows
  <2>3. UNCHANGED <<posted, started, now>>
    BY <1>12
       DEF Next, vars, shared, queues, Client, PostTask, Run, Quit, QuitNow,
           SetNestableTasksAllowed, Post, ScheduleWork, Pump, TaskReturns,
           DoWork, DoWorkRefused, ReloadWorkQueue, DoWorkDone, DoDelayedWork,
           DoDelayedWorkNone, DoDelayedWorkNotYet, DoIdleWork, DoIdleWorkQuits,
           DoIdleWorkNone, PumpWaits, PumpDecidesToWait, PumpWakes, PumpTimesOut
  <2> QED BY <1>4, <2>2, <2>3
<1> QED BY <1>6, <1>7, <1>8, <1>9, <1>10, <1>11, <1>12

\* To its clients the loop is TaskRunner, for any number of tasks and threads
\* any nesting: no task starts before its time or twice, and of the nestable
\* tasks that DoWork has taken over none starts while another has an earlier
\* run time, or the same one and was posted first.
THEOREM LoopIsTaskRunner == Spec => ImplementsTaskRunner
<1>1. Init => Runner!Init
  <2> SUFFICES ASSUME Init PROVE Runner!Init
    OBVIOUS
  <2>1. /\ posted = <<>> /\ started = {} /\ now = 1
        /\ work_queue = <<>> /\ incoming_queue = <<>>
    BY DEF Init
  <2>2. Taken = 0
    <3>1. Len(posted) = 0 /\ Len(work_queue) = 0 /\ Len(incoming_queue) = 0
      BY <2>1
    <3>2. Taken = 0 - 0 - 0
      BY <3>1, Zenon DEF Taken
    <3> QED BY <3>2
  <2>3. \A t \in Task : ~InQueue(posted, t)
    BY <2>1, EmptyInQueue
  <2> QED BY <2>1, <2>2, <2>3 DEF Runner!Init
<1>2. TypeOK /\ IInv /\ PlacesInv /\ OrderInv /\ [Next]_vars
        => [Runner!Next]_(Runner!vars)
  BY ImplementsStep
<1> QED
  BY <1>1, <1>2, Invariance, PlacesAlways, OrderAlways, PTL
  DEF Spec, ImplementsTaskRunner, Runner!Spec

-----------------------------------------------------------------------------
(* Sequence numbers that wrap *)

\* The task queued just now has the number next_sequence_num_ had.
THEOREM NewestNumber ==
  ASSUME NEW half \in Nat \ {0}, NEW next \in Ints(half)
  PROVE  /\ Increment(next, half) \in Ints(half)
         /\ NumberOf(Increment(next, half), 1, half) = next
  BY DEF Ints, Wrap, Increment, NumberOf

\* Queueing another task makes every task one older and leaves its number.
THEOREM NumbersStay ==
  ASSUME NEW half \in Nat \ {0}, NEW next \in Ints(half), NEW age \in 1 .. 2 * half - 1
  PROVE  NumberOf(Increment(next, half), age + 1, half) = NumberOf(next, age, half)
  BY DEF Ints, Wrap, Increment, NumberOf

\* Of two tasks with the same run time the one queued first runs first, across
\* the wrap of next_sequence_num_, as long as fewer than half other tasks were
\* queued between them.
THEOREM OrderSurvivesWrap ==
  ASSUME NEW half \in Nat \ {0}, NEW next \in Ints(half),
         NEW age \in 1 .. 2 * half, NEW other \in 1 .. 2 * half,
         age - other < half, other - age < half
  PROVE  RunsAfter(NumberOf(next, age, half), NumberOf(next, other, half), half)
           <=> age < other
  BY DEF Ints, Wrap, NumberOf, RunsAfter

\* The builds agree as long as next_sequence_num_ does not wrap between the two
\* tasks and fewer than half others were queued between them.
THEOREM BuildsAgree ==
  ASSUME NEW half \in Nat \ {0}, NEW next \in Ints(half),
         NEW age \in 1 .. 2 * half, NEW other \in 1 .. 2 * half,
         age - other < half, other - age < half,
         next - age >= -half <=> next - other >= -half
  PROVE  RunsAfterCompared(NumberOf(next, age, half), NumberOf(next, other, half))
           <=> RunsAfter(NumberOf(next, age, half), NumberOf(next, other, half), half)
  BY DEF Ints, Wrap, NumberOf, RunsAfter, RunsAfterCompared

\* Otherwise a build that compares runs the younger of the two tasks first.
THEOREM OrderLostAtWrap ==
  ASSUME NEW half \in Nat \ {0}, NEW next \in Ints(half),
         NEW age \in 1 .. 2 * half, NEW other \in 1 .. 2 * half,
         next - age >= -half, next - other < -half
  PROVE  /\ age < other
         /\ ~RunsAfterCompared(NumberOf(next, age, half), NumberOf(next, other, half))
  BY DEF Ints, Wrap, NumberOf, RunsAfterCompared

\* The bound is exact: at a distance of half the two tasks count as equal, and
\* beyond it the younger one runs first.
THEOREM OrderLostBeyond ==
  ASSUME NEW half \in Nat \ {0}, NEW next \in Ints(half),
         NEW age \in 1 .. 2 * half, NEW other \in 1 .. 2 * half,
         other - age >= half
  PROVE  /\ ~RunsAfter(NumberOf(next, age, half), NumberOf(next, other, half), half)
         /\ other - age > half /\ other - age < 2 * half =>
              RunsAfter(NumberOf(next, other, half), NumberOf(next, age, half), half)
  BY DEF Ints, Wrap, NumberOf, RunsAfter

-----------------------------------------------------------------------------
(* The clock *)

LEMMA ClockInductive ==
  ASSUME Period \in Nat \ {0}
  PROVE  Clock!Spec => [](Clock!TypeOK /\ Clock!WrappedOnce)
<1>1. Clock!Init => Clock!TypeOK /\ Clock!WrappedOnce
  BY DEF Clock!Init, Clock!TypeOK, Clock!WrappedOnce
<1>2. Clock!TypeOK /\ Clock!WrappedOnce /\ [Clock!Next]_(Clock!vars)
        => (Clock!TypeOK /\ Clock!WrappedOnce)'
  <2> SUFFICES ASSUME Clock!TypeOK, Clock!WrappedOnce, [Clock!Next]_(Clock!vars)
               PROVE  (Clock!TypeOK /\ Clock!WrappedOnce)'
    OBVIOUS
  <2>1. CASE Clock!Millisecond
    BY <2>1 DEF Clock!TypeOK, Clock!WrappedOnce, Clock!Millisecond
  <2>2. CASE Clock!RolloverProtectedNow
    BY <2>2 DEF Clock!TypeOK, Clock!WrappedOnce, Clock!RolloverProtectedNow
  <2>3. CASE UNCHANGED Clock!vars
    BY <2>3 DEF Clock!TypeOK, Clock!WrappedOnce, Clock!vars
  <2> QED
    BY <2>1, <2>2, <2>3 DEF Clock!Next
<1> QED
  BY <1>1, <1>2, PTL DEF Clock!Spec

\* RolloverProtectedNow loses no time, for any width of timeGetTime, if it is
\* called at least once in each of its periods.
THEOREM ClockIsExact ==
  ASSUME Period \in Nat \ {0}
  PROVE  Clock!Spec => Clock!NowIsExact
<1>1. Clock!TypeOK /\ Clock!WrappedOnce /\ [Clock!Next]_(Clock!vars)
        => [Clock!RolloverProtectedNow => Clock!Now' = Clock!Now + passed]_(Clock!vars)
  BY DEF Clock!TypeOK, Clock!WrappedOnce, Clock!RolloverProtectedNow, Clock!Now
<1> QED
  BY ClockInductive, <1>1, PTL DEF Clock!Spec, Clock!NowIsExact

=============================================================================
