----------------------------- MODULE MessageLoop -----------------------------
(***************************************************************************)
(* base::MessageLoop driven by base::MessagePumpDefault                    *)
(* (src/base/message_loop.cpp, src/base/message_pump_default.cpp): one     *)
(* thread runs the loop, every thread may post to it.                      *)
(*                                                                         *)
(* A step is what one thread does between two points where another thread *)
(* can interfere: the incoming queue's lock, the pump's event, the clock,  *)
(* or the body of a task, which is the client's code and may post, quit,   *)
(* change nestable_tasks_allowed_ or run the loop again from inside.       *)
(***************************************************************************)
EXTENDS Naturals, Sequences, FiniteSets, Functions

CONSTANTS
  Task,       \* the tasks that are ever posted
  Poster,     \* the threads that post, other than the loop's own
  Loop,       \* the thread the loop lives on
  Closure,    \* what Closure::Equals tells apart; one may be posted twice
  Delays,     \* the delays, in ticks, a task may be posted with; 0: none
  MaxDepth,   \* bound: how deeply Run is nested
  MaxRuns,    \* bound: calls of Run and RunAllPending
  MaxTime     \* bound: the last instant of the clock

ASSUME ConstantsAssumption ==
  /\ Loop \notin Poster
  /\ Closure # {}
  /\ Delays \subseteq Nat
  /\ MaxDepth \in Nat \ {0}
  /\ MaxRuns \in Nat
  /\ MaxTime \in Nat

VARIABLES
  \* shared between the threads
  incoming_queue,     \* guarded by incoming_queue_lock_
  event,              \* MessagePumpDefault::event_, an auto-reset event
  posting,            \* where each thread is in a Post*Task call
  now,                \* TimeTicks::Now(); 0 is the null TimeTicks
  \* the loop thread's own
  pending_task,       \* the fields of each task's PendingTask
  work_queue,
  delayed_work_queue, \* the tasks of the priority queue
  deferred_non_nestable_work_queue,
  nestable_tasks_allowed,
  recent_time,
  next_sequence_num,
  keep_running,       \* of the pump, shared by all nested runs
  delayed_work_time,  \* of the pump, shared by all nested runs
  run_depth,          \* 0 outside Run
  state,              \* the RunState and the pump's position, per depth
  \* history
  runs,               \* how often Run or RunAllPending was called
  posted,             \* the tasks in the order they entered incoming_queue
  started             \* the tasks whose Run() was called

shared == <<incoming_queue, event, posting, now>>
queues == <<work_queue, delayed_work_queue, deferred_non_nestable_work_queue>>
vars == <<shared, pending_task, queues, nestable_tasks_allowed, recent_time,
          next_sequence_num, keep_running, delayed_work_time, run_depth, state,
          runs, posted, started>>

Null == 0
Thread == Poster \union {Loop}
Depth == 1..MaxDepth

PendingTask == [task : Closure, delayed_run_time : Nat, nestable : BOOLEAN,
                sequence_num : Nat]

\* The task a thread is posting; "push": its run time is computed, the queue
\* not yet touched; "schedule": pushed on an empty queue, lock released.
Idle == [pc |-> "idle"]
Posting == {Idle} \union [pc : {"push"}, task : Task] \union [pc : {"schedule"}]

\* pc: the handler the pump calls next, "blocked" in WaitForSingleObject, or
\* "task" while a task runs; from: the handler that runs it; did: did_work.
RunState == [pc   : {"work", "delayed", "idle", "wait", "blocked", "task"},
             from : {"work", "delayed", "idle"},
             did  : BOOLEAN,
             quit : BOOLEAN]

AutoRunState(quit) ==
  [pc |-> "work", from |-> "work", did |-> FALSE, quit |-> quit]

Top == state[run_depth]

Init ==
  /\ incoming_queue = <<>>
  /\ event = FALSE
  /\ posting = [th \in Thread |-> Idle]
  /\ now = 1
  /\ pending_task = [t \in Task |->
       [task |-> CHOOSE c \in Closure : TRUE, delayed_run_time |-> Null,
        nestable |-> TRUE, sequence_num |-> 0]]
  /\ work_queue = <<>>
  /\ delayed_work_queue = {}
  /\ deferred_non_nestable_work_queue = <<>>
  /\ nestable_tasks_allowed = TRUE
  /\ recent_time = Null
  /\ next_sequence_num = 0
  /\ keep_running = TRUE
  /\ delayed_work_time = Null
  /\ run_depth = 0
  /\ state = [d \in Depth |-> AutoRunState(FALSE)]
  /\ runs = 0
  /\ posted = <<>>
  /\ started = {}

-----------------------------------------------------------------------------
(* Client code on the loop thread: outside Run, or in the body of a task.  *)

InTask == run_depth > 0 /\ Top.pc = "task" /\ posting[Loop] = Idle
OutsideRun == run_depth = 0 /\ posting[Loop] = Idle

MayPost(th) ==
  /\ posting[th] = Idle
  /\ th = Loop => OutsideRun \/ InTask

Unposted(t) ==
  /\ t \notin Range(posted)
  /\ \A th \in Thread : posting[th].pc = "push" => posting[th].task # t

\* CalculateDelayedRuntime(delay), before the queue's lock is taken.
PostTask(th, t, closure, delay, nestable) ==
  /\ MayPost(th)
  /\ Unposted(t)
  /\ now + delay <= MaxTime
  /\ pending_task' = [pending_task EXCEPT ![t] =
       [task |-> closure,
        delayed_run_time |-> IF delay > 0 THEN now + delay ELSE Null,
        nestable |-> nestable, sequence_num |-> 0]]
  /\ posting' = [posting EXCEPT ![th] = [pc |-> "push", task |-> t]]
  /\ UNCHANGED <<incoming_queue, event, now, queues, nestable_tasks_allowed,
                 recent_time, next_sequence_num, keep_running,
                 delayed_work_time, run_depth, state, runs, posted, started>>

\* Mutant: was_empty is read after the push.
WasEmptyReadLate(th) ==
  /\ posting[th].pc = "push"
  /\ incoming_queue' = Append(incoming_queue, posting[th].task)
  /\ posted' = Append(posted, posting[th].task)
  /\ posting' = [posting EXCEPT ![th] =
                   IF incoming_queue' = <<>> THEN [pc |-> "schedule"] ELSE Idle]
  /\ UNCHANGED <<event, now, pending_task, queues, nestable_tasks_allowed,
                 recent_time, next_sequence_num, keep_running,
                 delayed_work_time, run_depth, state, runs, started>>

\* Under incoming_queue_lock_: only the post that finds the queue empty goes
\* on to wake the pump.
AddToIncomingQueue(th) ==
  /\ posting[th].pc = "push"
  /\ incoming_queue' = Append(incoming_queue, posting[th].task)
  /\ posted' = Append(posted, posting[th].task)
  /\ posting' = [posting EXCEPT ![th] =
                   IF incoming_queue = <<>> THEN [pc |-> "schedule"] ELSE Idle]
  /\ UNCHANGED <<event, now, pending_task, queues, nestable_tasks_allowed,
                 recent_time, next_sequence_num, keep_running,
                 delayed_work_time, run_depth, state, runs, started>>

\* pump->ScheduleWork(), after the lock was released.
ScheduleWork(th) ==
  /\ posting[th].pc = "schedule"
  /\ event' = TRUE
  /\ posting' = [posting EXCEPT ![th] = Idle]
  /\ UNCHANGED <<incoming_queue, now, pending_task, queues,
                 nestable_tasks_allowed, recent_time, next_sequence_num,
                 keep_running, delayed_work_time, run_depth, state, runs,
                 posted, started>>

\* Run() (quit = FALSE) or RunAllPending() (quit = TRUE), at the top or inside
\* a task. A Run inside a task that has not allowed nestable tasks could run
\* nothing, not even the task that would quit it: clients do not call it.
Run(quit) ==
  /\ OutsideRun \/ InTask
  /\ run_depth < MaxDepth /\ runs < MaxRuns
  /\ keep_running                      \* DCHECK of MessagePumpDefault::Run
  /\ ~quit => nestable_tasks_allowed
  /\ runs' = runs + 1
  /\ run_depth' = run_depth + 1
  /\ state' = [state EXCEPT ![run_depth + 1] = AutoRunState(quit)]
  /\ UNCHANGED <<shared, pending_task, queues, nestable_tasks_allowed,
                 recent_time, next_sequence_num, keep_running,
                 delayed_work_time, posted, started>>

Quit ==
  /\ InTask
  /\ state' = [state EXCEPT ![run_depth].quit = TRUE]
  /\ UNCHANGED <<shared, pending_task, queues, nestable_tasks_allowed,
                 recent_time, next_sequence_num, keep_running,
                 delayed_work_time, run_depth, runs, posted, started>>

QuitNow ==
  /\ InTask
  /\ keep_running' = FALSE
  /\ UNCHANGED <<shared, pending_task, queues, nestable_tasks_allowed,
                 recent_time, next_sequence_num, delayed_work_time, run_depth,
                 state, runs, posted, started>>

\* The two halves of a ScopedNestableTaskAllower.
SetNestableTasksAllowed(allowed) ==
  /\ InTask
  /\ nestable_tasks_allowed # allowed
  /\ nestable_tasks_allowed' = allowed
  /\ event' = (event \/ allowed)       \* pump_->ScheduleWork()
  /\ UNCHANGED <<incoming_queue, posting, now, pending_task, queues,
                 recent_time, next_sequence_num, keep_running,
                 delayed_work_time, run_depth, state, runs, posted, started>>

-----------------------------------------------------------------------------
(* The pump.                                                               *)

At(pc) == run_depth > 0 /\ Top.pc = pc

GoTo(pc, did) ==
  /\ state' = [state EXCEPT ![run_depth] =
                  [pc |-> pc, from |-> "work", did |-> did, quit |-> Top.quit]]
  /\ UNCHANGED <<run_depth, keep_running>>

\* MessagePumpDefault::Run returns and ~AutoRunState pops the RunState.
PumpReturns ==
  /\ keep_running' = TRUE
  /\ run_depth' = run_depth - 1
  /\ state' = [state EXCEPT ![run_depth] = AutoRunState(FALSE)]

\* Mutant: the pump looks at keep_running_ after DoIdleWork only.
NeverBreaks(pc, did) == GoTo(pc, did)

\* A handler returned: leave the loop if Quit was called meanwhile.
HandlerReturns(pc, did) == IF keep_running THEN GoTo(pc, did) ELSE PumpReturns

\* RunTask up to the call of the task.
RunTask(t, handler) ==
  /\ nestable_tasks_allowed' = FALSE
  /\ started' = started \union {t}
  /\ state' = [state EXCEPT ![run_depth] =
                  [pc |-> "task", from |-> handler, did |-> Top.did,
                   quit |-> Top.quit]]
  /\ UNCHANGED <<run_depth, keep_running>>

\* The rest of RunTask: the handler that ran the task returns true.
TaskReturns ==
  /\ InTask
  /\ nestable_tasks_allowed' = TRUE
  /\ HandlerReturns(IF Top.from = "work" THEN "delayed" ELSE "work",
                    Top.from = "work")
  /\ UNCHANGED <<shared, pending_task, queues, recent_time, next_sequence_num,
                 delayed_work_time, runs, posted, started>>

\* The first half of DeferOrRunPendingTask's condition.
MayRun(t) == pending_task[t].nestable \/ run_depth = 1

\* DeferOrRunPendingTask, called by the handler that goes on to "next" when
\* the task is deferred.
DeferOrRunPendingTask(t, handler, next) ==
  \/ /\ MayRun(t)
     /\ RunTask(t, handler)
     /\ UNCHANGED deferred_non_nestable_work_queue
  \/ /\ ~MayRun(t)
     /\ deferred_non_nestable_work_queue' =
          Append(deferred_non_nestable_work_queue, t)
     /\ next
     /\ UNCHANGED <<nestable_tasks_allowed, started>>

\* Mutant: the delayed tasks are kept in the order they were posted.
IgnoresRunTime(pt, t, u) == pt[t].sequence_num < pt[u].sequence_num

\* PendingTask::operator< puts the task to run first on top.
RunsBefore(pt, t, u) ==
  \/ pt[t].delayed_run_time < pt[u].delayed_run_time
  \/ /\ pt[t].delayed_run_time = pt[u].delayed_run_time
     /\ pt[t].sequence_num < pt[u].sequence_num

IsTop(pt, q, t) == t \in q /\ \A u \in q \ {t} : RunsBefore(pt, t, u)

-----------------------------------------------------------------------------
(* DoWork *)

\* Mutant: DoWork does not look at nestable_tasks_allowed_.
InDoWorkAnyway == At("work")

InDoWork == At("work") /\ nestable_tasks_allowed

DoWorkRefused ==
  /\ At("work")
  /\ ~nestable_tasks_allowed
  /\ HandlerReturns("delayed", FALSE)
  /\ UNCHANGED <<shared, pending_task, queues, nestable_tasks_allowed,
                 recent_time, next_sequence_num, delayed_work_time, runs,
                 posted, started>>

\* Mutant: the incoming queue is copied, not swapped.
CopyWorkQueue ==
  /\ InDoWork
  /\ work_queue = <<>> /\ incoming_queue # <<>>
  /\ work_queue' = incoming_queue
  /\ UNCHANGED <<shared, pending_task, delayed_work_queue,
                 deferred_non_nestable_work_queue, nestable_tasks_allowed,
                 recent_time, next_sequence_num, keep_running,
                 delayed_work_time, run_depth, state, runs, posted, started>>

\* Under incoming_queue_lock_: swap the queues.
ReloadWorkQueue ==
  /\ InDoWork
  /\ work_queue = <<>> /\ incoming_queue # <<>>
  /\ work_queue' = incoming_queue
  /\ incoming_queue' = <<>>
  /\ UNCHANGED <<event, posting, now, pending_task, delayed_work_queue,
                 deferred_non_nestable_work_queue, nestable_tasks_allowed,
                 recent_time, next_sequence_num, keep_running,
                 delayed_work_time, run_depth, state, runs, posted, started>>

\* Under incoming_queue_lock_: nothing to reload, DoWork returns false.
DoWorkDone ==
  /\ InDoWork
  /\ work_queue = <<>> /\ incoming_queue = <<>>
  /\ HandlerReturns("delayed", FALSE)
  /\ UNCHANGED <<shared, pending_task, queues, nestable_tasks_allowed,
                 recent_time, next_sequence_num, delayed_work_time, runs,
                 posted, started>>

\* AddToDelayedWorkQueue, then ScheduleDelayedWork if the task on top equals
\* this one: it may be another with the same closure and an earlier time.
DoWorkDelayed ==
  /\ InDoWork
  /\ work_queue # <<>>
  /\ LET t == Head(work_queue)
         pt == [pending_task EXCEPT ![t].sequence_num = next_sequence_num]
         q == delayed_work_queue \union {t}
     IN  /\ pending_task[t].delayed_run_time # Null
         /\ pending_task' = pt
         /\ delayed_work_queue' = q
         /\ delayed_work_time' =
              IF \E u \in q : IsTop(pt, q, u) /\ pt[u].task = pt[t].task
              THEN pt[t].delayed_run_time ELSE delayed_work_time
  /\ next_sequence_num' = next_sequence_num + 1
  /\ work_queue' = Tail(work_queue)
  /\ UNCHANGED <<shared, deferred_non_nestable_work_queue,
                 nestable_tasks_allowed, recent_time, keep_running, run_depth,
                 state, runs, posted, started>>

\* A task without delay is run or, in a nested loop, deferred.
DoWorkImmediate ==
  /\ InDoWork
  /\ work_queue # <<>>
  /\ pending_task[Head(work_queue)].delayed_run_time = Null
  /\ DeferOrRunPendingTask(Head(work_queue), "work",
                           UNCHANGED <<state, run_depth, keep_running>>)
  /\ work_queue' = Tail(work_queue)
  /\ UNCHANGED <<shared, pending_task, delayed_work_queue, recent_time,
                 next_sequence_num, delayed_work_time, runs, posted>>

-----------------------------------------------------------------------------
(* DoDelayedWork *)

\* DoDelayedWork returned false: the pump looks at DoWork's answer.
DelayedIdle == HandlerReturns(IF Top.did THEN "work" ELSE "idle", FALSE)

DoDelayedWorkNone ==
  /\ At("delayed")
  /\ ~nestable_tasks_allowed \/ delayed_work_queue = {}
  /\ recent_time' = Null
  /\ delayed_work_time' = Null
  /\ DelayedIdle
  /\ UNCHANGED <<shared, pending_task, queues, nestable_tasks_allowed,
                 next_sequence_num, runs, posted, started>>

InDoDelayedWork(t) ==
  /\ At("delayed")
  /\ nestable_tasks_allowed
  /\ IsTop(pending_task, delayed_work_queue, t)

\* Mutant: the cached time is never refreshed.
NeverRefreshed(t) == recent_time

\* recent_time, refreshed only when the cached value says "not yet".
Refreshed(t) ==
  IF pending_task[t].delayed_run_time > recent_time THEN now ELSE recent_time

\* Mutant: a timer that is set is left as it is.
NotYetUnlessArmed(t) ==
  /\ InDoDelayedWork(t)
  /\ pending_task[t].delayed_run_time > Refreshed(t)
  /\ recent_time' = Refreshed(t)
  /\ delayed_work_time' =
       IF delayed_work_time = Null THEN pending_task[t].delayed_run_time
                                   ELSE delayed_work_time
  /\ DelayedIdle
  /\ UNCHANGED <<shared, pending_task, queues, nestable_tasks_allowed,
                 next_sequence_num, runs, posted, started>>

DoDelayedWorkNotYet(t) ==
  /\ InDoDelayedWork(t)
  /\ pending_task[t].delayed_run_time > Refreshed(t)
  /\ recent_time' = Refreshed(t)
  /\ delayed_work_time' = pending_task[t].delayed_run_time
  /\ DelayedIdle
  /\ UNCHANGED <<shared, pending_task, queues, nestable_tasks_allowed,
                 next_sequence_num, runs, posted, started>>

\* The new top's run time goes to the pump; with no new top, the pump keeps
\* the value it had.
DoDelayedWorkDue(t) ==
  /\ InDoDelayedWork(t)
  /\ pending_task[t].delayed_run_time <= Refreshed(t)
  /\ recent_time' = Refreshed(t)
  /\ delayed_work_queue' = delayed_work_queue \ {t}
  /\ \/ \E u \in delayed_work_queue' :
          /\ IsTop(pending_task, delayed_work_queue', u)
          /\ delayed_work_time' = pending_task[u].delayed_run_time
     \/ delayed_work_queue' = {} /\ UNCHANGED delayed_work_time
  /\ DeferOrRunPendingTask(t, "delayed", DelayedIdle)
  /\ UNCHANGED <<shared, pending_task, work_queue, next_sequence_num, runs,
                 posted>>

-----------------------------------------------------------------------------
(* DoIdleWork *)

MayRunDeferred == run_depth = 1 /\ deferred_non_nestable_work_queue # <<>>

ProcessNextDelayedNonNestableTask ==
  /\ At("idle")
  /\ MayRunDeferred
  /\ RunTask(Head(deferred_non_nestable_work_queue), "idle")
  /\ deferred_non_nestable_work_queue' = Tail(deferred_non_nestable_work_queue)
  /\ UNCHANGED <<shared, pending_task, work_queue, delayed_work_queue,
                 recent_time, next_sequence_num, delayed_work_time, runs,
                 posted>>

\* Mutant: quit_received is looked at before the deferred tasks.
QuitsFirst ==
  /\ At("idle")
  /\ Top.quit
  /\ PumpReturns
  /\ UNCHANGED <<shared, pending_task, queues, nestable_tasks_allowed,
                 recent_time, next_sequence_num, delayed_work_time, runs,
                 posted, started>>

\* quit_received: pump_->Quit() and the pump leaves its loop.
DoIdleWorkQuits ==
  /\ At("idle")
  /\ ~MayRunDeferred
  /\ Top.quit
  /\ PumpReturns
  /\ UNCHANGED <<shared, pending_task, queues, nestable_tasks_allowed,
                 recent_time, next_sequence_num, delayed_work_time, runs,
                 posted, started>>

DoIdleWorkNone ==
  /\ At("idle")
  /\ ~MayRunDeferred
  /\ ~Top.quit
  /\ HandlerReturns("wait", FALSE)
  /\ UNCHANGED <<shared, pending_task, queues, nestable_tasks_allowed,
                 recent_time, next_sequence_num, delayed_work_time, runs,
                 posted, started>>

-----------------------------------------------------------------------------
(* Waiting *)

\* The pump decides: block, or clear a delayed_work_time that has passed.
PumpDecidesToWait ==
  /\ At("wait")
  /\ \/ /\ delayed_work_time = Null \/ delayed_work_time > now
        /\ GoTo("blocked", FALSE)
        /\ UNCHANGED delayed_work_time
     \/ /\ delayed_work_time # Null /\ delayed_work_time <= now
        /\ delayed_work_time' = Null
        /\ GoTo("work", FALSE)
  /\ UNCHANGED <<shared, pending_task, queues, nestable_tasks_allowed,
                 recent_time, next_sequence_num, runs, posted, started>>

\* event_ is signaled; an auto-reset event is reset by the wait it ends.
PumpWakes ==
  /\ At("blocked")
  /\ event
  /\ event' = FALSE
  /\ GoTo("work", FALSE)
  /\ UNCHANGED <<incoming_queue, posting, now, pending_task, queues,
                 nestable_tasks_allowed, recent_time, next_sequence_num,
                 delayed_work_time, runs, posted, started>>

\* TimedWait times out.
PumpTimesOut ==
  /\ At("blocked")
  /\ delayed_work_time # Null /\ delayed_work_time <= now
  /\ GoTo("work", FALSE)
  /\ UNCHANGED <<shared, pending_task, queues, nestable_tasks_allowed,
                 recent_time, next_sequence_num, delayed_work_time, runs,
                 posted, started>>

Tick ==
  /\ now < MaxTime
  /\ now' = now + 1
  /\ UNCHANGED <<incoming_queue, event, posting, pending_task, queues,
                 nestable_tasks_allowed, recent_time, next_sequence_num,
                 keep_running, delayed_work_time, run_depth, state, runs,
                 posted, started>>

-----------------------------------------------------------------------------
Post(th) == AddToIncomingQueue(th) \/ ScheduleWork(th)

Client ==
  \/ \E th \in Thread, t \in Task, closure \in Closure, delay \in Delays,
        nestable \in BOOLEAN : PostTask(th, t, closure, delay, nestable)
  \/ \E quit \in BOOLEAN : Run(quit)
  \/ Quit
  \/ QuitNow
  \/ \E allowed \in BOOLEAN : SetNestableTasksAllowed(allowed)

DoWork ==
  DoWorkRefused \/ ReloadWorkQueue \/ DoWorkDone \/ DoWorkDelayed \/ DoWorkImmediate

DoDelayedWork ==
  \/ DoDelayedWorkNone
  \/ \E t \in Task : DoDelayedWorkNotYet(t) \/ DoDelayedWorkDue(t)

DoIdleWork ==
  ProcessNextDelayedNonNestableTask \/ DoIdleWorkQuits \/ DoIdleWorkNone

PumpWaits == PumpDecidesToWait \/ PumpWakes \/ PumpTimesOut

Pump == TaskReturns \/ DoWork \/ DoDelayedWork \/ DoIdleWork \/ PumpWaits

Next ==
  \/ Client
  \/ \E th \in Thread : Post(th)
  \/ Pump
  \/ Tick

Spec == Init /\ [][Next]_vars

\* The scheduler runs every thread, the clock advances and a task's body ends.
\* A task need not quit a loop it runs inside.
Fairness ==
  /\ \A th \in Thread : WF_vars(Post(th))
  /\ WF_vars(Pump)
  /\ WF_vars(Tick)

FairSpec == Spec /\ Fairness

-----------------------------------------------------------------------------
(* Properties                                                              *)

TypeOK ==
  /\ incoming_queue \in Seq(Task)
  /\ event \in BOOLEAN
  /\ posting \in [Thread -> Posting]
  /\ now \in Nat
  /\ pending_task \in [Task -> PendingTask]
  /\ work_queue \in Seq(Task)
  /\ delayed_work_queue \in SUBSET Task
  /\ deferred_non_nestable_work_queue \in Seq(Task)
  /\ nestable_tasks_allowed \in BOOLEAN
  /\ recent_time \in Nat
  /\ next_sequence_num \in Nat
  /\ keep_running \in BOOLEAN
  /\ delayed_work_time \in Nat
  /\ run_depth \in 0..MaxDepth
  /\ state \in [Depth -> RunState]
  /\ runs \in Nat
  /\ posted \in Seq(Task)
  /\ started \in SUBSET Task

\* AddToIncomingQueue signals the pump only when it found the queue empty
\* ("Someone else should have started the sub-pump"): a pump that blocks must
\* never sleep on a queue nobody is going to wake it for.
NoLostWakeup ==
  At("blocked") /\ incoming_queue # <<>> =>
    event \/ \E th \in Thread : posting[th].pc = "schedule"

\* The pump blocks with every task it took over processed, and no longer than
\* the earliest delayed task: delayed_work_time, shared by all nested runs and
\* left stale by some paths of DoDelayedWork, is armed for it.
TimerArmed ==
  At("blocked") =>
    /\ work_queue = <<>>
    /\ \A t \in delayed_work_queue :
         /\ delayed_work_time # Null
         /\ delayed_work_time <= pending_task[t].delayed_run_time

InQueue(q, t) == t \in Range(q)
CountIn(q, t) == Cardinality({i \in DOMAIN q : q[i] = t})

\* A posted task is in exactly one place of one queue until it starts, and in
\* none after: no queue hand-over (swap, delay, deferral, nested run) loses or
\* duplicates it.
EachTaskOnce ==
  \A t \in Task :
    CountIn(incoming_queue, t) + CountIn(work_queue, t)
      + CountIn(deferred_non_nestable_work_queue, t)
      + (IF t \in delayed_work_queue THEN 1 ELSE 0)
      = IF InQueue(posted, t) /\ t \notin started THEN 1 ELSE 0

\* RunTask's DCHECK(nestable_tasks_allowed_): a task starts inside another
\* only if that other asked for it. DoIdleWork does not look at the flag.
\* And a non-nestable task starts at depth 1 only.
NoUninvitedTask ==
  [][\A t \in started' \ started :
       /\ nestable_tasks_allowed
       /\ pending_task[t].nestable \/ run_depth = 1]_vars

\* A run that leaves because quit_received was seen (Quit, RunAllPending)
\* leaves no work behind: everything in work_queue ran or was put off and, at
\* the outermost depth, no deferred task remains and every delayed task is
\* later than the time last looked at. (A nested run may leave due tasks: when
\* DoDelayedWork defers a task it answers false. A run with nestable tasks
\* forbidden does nothing.)
QuitDrains ==
  [][ run_depth' < run_depth /\ At("idle") /\ nestable_tasks_allowed =>
        /\ work_queue = <<>>
        /\ run_depth = 1 =>
             /\ deferred_non_nestable_work_queue = <<>>
             /\ \A t \in delayed_work_queue :
                  pending_task[t].delayed_run_time > recent_time ]_vars

\* A nestable task, once in the incoming queue, runs, unless the loop is left:
\* in whatever nested run the thread is, blocked or not.
NestableTaskRuns ==
  \A t \in Task :
    InQueue(posted, t) /\ pending_task[t].nestable
      ~> t \in started \/ run_depth = 0

\* Quit and QuitNow end the innermost run, unless its task starts a run of its
\* own that nobody quits. keep_running_ is one flag for all nested runs.
QuitReturns ==
  \A d \in Depth :
    run_depth = d /\ (Top.quit \/ ~keep_running)
      ~> run_depth < d \/ (run_depth > d /\ ~Top.quit)

\* How many of the posted tasks DoWork has taken out of its two queues.
Taken == Len(posted) - Len(work_queue) - Len(incoming_queue)

\* The loop implements TaskRunner: no task starts early or twice, and of the
\* nestable ones DoWork has run or put into the delayed queue, the one with the
\* earliest run time, or else the one posted first, is the next to start,
\* whatever was swapped, deferred or run in nested loops meanwhile.
Runner == INSTANCE TaskRunner WITH
  taken <- Taken,
  due <- [t \in Task |-> IF InQueue(posted, t)
                          THEN pending_task[t].delayed_run_time ELSE Null],
  nestable <- [t \in Task |-> IF InQueue(posted, t)
                               THEN pending_task[t].nestable ELSE TRUE]

ImplementsTaskRunner == Runner!Spec

=============================================================================
