------------------------ MODULE ThreadLifecycleProofs ------------------------
(***************************************************************************)
(* For any number of tasks, posting threads and starts: nobody posts to a  *)
(* loop that is gone, the owner's pointer is what it expects, every task a *)
(* loop accepted is settled with it, Stop drains, the rounds of the loop's *)
(* destructor are enough for fewer tasks than rounds, and what the owner   *)
(* waits for is on its way.                                                *)
(***************************************************************************)
EXTENDS ThreadLifecycle, FiniteSetTheorems, SequenceTheorems, TLAPS

\* Where message_loop_ designates the loop, and where there is none.
Running == {"init", "run", "task", "delayed task", "ran", "idle", "wait", "cleanup"}
Absent == {"none", "created", "exited"}

\* The loop, its proxy's pointer and the Thread's pointer come and go.
LoopsExist ==
  /\ worker \in Absent => alive = {} /\ target = {}
  /\ worker = "detached" => alive = {loops} /\ target = {}
  /\ worker \notin Absent \union {"detached"} => alive = {loops} /\ target = {loops}
  /\ worker \notin {"none", "created"} => loops \in Loop
  /\ worker = "created" => loops < MaxStarts
  /\ message_loop = IF worker \in Running THEN loops ELSE NULL

\* How far the worker can be, given where the owner is.
OwnerKnows ==
  /\ owner = "out" /\ ~started => worker = "none" /\ ~stopping
  /\ owner = "starting" => ~started /\ ~stopping /\ worker # "none"
  /\ owner = "joining" => started /\ stopping
  /\ started \/ startup => worker \notin {"none", "created", "init"}
  /\ startup => owner = "starting"

QuitQueued == QuitTask \in Range(incoming_queue) \union Range(work_queue)

\* The worker leaves the loop only after the ThreadQuitTask, which is sent with
\* stopping_ set and at the end of the owner's last post.
QuitIsLast ==
  /\ worker \in Absent => incoming_queue = <<>>
  /\ worker \in Absent \union {"detach", "detached"} => QueuesEmpty
  /\ (~stopping \/ posting[Owner] # Idle) /\ worker \notin {"none", "created"} =>
       ~quit_received /\ ~QuitQueued
  /\ worker \in LeftRun => quit_received
  /\ form[QuitTask] = QuitForm

\* The owner posts to the loop there is, the others to one they found in its
\* proxy, which cannot be cleared meanwhile.
PostsArrive ==
  /\ posting[Owner] # Idle =>
       /\ posting[Owner].loop = loops
       /\ started
       /\ posting[Owner].task = QuitTask => stopping
  /\ \A th \in Poster : posting[th] # Idle =>
       posting[th].loop \in target /\ posting[th].task \in Task

LifeInv == LoopsExist /\ OwnerKnows /\ QuitIsLast /\ PostsArrive

\* Each accepted task is in one place of one queue.
Settled ==
  /\ \A t \in AnyTask :
       fate[t] = "queued" <=>
         t \in Range(incoming_queue) \union Range(work_queue) \union delayed_work_queue
  /\ IsInjective(incoming_queue) /\ IsInjective(work_queue)
  /\ Range(incoming_queue) \intersect Range(work_queue) = {}
  /\ Range(incoming_queue) \intersect delayed_work_queue = {}
  /\ Range(work_queue) \intersect delayed_work_queue = {}

\* Nobody else has a task that is being posted.
InTransit ==
  /\ \A th \in Poster \union {Owner} :
       posting[th] # Idle /\ posting[th].task # QuitTask =>
         fate[posting[th].task] = "posting"
  /\ \A th1, th2 \in Poster \union {Owner} :
       posting[th1] # Idle /\ posting[th2] # Idle
         /\ posting[th1].task = posting[th2].task => th1 = th2

\* What waited when the ThreadQuitTask ran is still to run, or ran.
Draining ==
  /\ \A t \in delayed_work_queue : form[t].delayed
  /\ \A t \in before_quit : ~form[t].delayed /\ fate[t] \in {"ran", "queued"}
  /\ worker \in {"idle", "wait"} \union LeftRun =>
       \A t \in before_quit : fate[t] = "ran"

-----------------------------------------------------------------------------
(* Facts about posts, and types *)

USE ThreadAssumption DEF NULL

LEMMA PostTyped ==
  ASSUME TypeOK, NEW th \in Poster \union {Owner}, posting[th] # Idle
  PROVE  posting[th].task \in AnyTask /\ posting[th].loop \in Loop
<1>1. posting[th] \in Posting
  BY DEF TypeOK
<1> QED BY <1>1 DEF Posting

LEMMA ANewPost ==
  \A t \in AnyTask, l \in Loop : [pc |-> "push", task |-> t, loop |-> l] \in Posting
BY DEF Posting

\* A step that changes the posts alone has types if they have.
LEMMA PostsKeepTypes ==
  ASSUME TypeOK, posting' \in [Poster \union {Owner} -> Posting],
         form' \in [AnyTask -> Form], fate' \in [AnyTask -> Fate],
         UNCHANGED <<started, stopping, message_loop, startup, owner, worker, loops, alive,
                     target, incoming_queue, work_queue, delayed_work_queue, quit_received,
                     did_work, round, before_quit>>
  PROVE  TypeOK'
<1>1. /\ started' \in BOOLEAN /\ stopping' \in BOOLEAN /\ startup' \in BOOLEAN
      /\ quit_received' \in BOOLEAN /\ did_work' \in BOOLEAN
      /\ message_loop' \in {NULL} \union Loop
      /\ owner' \in {"out", "starting", "joining"}
  BY DEF TypeOK
<1>2. /\ worker' \in {"none", "created", "init", "run", "task", "delayed task",
                      "ran", "idle", "wait"} \union LeftRun
      /\ loops' \in 0..MaxStarts
      /\ alive' \subseteq Loop /\ target' \subseteq Loop
  BY DEF TypeOK
<1>3. /\ incoming_queue' \in Seq(AnyTask) /\ work_queue' \in Seq(AnyTask)
      /\ delayed_work_queue' \subseteq Task
      /\ round' \in 1..Rounds
      /\ before_quit' \subseteq Task
  BY DEF TypeOK
<1> QED BY <1>1, <1>2, <1>3 DEF TypeOK

LEMMA ALongerQueue ==
  ASSUME TypeOK, NEW t \in AnyTask, Queued(t)
  PROVE  incoming_queue' \in Seq(AnyTask)
<1>1. incoming_queue \in Seq(AnyTask)
  BY DEF TypeOK
<1> QED BY <1>1 DEF Queued

LEMMA QueueTyped ==
  ASSUME TypeOK, NEW q \in Seq(AnyTask), q # <<>>
  PROVE  Head(q) \in AnyTask /\ Tail(q) \in Seq(AnyTask) /\ Head(q) \in Range(q)
<1>1. Head(q) = q[1] /\ 1 \in DOMAIN q
  OBVIOUS
<1> QED BY <1>1 DEF Range

\* A started thread that was not told to stop has a loop for its owner.
LEMMA OwnerHasLoop ==
  ASSUME TypeOK, LifeInv, started, ~stopping \/ posting[Owner] # Idle
  PROVE  /\ worker \in Running \ {"init", "cleanup"}
         /\ message_loop = loops /\ loops \in Loop
         /\ ~quit_received
<1>1. worker \notin LeftRun \union {"none", "created", "init"}
  BY DEF LifeInv, OwnerKnows, QuitIsLast
<1>2. worker \in Running \ {"init", "cleanup"}
  BY <1>1 DEF TypeOK, Running, LeftRun, Destroying
<1> QED BY <1>1, <1>2 DEF LifeInv, LoopsExist, QuitIsLast, Running, Loop

LEMMA TypeInductive == TypeOK /\ LifeInv /\ [Next]_vars => TypeOK'
<1> SUFFICES ASSUME TypeOK, LifeInv, [Next]_vars PROVE TypeOK'
  OBVIOUS
<1> USE DEF thread, queues, destructor, tasks
<1>1. ASSUME Start PROVE TypeOK'
  BY <1>1 DEF TypeOK, Start
<1>2. ASSUME StopSoon PROVE TypeOK'
  BY <1>2 DEF TypeOK, StopSoon, MustQuit, PostQuitTask, Posting, AnyTask
<1>3. ASSUME Stop PROVE TypeOK'
  <2>1. stopping' \in BOOLEAN /\ posting' \in [Poster \union {Owner} -> Posting]
    <3>1. CASE MustQuit
      <4>1. message_loop \in Loop /\ QuitTask \in AnyTask
        BY <3>1 DEF TypeOK, MustQuit, AnyTask
      <4>2. [pc |-> "push", task |-> QuitTask, loop |-> message_loop] \in Posting
        BY <4>1, ANewPost
      <4> QED BY <1>3, <3>1, <4>2 DEF TypeOK, Stop, PostQuitTask
    <3>2. CASE ~MustQuit
      BY <1>3, <3>2 DEF TypeOK, Stop
    <3> QED BY <3>1, <3>2
  <2> QED BY <1>3, <2>1 DEF TypeOK, Stop
<1>4. ASSUME NEW t \in Task, NEW f \in Form, OwnerPosts(t, f) PROVE TypeOK'
  <2>1. message_loop \in Loop
    BY <1>4, OwnerHasLoop DEF OwnerPosts
  <2>2. posting' \in [Poster \union {Owner} -> Posting]
    <3>1. [pc |-> "push", task |-> t, loop |-> message_loop] \in Posting
      BY <2>1, ANewPost DEF AnyTask
    <3> QED BY <1>4, <3>1 DEF TypeOK, OwnerPosts
  <2>3. form' \in [AnyTask -> Form] /\ fate' \in [AnyTask -> Fate]
    BY <1>4 DEF TypeOK, OwnerPosts, Fate
  <2>4. UNCHANGED <<started, stopping, message_loop, startup, owner, worker, loops, alive,
                    target, incoming_queue, work_queue, delayed_work_queue, quit_received,
                    did_work, round, before_quit>>
    BY <1>4 DEF OwnerPosts
  <2> QED BY <2>2, <2>3, <2>4, PostsKeepTypes
<1>5. ASSUME NEW t \in Task, NEW f \in Form, NEW th \in Poster, NEW l \in Loop,
             PostTaskHelper(th, t, f, l)
      PROVE  TypeOK'
  <2>1. posting' \in [Poster \union {Owner} -> Posting]
    <3>1. [pc |-> "push", task |-> t, loop |-> l] \in Posting
      BY ANewPost DEF AnyTask
    <3> QED BY <1>5, <3>1 DEF TypeOK, PostTaskHelper
  <2>2. form' \in [AnyTask -> Form] /\ fate' \in [AnyTask -> Fate]
    BY <1>5 DEF TypeOK, PostTaskHelper, Fate
  <2>3. UNCHANGED <<started, stopping, message_loop, startup, owner, worker, loops, alive,
                    target, incoming_queue, work_queue, delayed_work_queue, quit_received,
                    did_work, round, before_quit>>
    BY <1>5 DEF PostTaskHelper
  <2> QED BY <2>1, <2>2, <2>3, PostsKeepTypes
<1>6. ASSUME NEW t \in Task, NEW f \in Form, WorkerPosts(t, f) PROVE TypeOK'
  <2>1. incoming_queue' \in Seq(AnyTask)
    BY <1>6, ALongerQueue DEF WorkerPosts, AnyTask
  <2>2. form' \in [AnyTask -> Form] /\ fate' \in [AnyTask -> Fate]
    BY <1>6 DEF TypeOK, WorkerPosts, Fate
  <2>3. UNCHANGED <<started, stopping, message_loop, startup, owner, worker, loops, alive,
                    target, work_queue, delayed_work_queue, quit_received, did_work, round,
                    posting, before_quit>>
    BY <1>6 DEF WorkerPosts
  <2> QED BY <2>1, <2>2, <2>3 DEF TypeOK
<1>7. ASSUME Owners PROVE TypeOK'
  BY <1>7 DEF TypeOK, Owners, StartReturns, Join
<1>8. ASSUME ConstructLoop PROVE TypeOK'
  <2>1. loops' \in Loop
    BY <1>8 DEF TypeOK, ConstructLoop, LifeInv, LoopsExist, Loop
  <2>2. loops' \in 0..MaxStarts
    BY <2>1 DEF Loop
  <2>3. alive' \subseteq Loop /\ target' \subseteq Loop
    BY <1>8, <2>1 DEF TypeOK, ConstructLoop
  <2> QED BY <1>8, <2>1, <2>2, <2>3 DEF TypeOK, ConstructLoop
<1>9. ASSUME ReloadWorkQueue \/ ReloadToDelete PROVE TypeOK'
  <2>1. incoming_queue' \in Seq(AnyTask) /\ work_queue' \in Seq(AnyTask)
    <3>1. incoming_queue \in Seq(AnyTask) /\ <<>> \in Seq(AnyTask)
      <4>1. <<>> \in Seq(AnyTask)
        OBVIOUS
      <4> QED BY <4>1 DEF TypeOK
    <3> QED BY <1>9, <3>1 DEF ReloadWorkQueue, ReloadToDelete
  <2> QED BY <1>9, <2>1
          DEF TypeOK, ReloadWorkQueue, ReloadToDelete, LeftRun, Destroying
<1>10. ASSUME DoWork PROVE TypeOK'
  <2>1. Head(work_queue) \in AnyTask /\ Tail(work_queue) \in Seq(AnyTask)
    BY <1>10, QueueTyped DEF TypeOK, DoWork
  <2>2. form[Head(work_queue)].delayed => Head(work_queue) \in Task
    BY <2>1 DEF LifeInv, QuitIsLast, QuitForm, AnyTask
  <2>3. fate' \in [AnyTask -> Fate]
    BY <1>10, <2>1 DEF TypeOK, DoWork, Fate
  <2>4. delayed_work_queue' \subseteq Task /\ before_quit' \subseteq Task
    BY <1>10, <2>2 DEF TypeOK, DoWork
  <2>5. worker' \in {"run", "ran", "task"} /\ quit_received' \in BOOLEAN
    BY <1>10 DEF TypeOK, DoWork
  <2>6. UNCHANGED <<started, stopping, message_loop, startup, owner, loops, alive, target,
                    incoming_queue, did_work, round, posting, form>>
          /\ work_queue' = Tail(work_queue)
    BY <1>10 DEF DoWork
  <2> QED BY <2>1, <2>3, <2>4, <2>5, <2>6 DEF TypeOK
<1>11. ASSUME SignalStartup \/ TaskReturns \/ DoWorkDone \/ NoDelayedWork
              \/ RunReturns \/ PumpWaits \/ PumpWakes
       PROVE  TypeOK'
  <2>1. startup' \in BOOLEAN /\ worker' \in {"run", "ran", "idle", "wait", "cleanup"}
    BY <1>11 DEF TypeOK, SignalStartup, TaskReturns, DoWorkDone, NoDelayedWork,
                 RunReturns, PumpWaits, PumpWakes
  <2>2. UNCHANGED <<started, stopping, message_loop, owner, loops, alive, target,
                    incoming_queue, work_queue, delayed_work_queue, quit_received,
                    did_work, round, posting, form, fate, before_quit>>
    BY <1>11 DEF SignalStartup, TaskReturns, DoWorkDone, NoDelayedWork,
                 RunReturns, PumpWaits, PumpWakes
  <2> QED BY <2>1, <2>2 DEF TypeOK, LeftRun
<1>12. ASSUME NEW t \in Task, DoDelayedWork(t) PROVE TypeOK'
  <2>1. fate' \in [AnyTask -> Fate]
    BY <1>12 DEF TypeOK, DoDelayedWork, AnyTask, Fate
  <2>2. delayed_work_queue' \subseteq Task
    BY <1>12 DEF TypeOK, DoDelayedWork
  <2> QED BY <1>12, <2>1, <2>2 DEF TypeOK, DoDelayedWork
<1>13. ASSUME CleanUpReturns PROVE TypeOK'
  <2>1. worker' \in LeftRun /\ round' \in 1..Rounds
    BY <1>13 DEF CleanUpReturns, LeftRun, Destroying
  <2> QED BY <1>13, <2>1 DEF TypeOK, CleanUpReturns
<1>14. ASSUME DeletePendingTask PROVE TypeOK'
  <2>1. ASSUME NEW t \in AnyTask, NEW d \in {"leaked", "deleted"}, MayRepost(t, d)
        PROVE  /\ form' \in [AnyTask -> Form]
               /\ fate' \in [AnyTask -> Fate]
               /\ incoming_queue' \in Seq(AnyTask)
    <3>1. CASE fate' = [fate EXCEPT ![t] = d] /\ UNCHANGED <<form, incoming_queue>>
      BY <2>1, <3>1 DEF TypeOK, Fate
    <3>2. ASSUME NEW next \in Task, NEW f \in Form,
                 form' = [form EXCEPT ![next] = f],
                 fate' = [fate EXCEPT ![t] = d, ![next] = "queued"],
                 Queued(next)
          PROVE  form' \in [AnyTask -> Form] /\ fate' \in [AnyTask -> Fate]
                   /\ incoming_queue' \in Seq(AnyTask)
      <4>1. next \in AnyTask
        BY DEF AnyTask
      <4>2. fate' \in [AnyTask -> Fate]
        BY <2>1, <3>2, <4>1 DEF TypeOK, Fate
      <4> QED BY <3>2, <4>1, <4>2, ALongerQueue DEF TypeOK
    <3> QED BY <2>1, <3>1, <3>2 DEF MayRepost
  <2>2. ASSUME work_queue # <<>>,
               work_queue' = Tail(work_queue),
               form[Head(work_queue)].delayed,
               delayed_work_queue' = delayed_work_queue \union {Head(work_queue)},
               UNCHANGED <<form, fate, incoming_queue>>
        PROVE  TypeOK'
    <3>1. Head(work_queue) \in AnyTask /\ Tail(work_queue) \in Seq(AnyTask)
      BY <2>2, QueueTyped DEF TypeOK
    <3>2. Head(work_queue) \in Task
      BY <2>2, <3>1 DEF LifeInv, QuitIsLast, QuitForm, AnyTask
    <3> QED BY <1>14, <2>2, <3>1, <3>2 DEF TypeOK, DeletePendingTask
  <2>3. ASSUME work_queue # <<>>,
               work_queue' = Tail(work_queue),
               MayRepost(Head(work_queue), Discarded(Head(work_queue), TRUE)),
               UNCHANGED delayed_work_queue
        PROVE  TypeOK'
    <3>1. Head(work_queue) \in AnyTask /\ Tail(work_queue) \in Seq(AnyTask)
      BY <2>3, QueueTyped DEF TypeOK
    <3>2. Discarded(Head(work_queue), TRUE) \in {"leaked", "deleted"}
      BY DEF Discarded
    <3> QED BY <1>14, <2>1, <2>3, <3>1, <3>2 DEF TypeOK, DeletePendingTask
  <2>4. ASSUME NEW t \in delayed_work_queue,
               delayed_work_queue' = delayed_work_queue \ {t},
               MayRepost(t, Discarded(t, FALSE)),
               UNCHANGED work_queue
        PROVE  TypeOK'
    <3>1. t \in AnyTask
      BY DEF TypeOK, AnyTask
    <3>2. Discarded(t, FALSE) \in {"leaked", "deleted"}
      BY DEF Discarded
    <3> QED BY <1>14, <2>1, <2>4, <3>1, <3>2 DEF TypeOK, DeletePendingTask
  <2> QED BY <1>14, <2>2, <2>3, <2>4 DEF DeletePendingTask
<1>15. ASSUME EndRound PROVE TypeOK'
  <2>1. worker' \in LeftRun /\ round' \in 1..Rounds
    BY <1>15 DEF TypeOK, EndRound, LeftRun, Destroying
  <2> QED BY <1>15, <2>1 DEF TypeOK, EndRound
<1>16. ASSUME Detach PROVE TypeOK'
  BY <1>16 DEF TypeOK, Detach, LeftRun, Destroying
<1>17. ASSUME DestroyMembers PROVE TypeOK'
  <2>1. \A t \in AnyTask : Discarded(t, TRUE) \in {"leaked", "deleted"}
    BY DEF Discarded
  <2>2. fate' \in [AnyTask -> Fate]
    BY <1>17, <2>1 DEF TypeOK, DestroyMembers, Fate
  <2>3. worker' \in LeftRun /\ incoming_queue' \in Seq(AnyTask)
    BY <1>17 DEF DestroyMembers, LeftRun, Destroying
  <2> QED BY <1>17, <2>2, <2>3 DEF TypeOK, DestroyMembers
<1>18. ASSUME NEW th \in Poster \union {Owner}, AddToIncomingQueue(th) PROVE TypeOK'
  <2>1. posting[th].task \in AnyTask
    BY <1>18, PostTyped DEF AddToIncomingQueue
  <2>2. incoming_queue' \in Seq(AnyTask) /\ fate' \in [AnyTask -> Fate]
    BY <1>18, <2>1, ALongerQueue DEF TypeOK, AddToIncomingQueue, Fate
  <2>3. posting' \in [Poster \union {Owner} -> Posting]
    BY <1>18 DEF TypeOK, AddToIncomingQueue, Posting
  <2>4. UNCHANGED <<started, stopping, message_loop, startup, owner, worker, loops, alive,
                    target, work_queue, delayed_work_queue, quit_received, did_work, round,
                    form, before_quit>>
    BY <1>18 DEF AddToIncomingQueue
  <2> QED BY <2>2, <2>3, <2>4 DEF TypeOK
<1>19. ASSUME UNCHANGED vars PROVE TypeOK'
  <2>1. UNCHANGED <<started, stopping, message_loop, startup, owner, worker, loops, alive,
                    target, incoming_queue, work_queue, delayed_work_queue, quit_received,
                    did_work, round, posting, form, fate, before_quit>>
    BY <1>19 DEF vars
  <2> QED BY <2>1 DEF TypeOK
<1> QED BY <1>1, <1>2, <1>3, <1>4, <1>5, <1>6, <1>7, <1>8, <1>9, <1>10, <1>11,
           <1>12, <1>13, <1>14, <1>15, <1>16, <1>17, <1>18, <1>19
        DEF Next, Client, Worker

-----------------------------------------------------------------------------
(* LifeInv *)

LEMMA AddedToQueue ==
  ASSUME NEW q \in Seq(AnyTask), NEW t \in AnyTask
  PROVE  Range(Append(q, t)) = Range(q) \union {t}
<1>1. DOMAIN Append(q, t) = DOMAIN q \union {Len(q) + 1}
  OBVIOUS
<1>2. \A i \in DOMAIN q : Append(q, t)[i] = q[i]
  OBVIOUS
<1>3. Append(q, t)[Len(q) + 1] = t
  OBVIOUS
<1> QED BY <1>1, <1>2, <1>3 DEF Range

LEMMA TakenFromQueue ==
  ASSUME NEW q \in Seq(AnyTask), q # <<>>
  PROVE  Range(q) = Range(Tail(q)) \union {Head(q)}
<1>1. ASSUME NEW i \in DOMAIN q, i # 1
      PROVE  i - 1 \in DOMAIN Tail(q) /\ Tail(q)[i - 1] = q[i]
  <2>1. i \in 2..Len(q)
    <3>1. DOMAIN q = 1..Len(q) /\ Len(q) \in Nat
      BY LenProperties
    <3>2. i \in Nat /\ i >= 1 /\ i <= Len(q)
      BY <3>1
    <3>3. i >= 2
      BY <1>1, <3>2
    <3> QED BY <3>1, <3>2, <3>3
  <2>2. i - 1 \in 1..Len(Tail(q))
    BY <2>1, HeadTailProperties
  <2>3. Tail(q)[i - 1] = q[(i - 1) + 1]
    BY <2>2, HeadTailProperties
  <2> QED BY <2>1, <2>2, <2>3, LenProperties, HeadTailProperties
<1>2. \A i \in DOMAIN Tail(q) : i + 1 \in DOMAIN q /\ Tail(q)[i] = q[i + 1]
  OBVIOUS
<1>3. 1 \in DOMAIN q /\ Head(q) = q[1]
  OBVIOUS
<1> QED BY <1>1, <1>2, <1>3 DEF Range

LEMMA EmptyQueue == Range(<<>>) = {}
BY DEF Range

\* The steps that leave the queues and the posts alone and move the worker,
\* or the owner, from one station to another.
LEMMA MovesKeepLife ==
  TypeOK /\ LifeInv
    /\ \/ Start \/ Owners \/ SignalStartup \/ TaskReturns \/ DoWorkDone
       \/ NoDelayedWork \/ RunReturns \/ PumpWaits \/ PumpWakes
       \/ CleanUpReturns \/ EndRound \/ Detach \/ UNCHANGED vars
    => LifeInv'
<1> SUFFICES ASSUME TypeOK, LifeInv PROVE
      (\/ Start \/ Owners \/ SignalStartup \/ TaskReturns \/ DoWorkDone
       \/ NoDelayedWork \/ RunReturns \/ PumpWaits \/ PumpWakes
       \/ CleanUpReturns \/ EndRound \/ Detach \/ UNCHANGED vars) => LifeInv'
  OBVIOUS
<1> USE DEF thread, queues, destructor, tasks, LifeInv, LoopsExist, OwnerKnows,
           QuitIsLast, PostsArrive, QuitQueued, QueuesEmpty, Running, Absent,
           LeftRun, Destroying
<1>1. Start => LifeInv'
  BY DEF Start, OwnerFree
<1>2. StartReturns => LifeInv'
  <2> SUFFICES ASSUME StartReturns PROVE LifeInv'
    OBVIOUS
  <2>1. LoopsExist'
    BY DEF StartReturns
  <2>2. OwnerKnows'
    BY DEF StartReturns
  <2>3. QuitIsLast'
    BY DEF StartReturns
  <2>4. PostsArrive'
    BY DEF StartReturns
  <2> QED BY <2>1, <2>2, <2>3, <2>4
<1>3. Join => LifeInv'
  BY DEF Join
<1>4. SignalStartup => LifeInv'
  BY DEF TypeOK, SignalStartup
<1>5. TaskReturns => LifeInv'
  <2> SUFFICES ASSUME TaskReturns PROVE LifeInv'
    OBVIOUS
  <2>1. LoopsExist'
    BY DEF TaskReturns
  <2>2. OwnerKnows'
    BY DEF TaskReturns
  <2>3. QuitIsLast'
    BY DEF TaskReturns
  <2>4. PostsArrive'
    BY DEF TaskReturns
  <2> QED BY <2>1, <2>2, <2>3, <2>4
<1>6. DoWorkDone => LifeInv'
  BY DEF DoWorkDone
<1>7. NoDelayedWork => LifeInv'
  BY DEF NoDelayedWork
<1>8. RunReturns => LifeInv'
  BY DEF RunReturns
<1>9. PumpWaits => LifeInv'
  BY DEF PumpWaits
<1>10. PumpWakes => LifeInv'
  BY DEF PumpWakes
<1>11. CleanUpReturns => LifeInv'
  BY DEF CleanUpReturns
<1>12. EndRound => LifeInv'
  <2> SUFFICES ASSUME EndRound PROVE LifeInv'
    OBVIOUS
  <2>1. LoopsExist'
    BY DEF EndRound
  <2>2. OwnerKnows'
    BY DEF EndRound
  <2>3. QuitIsLast'
    BY DEF EndRound
  <2>4. PostsArrive'
    BY DEF EndRound
  <2> QED BY <2>1, <2>2, <2>3, <2>4
<1>13. Detach => LifeInv'
  BY DEF Detach, Locked
<1>14. UNCHANGED vars => LifeInv'
  <2> SUFFICES ASSUME UNCHANGED vars PROVE LifeInv'
    OBVIOUS
  <2>1. UNCHANGED <<started, stopping, message_loop, startup, owner, worker, loops,
                    alive, target, incoming_queue, work_queue, delayed_work_queue,
                    quit_received, posting, form>>
    BY DEF vars
  <2> QED BY <2>1
<1> QED BY <1>1, <1>2, <1>3, <1>4, <1>5, <1>6, <1>7, <1>8, <1>9, <1>10, <1>11,
           <1>12, <1>13, <1>14 DEF Owners

\* The posts, and the steps on the queues.
LEMMA LifeInductive == TypeOK /\ LifeInv /\ [Next]_vars => LifeInv'
<1> SUFFICES ASSUME TypeOK, LifeInv, [Next]_vars PROVE LifeInv'
  OBVIOUS
<1> USE DEF thread, queues, destructor, tasks, LifeInv, QuitQueued, QueuesEmpty,
           Running, Absent, LeftRun, Destroying
<1>1. /\ DOMAIN posting = Poster \union {Owner}
      /\ incoming_queue \in Seq(AnyTask) /\ work_queue \in Seq(AnyTask)
      /\ Task \subseteq AnyTask /\ QuitTask \in AnyTask
      /\ form \in [AnyTask -> Form]
  BY DEF TypeOK, AnyTask
<1>2. ASSUME started, MustQuit, PostQuitTask, owner' \in {"out", "joining"},
             UNCHANGED <<started, message_loop, startup, worker, loops, alive,
                         target, queues, quit_received, form>>,
             OwnerFree
      PROVE  LifeInv'
  <2>1. message_loop = loops /\ worker \in Running \ {"init", "cleanup"}
    BY <1>2, OwnerHasLoop DEF MustQuit
  <2>2. LoopsExist'
    BY <1>1, <1>2, <2>1
    DEF LoopsExist, OwnerKnows, QuitIsLast, PostsArrive, PostQuitTask, MustQuit, OwnerFree
  <2>3. OwnerKnows'
    BY <1>1, <1>2, <2>1
    DEF LoopsExist, OwnerKnows, QuitIsLast, PostsArrive, PostQuitTask, MustQuit, OwnerFree
  <2>4. QuitIsLast'
    BY <1>1, <1>2, <2>1
    DEF LoopsExist, OwnerKnows, QuitIsLast, PostsArrive, PostQuitTask, MustQuit, OwnerFree
  <2>5. PostsArrive'
    BY <1>1, <1>2, <2>1
    DEF LoopsExist, OwnerKnows, QuitIsLast, PostsArrive, PostQuitTask, MustQuit, OwnerFree
  <2> QED BY <2>2, <2>3, <2>4, <2>5
<1>3. ASSUME StopSoon PROVE LifeInv'
  <2>1. started
    BY <1>3 DEF StopSoon, MustQuit, OwnerFree, OwnerKnows, LoopsExist
  <2> QED BY <1>2, <1>3, <2>1 DEF StopSoon, OwnerFree
<1>4. ASSUME Stop PROVE LifeInv'
  <2>1. CASE MustQuit
    BY <1>2, <1>4, <2>1 DEF Stop
  <2>2. CASE ~MustQuit
    <3>1. stopping
      <4> SUFFICES ASSUME ~stopping PROVE FALSE
        OBVIOUS
      <4>1. message_loop \in Loop
        BY <1>4, OwnerHasLoop DEF Stop
      <4> QED BY <2>2, <4>1 DEF MustQuit, Loop
    <3>2. UNCHANGED <<started, stopping, message_loop, startup, worker, loops, alive,
                      target, incoming_queue, work_queue, delayed_work_queue,
                      quit_received, posting, form>>
            /\ owner' = "joining" /\ started /\ posting[Owner] = Idle /\ owner = "out"
      BY <1>4, <2>2 DEF Stop, OwnerFree
    <3>3. LoopsExist' /\ OwnerKnows'
      BY <3>1, <3>2 DEF LoopsExist, OwnerKnows
    <3>4. QuitIsLast' /\ PostsArrive'
      BY <3>1, <3>2 DEF QuitIsLast, PostsArrive
    <3> QED BY <3>3, <3>4
  <2> QED BY <2>1, <2>2
<1>5. ASSUME NEW t \in Task, NEW f \in Form, OwnerPosts(t, f) PROVE LifeInv'
  <2>1. message_loop = loops /\ worker \in Running \ {"init", "cleanup"} /\ t # QuitTask
    BY <1>5, OwnerHasLoop DEF OwnerPosts
  <2>2. LoopsExist'
    BY <1>1, <1>5, <2>1 DEF LoopsExist, OwnerKnows, QuitIsLast, PostsArrive, OwnerPosts
  <2>3. OwnerKnows'
    BY <1>1, <1>5, <2>1 DEF LoopsExist, OwnerKnows, QuitIsLast, PostsArrive, OwnerPosts
  <2>4. QuitIsLast'
    BY <1>1, <1>5, <2>1 DEF LoopsExist, OwnerKnows, QuitIsLast, PostsArrive, OwnerPosts
  <2>5. PostsArrive'
    BY <1>1, <1>5, <2>1 DEF LoopsExist, OwnerKnows, QuitIsLast, PostsArrive, OwnerPosts
  <2> QED BY <2>2, <2>3, <2>4, <2>5
<1>6. ASSUME NEW t \in Task, NEW f \in Form, NEW th \in Poster, NEW l \in Loop,
             PostTaskHelper(th, t, f, l)
      PROVE  LifeInv'
  <2>1. t # QuitTask /\ th # Owner
    OBVIOUS
  <2>2. LoopsExist'
    BY <1>1, <1>6, <2>1 DEF LoopsExist, OwnerKnows, QuitIsLast, PostsArrive, PostTaskHelper
  <2>3. OwnerKnows'
    BY <1>1, <1>6, <2>1 DEF LoopsExist, OwnerKnows, QuitIsLast, PostsArrive, PostTaskHelper
  <2>4. QuitIsLast'
    BY <1>1, <1>6, <2>1 DEF LoopsExist, OwnerKnows, QuitIsLast, PostsArrive, PostTaskHelper
  <2>5. PostsArrive'
    <3>1. CASE posting' = [posting EXCEPT ![th] = [pc |-> "push", task |-> t, loop |-> l]]
                 /\ l \in target
      BY <1>1, <1>6, <2>1, <3>1 DEF PostsArrive, PostTaskHelper
    <3>2. CASE UNCHANGED posting
      BY <1>6, <3>2 DEF PostsArrive, PostTaskHelper
    <3> QED BY <1>6, <3>1, <3>2 DEF PostTaskHelper
  <2> QED BY <2>2, <2>3, <2>4, <2>5
<1>7. ASSUME NEW t \in Task, NEW f \in Form, WorkerPosts(t, f) PROVE LifeInv'
  <2>1. Range(incoming_queue') = Range(incoming_queue) \union {t} /\ t # QuitTask
    BY <1>1, <1>7, AddedToQueue DEF WorkerPosts, Queued
  <2>2. LoopsExist'
    BY <1>1, <1>7, <2>1
    DEF LoopsExist, OwnerKnows, QuitIsLast, PostsArrive, WorkerPosts, InClientCode
  <2>3. OwnerKnows'
    BY <1>1, <1>7, <2>1
    DEF LoopsExist, OwnerKnows, QuitIsLast, PostsArrive, WorkerPosts, InClientCode
  <2>4. QuitIsLast'
    BY <1>1, <1>7, <2>1
    DEF LoopsExist, OwnerKnows, QuitIsLast, PostsArrive, WorkerPosts, InClientCode
  <2>5. PostsArrive'
    BY <1>1, <1>7, <2>1
    DEF LoopsExist, OwnerKnows, QuitIsLast, PostsArrive, WorkerPosts, InClientCode
  <2> QED BY <2>2, <2>3, <2>4, <2>5
<1>8. ASSUME ConstructLoop PROVE LifeInv'
  <2>1. loops' \in Loop /\ owner = "starting" /\ loops' # NULL
    BY <1>8 DEF TypeOK, ConstructLoop, LoopsExist, OwnerKnows, Loop
  <2>2. LoopsExist'
    BY <1>1, <1>8, <2>1, EmptyQueue DEF LoopsExist, OwnerKnows, QuitIsLast, PostsArrive, ConstructLoop
  <2>3. OwnerKnows'
    BY <1>1, <1>8, <2>1, EmptyQueue DEF LoopsExist, OwnerKnows, QuitIsLast, PostsArrive, ConstructLoop
  <2>4. QuitIsLast'
    BY <1>1, <1>8, <2>1, EmptyQueue DEF LoopsExist, OwnerKnows, QuitIsLast, PostsArrive, ConstructLoop
  <2>5. PostsArrive'
    BY <1>1, <1>8, <2>1, EmptyQueue DEF LoopsExist, OwnerKnows, QuitIsLast, PostsArrive, ConstructLoop
  <2> QED BY <2>2, <2>3, <2>4, <2>5
<1>9. ASSUME ReloadWorkQueue \/ ReloadToDelete PROVE LifeInv'
  <2>1. /\ worker' = worker \/ (worker = "delete" /\ worker' = "reloaded")
        /\ worker \in {"run", "delete"}
        /\ incoming_queue' = <<>> /\ work_queue' = incoming_queue
        /\ UNCHANGED <<started, stopping, message_loop, startup, owner, loops, alive,
                       target, delayed_work_queue, quit_received, posting, form>>
    <3>1. CASE ReloadWorkQueue
      <4>1. UNCHANGED <<started, stopping, message_loop, startup, owner, loops, alive,
                        target, delayed_work_queue, quit_received, posting, form>>
        BY <3>1 DEF ReloadWorkQueue
      <4>2. /\ worker = "run" /\ worker' = worker
            /\ incoming_queue' = <<>> /\ work_queue' = incoming_queue
        BY <3>1 DEF ReloadWorkQueue
      <4> QED BY <4>1, <4>2
    <3>2. CASE ReloadToDelete
      BY <3>2 DEF ReloadToDelete
    <3> QED BY <1>9, <3>1, <3>2
  <2>2. LoopsExist'
    BY <2>1, EmptyQueue DEF LoopsExist, OwnerKnows, QuitIsLast, PostsArrive
  <2>3. OwnerKnows'
    BY <2>1, EmptyQueue DEF LoopsExist, OwnerKnows, QuitIsLast, PostsArrive
  <2>4. QuitIsLast'
    BY <2>1, EmptyQueue DEF LoopsExist, OwnerKnows, QuitIsLast, PostsArrive
  <2>5. PostsArrive'
    BY <2>1, EmptyQueue DEF LoopsExist, OwnerKnows, QuitIsLast, PostsArrive
  <2> QED BY <2>2, <2>3, <2>4, <2>5
<1>10. ASSUME DoWork PROVE LifeInv'
  <2>1. /\ Range(work_queue') \subseteq Range(work_queue)
        /\ Head(work_queue) \in Range(work_queue)
    BY <1>1, <1>10, TakenFromQueue DEF DoWork
  <2>2. LoopsExist'
    BY <1>1, <1>10, <2>1 DEF LoopsExist, OwnerKnows, QuitIsLast, PostsArrive, DoWork
  <2>3. OwnerKnows'
    BY <1>1, <1>10, <2>1 DEF LoopsExist, OwnerKnows, QuitIsLast, PostsArrive, DoWork
  <2>4. QuitIsLast'
    BY <1>1, <1>10, <2>1 DEF LoopsExist, OwnerKnows, QuitIsLast, PostsArrive, DoWork
  <2>5. PostsArrive'
    BY <1>1, <1>10, <2>1 DEF LoopsExist, OwnerKnows, QuitIsLast, PostsArrive, DoWork
  <2> QED BY <2>2, <2>3, <2>4, <2>5
<1>11. ASSUME NEW t \in Task, DoDelayedWork(t) PROVE LifeInv'
  <2>1. LoopsExist'
    BY <1>1, <1>11 DEF LoopsExist, OwnerKnows, QuitIsLast, PostsArrive, DoDelayedWork
  <2>2. OwnerKnows'
    BY <1>1, <1>11 DEF LoopsExist, OwnerKnows, QuitIsLast, PostsArrive, DoDelayedWork
  <2>3. QuitIsLast'
    BY <1>1, <1>11 DEF LoopsExist, OwnerKnows, QuitIsLast, PostsArrive, DoDelayedWork
  <2>4. PostsArrive'
    BY <1>1, <1>11 DEF LoopsExist, OwnerKnows, QuitIsLast, PostsArrive, DoDelayedWork
  <2> QED BY <2>1, <2>2, <2>3, <2>4
<1>12. ASSUME DeletePendingTask PROVE LifeInv'
  <2>1. worker \in {"delete", "reloaded"} /\ quit_received /\ stopping
          /\ posting[Owner] = Idle
    BY <1>12 DEF DeletePendingTask, QuitIsLast
  <2>2. form'[QuitTask] = QuitForm
    <3>1. UNCHANGED form \/ \E next \in Task, f \in Form : form' = [form EXCEPT ![next] = f]
      BY <1>12 DEF DeletePendingTask, MayRepost
    <3> QED BY <1>1, <3>1 DEF QuitIsLast
  <2>3. LoopsExist'
    BY <1>1, <1>12, <2>1, <2>2 DEF LoopsExist, OwnerKnows, QuitIsLast, PostsArrive, DeletePendingTask
  <2>4. OwnerKnows'
    BY <1>1, <1>12, <2>1, <2>2 DEF LoopsExist, OwnerKnows, QuitIsLast, PostsArrive, DeletePendingTask
  <2>5. QuitIsLast'
    BY <1>1, <1>12, <2>1, <2>2 DEF LoopsExist, OwnerKnows, QuitIsLast, PostsArrive, DeletePendingTask
  <2>6. PostsArrive'
    BY <1>1, <1>12, <2>1, <2>2 DEF LoopsExist, OwnerKnows, QuitIsLast, PostsArrive, DeletePendingTask
  <2> QED BY <2>3, <2>4, <2>5, <2>6
<1>13. ASSUME DestroyMembers PROVE LifeInv'
  <2>1. LoopsExist'
    BY <1>1, <1>13 DEF LoopsExist, OwnerKnows, QuitIsLast, PostsArrive, DestroyMembers
  <2>2. OwnerKnows'
    BY <1>1, <1>13 DEF LoopsExist, OwnerKnows, QuitIsLast, PostsArrive, DestroyMembers
  <2>3. QuitIsLast'
    BY <1>1, <1>13 DEF LoopsExist, OwnerKnows, QuitIsLast, PostsArrive, DestroyMembers
  <2>4. PostsArrive'
    BY <1>1, <1>13 DEF LoopsExist, OwnerKnows, QuitIsLast, PostsArrive, DestroyMembers
  <2> QED BY <2>1, <2>2, <2>3, <2>4
<1>14. ASSUME NEW th \in Poster \union {Owner}, AddToIncomingQueue(th) PROVE LifeInv'
  <2>1. /\ posting[th].task \in AnyTask
        /\ Range(incoming_queue') = Range(incoming_queue) \union {posting[th].task}
    BY <1>1, <1>14, PostTyped, AddedToQueue DEF AddToIncomingQueue, Queued
  <2>2. target # {} /\ worker \in Running \union {"delete", "reloaded", "detach"}
    <3>1. CASE th = Owner
      BY <1>14, <3>1, OwnerHasLoop DEF AddToIncomingQueue, PostsArrive, LoopsExist
    <3>2. CASE th \in Poster
      BY <1>14, <3>2 DEF TypeOK, AddToIncomingQueue, PostsArrive, LoopsExist
    <3> QED BY <3>1, <3>2
  <2>3. th # Owner => posting[th].task # QuitTask
    BY <1>14 DEF PostsArrive, AddToIncomingQueue
  <2>4. LoopsExist'
    BY <1>1, <1>14, <2>1, <2>2, <2>3 DEF LoopsExist, OwnerKnows, QuitIsLast, PostsArrive, AddToIncomingQueue
  <2>5. OwnerKnows'
    BY <1>1, <1>14, <2>1, <2>2, <2>3 DEF LoopsExist, OwnerKnows, QuitIsLast, PostsArrive, AddToIncomingQueue
  <2>6. QuitIsLast'
    BY <1>1, <1>14, <2>1, <2>2, <2>3 DEF LoopsExist, OwnerKnows, QuitIsLast, PostsArrive, AddToIncomingQueue
  <2>7. PostsArrive'
    BY <1>1, <1>14, <2>1, <2>2, <2>3 DEF LoopsExist, OwnerKnows, QuitIsLast, PostsArrive, AddToIncomingQueue
  <2> QED BY <2>4, <2>5, <2>6, <2>7
<1> QED BY <1>3, <1>4, <1>5, <1>6, <1>7, <1>8, <1>9, <1>10, <1>11, <1>12, <1>13,
           <1>14, MovesKeepLife
        DEF Next, Client, Worker

LEMMA InitLife == Init => TypeOK /\ LifeInv
<1> SUFFICES ASSUME Init PROVE TypeOK /\ LifeInv
  OBVIOUS
<1>1. <<>> \in Seq(AnyTask) /\ Idle \in Posting /\ QuitForm \in Form /\ QuitTask \in AnyTask
  BY DEF Posting, QuitForm, Form, AnyTask
<1>2. TypeOK
  <2>1. loops \in 0..MaxStarts /\ round \in 1..Rounds
    BY DEF Init
  <2>2. posting \in [Poster \union {Owner} -> Posting]
    BY <1>1 DEF Init
  <2>3. form \in [AnyTask -> Form] /\ fate \in [AnyTask -> Fate]
    BY <1>1 DEF Init, Fate
  <2>4. incoming_queue \in Seq(AnyTask) /\ work_queue \in Seq(AnyTask)
    BY <1>1 DEF Init
  <2> QED BY <2>1, <2>2, <2>3, <2>4 DEF Init, TypeOK
<1>3. LoopsExist /\ OwnerKnows
  BY DEF Init, LoopsExist, OwnerKnows, Running, Absent
<1>4. QuitIsLast
  BY <1>1 DEF Init, QuitIsLast, QueuesEmpty, LeftRun, Destroying
<1>5. PostsArrive
  BY DEF Init, PostsArrive
<1> QED BY <1>2, <1>3, <1>4, <1>5 DEF LifeInv

LEMMA LifeInvariance == Spec => [](TypeOK /\ LifeInv)
<1>1. Init => TypeOK /\ LifeInv
  BY InitLife
<1>2. TypeOK /\ LifeInv /\ [Next]_vars => (TypeOK /\ LifeInv)'
  BY TypeInductive, LifeInductive
<1> QED BY <1>1, <1>2, PTL DEF Spec

\* Every variable keeps its type, for any number of tasks, posters and starts.
THEOREM TypeCorrect == Spec => []TypeOK
<1>1. TypeOK /\ LifeInv => TypeOK
  OBVIOUS
<1> QED BY <1>1, LifeInvariance, PTL

\* MessageLoopProxyImpl and Thread never touch a MessageLoop that is gone: a
\* thread in AddToIncomingQueue is in that of the loop there is.
THEOREM LoopsOutlivePosts == Spec => []LoopOutlivesPosts
<1>1. TypeOK /\ LifeInv => LoopOutlivesPosts
  <2> SUFFICES ASSUME TypeOK, LifeInv,
                      NEW th \in Poster \union {Owner}, posting[th] # Idle
               PROVE  posting[th].loop \in alive /\ posting[th].loop = loops
    BY DEF LoopOutlivesPosts
  <2>1. CASE th = Owner
    <3>1. worker \in Running /\ posting[Owner].loop = loops
      BY <2>1, OwnerHasLoop DEF LifeInv, PostsArrive
    <3> QED BY <2>1, <3>1 DEF LifeInv, LoopsExist, Running, Absent
  <2>2. CASE th \in Poster
    BY <2>2 DEF LifeInv, PostsArrive, LoopsExist
  <2> QED BY <2>1, <2>2
<1> QED BY <1>1, LifeInvariance, PTL

\* The DCHECKs of StartWithOptions and Stop on message_loop_ hold, and a Thread
\* that was stopped is as it was before it was started.
THEOREM OwnerIsRight == Spec => []OwnerSeesThread
<1>1. TypeOK /\ LifeInv => OwnerSeesThread
  <2> SUFFICES ASSUME TypeOK, LifeInv PROVE OwnerSeesThread
    OBVIOUS
  <2>1. owner = "out" /\ ~started => message_loop = NULL /\ ~stopping /\ worker = "none"
    BY DEF LifeInv, OwnerKnows, LoopsExist, Running
  <2>2. ASSUME owner = "starting", startup PROVE message_loop # NULL
    <3>1. worker \notin {"none", "created", "init"} \union LeftRun
      BY <2>2 DEF LifeInv, OwnerKnows, QuitIsLast
    <3>2. worker \in Running
      BY <3>1 DEF TypeOK, Running
    <3> QED BY <3>1, <3>2 DEF LifeInv, LoopsExist, Loop
  <2>3. worker = "exited" => message_loop = NULL
    BY DEF LifeInv, LoopsExist, Running
  <2> QED BY <2>1, <2>2, <2>3 DEF OwnerSeesThread
<1> QED BY <1>1, LifeInvariance, PTL

-----------------------------------------------------------------------------
(* Settled and InTransit *)

AccountInv == Settled /\ InTransit

LEMMA AppendKeepsInjective ==
  ASSUME NEW q \in Seq(AnyTask), NEW t \in AnyTask, IsInjective(q), t \notin Range(q)
  PROVE  IsInjective(Append(q, t))
<1>1. DOMAIN Append(q, t) = DOMAIN q \union {Len(q) + 1}
  OBVIOUS
<1>2. \A k \in DOMAIN q : Append(q, t)[k] = q[k] /\ q[k] # t
  BY DEF Range
<1>3. Append(q, t)[Len(q) + 1] = t
  OBVIOUS
<1>4. ASSUME NEW i \in DOMAIN Append(q, t), NEW j \in DOMAIN Append(q, t),
             Append(q, t)[i] = Append(q, t)[j]
      PROVE  i = j
  <2>1. CASE i \in DOMAIN q /\ j \in DOMAIN q
    BY <1>2, <1>4, <2>1 DEF IsInjective
  <2>2. CASE i = Len(q) + 1 \/ j = Len(q) + 1
    BY <1>1, <1>2, <1>3, <1>4, <2>2
  <2> QED BY <1>1, <2>1, <2>2
<1> QED BY <1>4 DEF IsInjective

LEMMA TailKeepsInjective ==
  ASSUME NEW q \in Seq(AnyTask), q # <<>>, IsInjective(q)
  PROVE  /\ IsInjective(Tail(q))
         /\ Range(Tail(q)) = Range(q) \ {Head(q)}
<1>1. \A i \in DOMAIN Tail(q) :
        i + 1 \in DOMAIN q /\ i + 1 # 1 /\ i \in Int /\ Tail(q)[i] = q[i + 1]
  OBVIOUS
<1>2. 1 \in DOMAIN q /\ Head(q) = q[1]
  OBVIOUS
<1>3. IsInjective(Tail(q))
  BY <1>1 DEF IsInjective
<1>4. Head(q) \notin Range(Tail(q))
  BY <1>1, <1>2 DEF IsInjective, Range
<1> QED BY <1>3, <1>4, TakenFromQueue

\* A task that is nowhere enters the incoming queue.
LEMMA EntersSettled ==
  ASSUME TypeOK, Settled, NEW t \in AnyTask, fate[t] # "queued", Queued(t),
         fate' = [fate EXCEPT ![t] = "queued"],
         UNCHANGED <<work_queue, delayed_work_queue>>
  PROVE  Settled'
<1>1. Range(incoming_queue') = Range(incoming_queue) \union {t}
  BY AddedToQueue DEF TypeOK, Queued
<1>2. t \notin Range(incoming_queue) \union Range(work_queue) \union delayed_work_queue
  BY DEF Settled
<1>3. IsInjective(incoming_queue')
  <2>1. incoming_queue \in Seq(AnyTask) /\ IsInjective(incoming_queue)
    BY DEF TypeOK, Settled
  <2>2. IsInjective(Append(incoming_queue, t))
    BY <1>2, <2>1, AppendKeepsInjective
  <2> QED BY <2>2 DEF Queued
<1>4. \A u \in AnyTask : fate'[u] = IF u = t THEN "queued" ELSE fate[u]
  BY DEF TypeOK
<1> QED BY <1>1, <1>2, <1>3, <1>4 DEF Settled

\* A task that has left the queue it was in is not queued any longer.
LEMMA LeavesSettled ==
  ASSUME TypeOK, Settled, NEW t \in AnyTask, NEW d \in {"ran", "leaked", "deleted"},
         fate' = [fate EXCEPT ![t] = d],
         t \notin Range(incoming_queue),
         Range(work_queue') \subseteq Range(work_queue),
         delayed_work_queue' \subseteq delayed_work_queue,
         Range(work_queue') \union delayed_work_queue' =
           (Range(work_queue) \union delayed_work_queue) \ {t},
         IsInjective(work_queue'),
         UNCHANGED incoming_queue
  PROVE  Settled'
<1>1. \A u \in AnyTask : fate'[u] = IF u = t THEN d ELSE fate[u]
  BY DEF TypeOK
<1> QED BY <1>1 DEF Settled

\* Where the head of the work queue and the delayed tasks are.
LEMMA WhereTheyWait ==
  ASSUME TypeOK, Settled
  PROVE  /\ work_queue # <<>> =>
              /\ Head(work_queue) \in AnyTask
              /\ fate[Head(work_queue)] = "queued"
              /\ Head(work_queue) \notin Range(incoming_queue) \union delayed_work_queue
              /\ IsInjective(Tail(work_queue))
              /\ Range(Tail(work_queue)) = Range(work_queue) \ {Head(work_queue)}
              /\ Head(work_queue) \in Range(work_queue)
         /\ \A t \in delayed_work_queue :
              /\ t \in AnyTask /\ fate[t] = "queued"
              /\ t \notin Range(incoming_queue) \union Range(work_queue)
<1>1. work_queue \in Seq(AnyTask) /\ delayed_work_queue \subseteq AnyTask
  BY DEF TypeOK, AnyTask
<1>2. ASSUME work_queue # <<>>
      PROVE  /\ Head(work_queue) \in AnyTask
             /\ Head(work_queue) \in Range(work_queue)
             /\ IsInjective(Tail(work_queue))
             /\ Range(Tail(work_queue)) = Range(work_queue) \ {Head(work_queue)}
  BY <1>1, <1>2, QueueTyped, TailKeepsInjective DEF Settled
<1> QED BY <1>1, <1>2 DEF Settled

\* The fate of a task in transit changes only when it arrives.
LEMMA TransitUnchanged ==
  ASSUME TypeOK, InTransit, UNCHANGED posting,
         \A u \in AnyTask : fate[u] = "posting" => fate'[u] = "posting"
  PROVE  InTransit'
BY PostTyped DEF InTransit

\* Deleting a task settles it, and what it posts meanwhile is queued.
LEMMA DiscardSettles ==
  ASSUME TypeOK, AccountInv, NEW t \in AnyTask, NEW d \in {"leaked", "deleted"},
         MayRepost(t, d), fate[t] = "queued",
         t \notin Range(incoming_queue),
         Range(work_queue') \subseteq Range(work_queue),
         delayed_work_queue' \subseteq delayed_work_queue,
         Range(work_queue') \union delayed_work_queue' =
           (Range(work_queue) \union delayed_work_queue) \ {t},
         IsInjective(work_queue'),
         UNCHANGED posting
  PROVE  AccountInv'
<1>1. CASE fate' = [fate EXCEPT ![t] = d] /\ UNCHANGED <<form, incoming_queue>>
  <2>1. Settled'
    BY <1>1, LeavesSettled DEF AccountInv
  <2>2. InTransit'
    BY <1>1, TransitUnchanged DEF AccountInv, TypeOK
  <2> QED BY <2>1, <2>2 DEF AccountInv
<1>2. ASSUME NEW next \in Task, NEW f \in Form,
             fate[next] = "unposted",
             fate' = [fate EXCEPT ![t] = d, ![next] = "queued"],
             Queued(next)
      PROVE  AccountInv'
  <2>1. next \in AnyTask /\ next # t
    BY <1>2 DEF AnyTask
  <2>2. \A u \in AnyTask : fate'[u] = IF u = next THEN "queued" ELSE IF u = t THEN d ELSE fate[u]
    BY <1>2, <2>1 DEF TypeOK
  <2>3. Range(incoming_queue') = Range(incoming_queue) \union {next}
    BY <1>2, <2>1, AddedToQueue DEF TypeOK, Queued
  <2>4. next \notin Range(incoming_queue) \union Range(work_queue) \union delayed_work_queue
    BY <1>2, <2>1 DEF AccountInv, Settled
  <2>5. IsInjective(incoming_queue')
    <3>1. incoming_queue \in Seq(AnyTask) /\ IsInjective(incoming_queue)
      BY DEF TypeOK, AccountInv, Settled
    <3>2. IsInjective(Append(incoming_queue, next))
      BY <2>1, <2>4, <3>1, AppendKeepsInjective
    <3> QED BY <1>2, <3>2 DEF Queued
  <2>6. Settled'
    BY <2>1, <2>2, <2>3, <2>4, <2>5 DEF AccountInv, Settled
  <2>7. InTransit'
    BY <1>2, <2>2, TransitUnchanged DEF AccountInv
  <2> QED BY <2>6, <2>7 DEF AccountInv
<1> QED BY <1>1, <1>2 DEF MayRepost

\* A task is announced: it was unposted, and is in nobody's hands but th's.
LEMMA Announced ==
  ASSUME TypeOK, AccountInv, NEW th \in Poster \union {Owner}, NEW t \in Task,
         fate[t] = "unposted",
         \/ /\ fate' = [fate EXCEPT ![t] = "posting"]
            /\ \E l \in Loop : posting' = [posting EXCEPT ![th] =
                                           [pc |-> "push", task |-> t, loop |-> l]]
         \/ /\ fate' = [fate EXCEPT ![t] = "deleted"] \/ fate' = [fate EXCEPT ![t] = "refused"]
            /\ UNCHANGED posting,
         UNCHANGED <<incoming_queue, work_queue, delayed_work_queue>>
  PROVE  AccountInv'
<1>1. t \in AnyTask /\ t # QuitTask
  BY DEF AnyTask
<1>2. \A u \in AnyTask : u # t => fate'[u] = fate[u]
  BY DEF TypeOK
<1>3. fate'[t] \in {"posting", "deleted", "refused"}
  BY <1>1 DEF TypeOK
<1>4. Settled'
  BY <1>1, <1>2, <1>3 DEF AccountInv, Settled
<1>5. \A th1 \in Poster \union {Owner} : posting[th1] # Idle => posting[th1].task # t
  BY <1>1 DEF AccountInv, InTransit
<1>6. CASE UNCHANGED posting
  <2>1. InTransit'
    BY <1>2, <1>5, <1>6, PostTyped DEF AccountInv, InTransit
  <2> QED BY <1>4, <2>1 DEF AccountInv
<1>7. ASSUME NEW l \in Loop, fate' = [fate EXCEPT ![t] = "posting"],
             posting' = [posting EXCEPT ![th] = [pc |-> "push", task |-> t, loop |-> l]]
      PROVE  AccountInv'
  <2>1. \A th1 \in Poster \union {Owner} :
          posting'[th1] = IF th1 = th THEN [pc |-> "push", task |-> t, loop |-> l]
                                      ELSE posting[th1]
    BY <1>7 DEF TypeOK
  <2>2. fate'[t] = "posting"
    BY <1>1, <1>7 DEF TypeOK
  <2>3. InTransit'
    BY <1>2, <1>5, <2>1, <2>2, PostTyped DEF AccountInv, InTransit
  <2> QED BY <1>4, <2>3 DEF AccountInv
<1> QED BY <1>6, <1>7

LEMMA AccountUnchanged ==
  ASSUME AccountInv, UNCHANGED <<incoming_queue, work_queue, delayed_work_queue, fate, posting>>
  PROVE  AccountInv'
BY DEF AccountInv, Settled, InTransit, Idle

LEMMA AccountInductive ==
  TypeOK /\ LifeInv /\ AccountInv /\ [Next]_vars => AccountInv'
<1> SUFFICES ASSUME TypeOK, LifeInv, AccountInv, [Next]_vars PROVE AccountInv'
  OBVIOUS
<1> USE DEF thread, queues, destructor, tasks
<1>1. ASSUME Start \/ Owners \/ ConstructLoop \/ SignalStartup \/ TaskReturns
             \/ DoWorkDone \/ NoDelayedWork \/ RunReturns \/ PumpWaits \/ PumpWakes
             \/ CleanUpReturns \/ EndRound \/ Detach \/ UNCHANGED vars
      PROVE  AccountInv'
  <2>1. UNCHANGED <<incoming_queue, work_queue, delayed_work_queue, fate, posting>>
    BY <1>1 DEF Start, Owners, StartReturns, Join, ConstructLoop, SignalStartup,
                TaskReturns, DoWorkDone, NoDelayedWork, RunReturns, PumpWaits, PumpWakes,
                CleanUpReturns, EndRound, Detach, vars
  <2> QED BY <2>1, AccountUnchanged
<1>2. ASSUME OwnerFree, PostQuitTask,
             UNCHANGED <<incoming_queue, work_queue, delayed_work_queue, fate>>
      PROVE  AccountInv'
  <2>1. \A th \in Poster \union {Owner} : th # Owner => posting'[th] = posting[th]
    BY <1>2 DEF TypeOK, PostQuitTask
  <2>2. posting'[Owner].task = QuitTask
    BY <1>2 DEF TypeOK, PostQuitTask
  <2>3. \A th \in Poster : posting[th] # Idle => posting[th].task # QuitTask
    BY DEF LifeInv, PostsArrive
  <2>4. InTransit'
    BY <1>2, <2>1, <2>2, <2>3 DEF AccountInv, InTransit, Idle
  <2>5. Settled'
    BY <1>2 DEF AccountInv, Settled
  <2> QED BY <2>4, <2>5 DEF AccountInv
<1>3. ASSUME StopSoon PROVE AccountInv'
  BY <1>2, <1>3 DEF StopSoon
<1>4. ASSUME Stop PROVE AccountInv'
  BY <1>2, <1>4, AccountUnchanged DEF Stop
<1>5. ASSUME NEW t \in Task, NEW f \in Form, OwnerPosts(t, f) PROVE AccountInv'
  <2>1. message_loop \in Loop
    BY <1>5, OwnerHasLoop DEF OwnerPosts
  <2> QED BY <1>5, <2>1, Announced DEF OwnerPosts
<1>6. ASSUME NEW t \in Task, NEW f \in Form, NEW th \in Poster, NEW l \in Loop,
             PostTaskHelper(th, t, f, l)
      PROVE  AccountInv'
  BY <1>6, Announced DEF PostTaskHelper
<1>7. ASSUME NEW t \in Task, NEW f \in Form, WorkerPosts(t, f) PROVE AccountInv'
  <2>1. t \in AnyTask
    BY DEF AnyTask
  <2>2. Settled'
    BY <1>7, <2>1, EntersSettled DEF WorkerPosts, AccountInv
  <2>3. InTransit'
    BY <1>7, TransitUnchanged DEF WorkerPosts, AccountInv, TypeOK
  <2> QED BY <2>2, <2>3 DEF AccountInv
<1>8. ASSUME NEW th \in Poster \union {Owner}, AddToIncomingQueue(th) PROVE AccountInv'
  <2> DEFINE t == posting[th].task
  <2>1. t \in AnyTask
    BY <1>8, PostTyped DEF AddToIncomingQueue
  <2>2. fate[t] # "queued"
    <3>1. CASE t # QuitTask
      BY <1>8, <3>1 DEF AddToIncomingQueue, AccountInv, InTransit
    <3>2. CASE t = QuitTask
      <4>1. th = Owner
        BY <1>8, <3>2 DEF AddToIncomingQueue, LifeInv, PostsArrive
      <4>2. ~QuitQueued
        BY <1>8, <4>1, OwnerHasLoop
           DEF AddToIncomingQueue, LifeInv, PostsArrive, QuitIsLast, Running
      <4>3. QuitTask \notin delayed_work_queue
        BY DEF TypeOK
      <4> QED BY <2>1, <3>2, <4>2, <4>3 DEF QuitQueued, AccountInv, Settled
    <3> QED BY <3>1, <3>2
  <2>3. Settled'
    BY <1>8, <2>1, <2>2, EntersSettled DEF AddToIncomingQueue, AccountInv
  <2>4. \A th1 \in Poster \union {Owner} :
          posting'[th1] = IF th1 = th THEN Idle ELSE posting[th1]
    BY <1>8 DEF TypeOK, AddToIncomingQueue
  <2>5. \A u \in AnyTask : u # t => fate'[u] = fate[u]
    BY <1>8 DEF TypeOK, AddToIncomingQueue
  <2>6. InTransit'
    BY <1>8, <2>4, <2>5, PostTyped DEF AddToIncomingQueue, AccountInv, InTransit
  <2> QED BY <2>3, <2>6 DEF AccountInv
<1>9. ASSUME ReloadWorkQueue \/ ReloadToDelete PROVE AccountInv'
  <2>1. work_queue = <<>> /\ incoming_queue' = <<>> /\ work_queue' = incoming_queue
          /\ UNCHANGED <<delayed_work_queue, fate, posting>>
    BY <1>9 DEF ReloadWorkQueue, ReloadToDelete, QueuesEmpty
  <2>2. Range(work_queue) = {} /\ Range(incoming_queue') = {} /\ IsInjective(incoming_queue')
    BY <2>1, EmptyQueue DEF IsInjective
  <2> QED BY <2>1, <2>2 DEF AccountInv, Settled, InTransit, Idle
<1>10. ASSUME DoWork PROVE AccountInv'
  <2> DEFINE t == Head(work_queue)
  <2>1. /\ t \in AnyTask /\ fate[t] = "queued" /\ t \in Range(work_queue)
        /\ t \notin Range(incoming_queue) \union delayed_work_queue
        /\ IsInjective(work_queue') /\ Range(work_queue') = Range(work_queue) \ {t}
    BY <1>10, WhereTheyWait DEF DoWork, AccountInv
  <2>2. CASE form[t].delayed
    <3>1. delayed_work_queue' = delayed_work_queue \union {t}
            /\ UNCHANGED <<incoming_queue, fate, posting>>
      BY <1>10, <2>2 DEF DoWork
    <3> QED BY <2>1, <3>1 DEF AccountInv, Settled, InTransit, Idle
  <2>3. CASE ~form[t].delayed
    <3>1. fate' = [fate EXCEPT ![t] = "ran"]
            /\ UNCHANGED <<incoming_queue, delayed_work_queue, posting>>
      BY <1>10, <2>3 DEF DoWork
    <3>2. Settled'
      BY <2>1, <3>1, LeavesSettled DEF AccountInv
    <3>3. InTransit'
      BY <2>1, <3>1, TransitUnchanged DEF AccountInv, TypeOK
    <3> QED BY <3>2, <3>3 DEF AccountInv
  <2> QED BY <2>2, <2>3
<1>11. ASSUME NEW t \in Task, DoDelayedWork(t) PROVE AccountInv'
  <2>1. /\ t \in AnyTask /\ fate[t] = "queued"
        /\ t \notin Range(incoming_queue) \union Range(work_queue)
    BY <1>11, WhereTheyWait DEF DoDelayedWork, AccountInv
  <2>2. IsInjective(work_queue') /\ Range(work_queue') = Range(work_queue)
    BY <1>11 DEF DoDelayedWork, AccountInv, Settled
  <2>3. Settled'
    BY <1>11, <2>1, <2>2, LeavesSettled DEF DoDelayedWork, AccountInv
  <2>4. InTransit'
    BY <1>11, <2>1, TransitUnchanged DEF DoDelayedWork, AccountInv, TypeOK
  <2> QED BY <2>3, <2>4 DEF AccountInv
<1>12. ASSUME DeletePendingTask PROVE AccountInv'
  <2>1. ASSUME work_queue # <<>>, work_queue' = Tail(work_queue),
               delayed_work_queue' = delayed_work_queue \union {Head(work_queue)},
               UNCHANGED <<fate, incoming_queue, posting>>
        PROVE  AccountInv'
    BY <2>1, WhereTheyWait DEF AccountInv, Settled, InTransit, Idle
  <2>2. ASSUME work_queue # <<>>, work_queue' = Tail(work_queue),
               MayRepost(Head(work_queue), Discarded(Head(work_queue), TRUE)),
               UNCHANGED <<delayed_work_queue, posting>>
        PROVE  AccountInv'
    <3>1. Discarded(Head(work_queue), TRUE) \in {"leaked", "deleted"}
      BY DEF Discarded
    <3> QED BY <2>2, <3>1, WhereTheyWait, DiscardSettles DEF AccountInv
  <2>3. ASSUME NEW t \in delayed_work_queue,
               delayed_work_queue' = delayed_work_queue \ {t},
               MayRepost(t, Discarded(t, FALSE)),
               UNCHANGED <<work_queue, posting>>
        PROVE  AccountInv'
    <3>1. Discarded(t, FALSE) \in {"leaked", "deleted"}
      BY DEF Discarded
    <3>2. IsInjective(work_queue') /\ Range(work_queue') = Range(work_queue)
      BY <2>3 DEF AccountInv, Settled
    <3> QED BY <2>3, <3>1, <3>2, WhereTheyWait, DiscardSettles DEF AccountInv
  <2> QED BY <1>12, <2>1, <2>2, <2>3 DEF DeletePendingTask
<1>13. ASSUME DestroyMembers PROVE AccountInv'
  <2>1. work_queue = <<>> /\ delayed_work_queue = {}
    BY <1>13 DEF DestroyMembers, LifeInv, QuitIsLast, QueuesEmpty, Absent
  <2>2. incoming_queue' = <<>> /\ UNCHANGED <<work_queue, delayed_work_queue, posting>>
    BY <1>13 DEF DestroyMembers
  <2>3. Range(work_queue) = {} /\ Range(incoming_queue') = {} /\ IsInjective(incoming_queue')
    BY <2>1, <2>2, EmptyQueue DEF IsInjective
  <2>4. \A u \in AnyTask : fate[u] = "queued" <=> u \in Range(incoming_queue)
    BY <2>1, <2>3 DEF AccountInv, Settled
  <2>5. \A u \in AnyTask : fate'[u] = IF u \in Range(incoming_queue)
                                     THEN Discarded(u, TRUE) ELSE fate[u]
    BY <1>13 DEF DestroyMembers
  <2>6. \A u \in AnyTask : Discarded(u, TRUE) \in {"leaked", "deleted"}
    BY DEF Discarded
  <2>7. Settled'
    BY <2>1, <2>2, <2>3, <2>4, <2>5, <2>6 DEF AccountInv, Settled
  <2>8. InTransit'
    BY <2>2, <2>4, <2>5, TransitUnchanged DEF AccountInv
  <2> QED BY <2>7, <2>8 DEF AccountInv
<1> QED BY <1>1, <1>3, <1>4, <1>5, <1>6, <1>7, <1>8, <1>9, <1>10, <1>11, <1>12, <1>13
        DEF Next, Client, Worker

LEMMA InitAccount == Init => AccountInv
<1> SUFFICES ASSUME Init PROVE AccountInv
  OBVIOUS
<1>1. Range(incoming_queue) = {} /\ Range(work_queue) = {}
        /\ IsInjective(incoming_queue) /\ IsInjective(work_queue)
  BY EmptyQueue DEF Init, IsInjective
<1>2. Settled
  BY <1>1 DEF Init, Settled
<1>3. InTransit
  BY DEF Init, InTransit
<1> QED BY <1>2, <1>3 DEF AccountInv

LEMMA AccountInvariance == Spec => [](TypeOK /\ LifeInv /\ AccountInv)
<1>1. Init => AccountInv
  BY InitAccount
<1>2. (TypeOK /\ LifeInv) /\ AccountInv /\ [Next]_vars => AccountInv'
  BY AccountInductive
<1> QED BY <1>1, <1>2, LifeInvariance, PTL DEF Spec

\* A task accepted by a loop waits in exactly one place until it ran or was
\* discarded, and no task outlives the loop that accepted it.
THEOREM AcceptedTasksSettle == Spec => []TasksSettled
<1>1. TypeOK /\ LifeInv /\ AccountInv => TasksSettled
  <2> SUFFICES ASSUME TypeOK, LifeInv, AccountInv PROVE TasksSettled
    OBVIOUS
  <2>1. ASSUME worker \in {"none", "exited"} PROVE \A t \in AnyTask : fate[t] # "queued"
    <3>1. incoming_queue = <<>> /\ work_queue = <<>> /\ delayed_work_queue = {}
      BY <2>1 DEF LifeInv, QuitIsLast, QueuesEmpty, Absent
    <3> QED BY <3>1, EmptyQueue DEF AccountInv, Settled
  <2> QED BY <2>1 DEF TasksSettled, AccountInv, Settled
<1> QED BY <1>1, AccountInvariance, PTL

-----------------------------------------------------------------------------
(* Draining *)

LEMMA DrainingUnchanged ==
  ASSUME Draining, UNCHANGED <<delayed_work_queue, form, fate, before_quit>>,
         worker' \in {"idle", "wait"} \union LeftRun =>
           worker \in {"idle", "wait"} \union LeftRun
  PROVE  Draining'
BY DEF Draining

\* Tasks that were not yet queued may be given another form and fate.
LEMMA DrainingLate ==
  ASSUME TypeOK, AccountInv, Draining,
         \A t \in AnyTask : fate[t] \in {"ran", "queued"} =>
           /\ form'[t] = form[t]
           /\ fate'[t] = fate[t] \/ (fate[t] = "queued" /\ fate'[t] = "ran"),
         delayed_work_queue' \subseteq delayed_work_queue,
         UNCHANGED before_quit,
         worker' \in {"idle", "wait"} \union LeftRun =>
           worker \in {"idle", "wait"} \union LeftRun
  PROVE  Draining'
<1>1. \A t \in delayed_work_queue : t \in AnyTask /\ fate[t] = "queued"
  BY WhereTheyWait DEF AccountInv
<1>2. before_quit \subseteq AnyTask
  BY DEF TypeOK, AnyTask
<1> QED BY <1>1, <1>2 DEF Draining

LEMMA DrainingInductive ==
  TypeOK /\ LifeInv /\ AccountInv /\ Draining /\ [Next]_vars => Draining'
<1> SUFFICES ASSUME TypeOK, LifeInv, AccountInv, Draining, [Next]_vars PROVE Draining'
  OBVIOUS
<1> USE DEF thread, queues, destructor, tasks
<1>1. ASSUME \/ Start \/ StopSoon \/ Stop \/ Owners \/ SignalStartup \/ ReloadWorkQueue
             \/ TaskReturns \/ NoDelayedWork \/ RunReturns \/ PumpWaits \/ PumpWakes
             \/ CleanUpReturns \/ ReloadToDelete \/ EndRound \/ Detach \/ UNCHANGED vars
      PROVE  Draining'
  <2>1. UNCHANGED <<delayed_work_queue, form, fate, before_quit>>
    BY <1>1 DEF Start, StopSoon, Stop, PostQuitTask, Owners, StartReturns, Join,
                SignalStartup, ReloadWorkQueue, TaskReturns, NoDelayedWork, RunReturns,
                PumpWaits, PumpWakes, CleanUpReturns, ReloadToDelete, EndRound, Detach, vars
  <2>2. worker' \in {"idle", "wait"} \union LeftRun =>
          worker \in {"idle", "wait"} \union LeftRun
    BY <1>1 DEF Start, StopSoon, Stop, Owners, StartReturns, Join,
                SignalStartup, ReloadWorkQueue, TaskReturns, NoDelayedWork, RunReturns,
                PumpWaits, PumpWakes, CleanUpReturns, ReloadToDelete, EndRound, Detach, vars,
                LeftRun, Destroying
  <2> QED BY <2>1, <2>2, DrainingUnchanged
<1>2. ASSUME NEW t \in Task, NEW f \in Form, OwnerPosts(t, f) PROVE Draining'
  <2>1. \A u \in AnyTask : u # t => form'[u] = form[u] /\ fate'[u] = fate[u]
    BY <1>2 DEF OwnerPosts, TypeOK
  <2>2. fate[t] = "unposted" /\ UNCHANGED <<worker, delayed_work_queue, before_quit>>
    BY <1>2 DEF OwnerPosts
  <2> QED BY <2>1, <2>2, DrainingLate
<1>3. ASSUME NEW t \in Task, NEW f \in Form, NEW th \in Poster, NEW l \in Loop,
             PostTaskHelper(th, t, f, l)
      PROVE  Draining'
  <2>1. \A u \in AnyTask : u # t => form'[u] = form[u] /\ fate'[u] = fate[u]
    BY <1>3 DEF PostTaskHelper, TypeOK
  <2>2. fate[t] = "unposted" /\ UNCHANGED <<worker, delayed_work_queue, before_quit>>
    BY <1>3 DEF PostTaskHelper
  <2> QED BY <2>1, <2>2, DrainingLate
<1>4. ASSUME NEW t \in Task, NEW f \in Form, WorkerPosts(t, f) PROVE Draining'
  <2>1. \A u \in AnyTask : u # t => form'[u] = form[u] /\ fate'[u] = fate[u]
    BY <1>4 DEF WorkerPosts, TypeOK
  <2>2. fate[t] = "unposted" /\ UNCHANGED <<worker, delayed_work_queue, before_quit>>
    BY <1>4 DEF WorkerPosts
  <2> QED BY <2>1, <2>2, DrainingLate
<1>5. ASSUME ConstructLoop PROVE Draining'
  BY <1>5 DEF ConstructLoop, Draining, LeftRun, Destroying
\* DoWork runs the tasks of before_quit one by one, or begins to count them.
<1>6. ASSUME DoWork PROVE Draining'
  <2> DEFINE t == Head(work_queue)
  <2>1. t \in AnyTask /\ fate[t] = "queued"
    BY <1>6, WhereTheyWait DEF DoWork, AccountInv
  <2>2. worker' \in {"run", "ran", "task"}
    BY <1>6 DEF DoWork
  <2>3. CASE form[t].delayed
    <3>1. delayed_work_queue' = delayed_work_queue \union {t}
            /\ UNCHANGED <<form, fate, before_quit>>
      BY <1>6, <2>3 DEF DoWork
    <3> QED BY <2>2, <2>3, <3>1 DEF Draining, LeftRun, Destroying
  <2>4. CASE ~form[t].delayed
    <3>1. fate' = [fate EXCEPT ![t] = "ran"] /\ UNCHANGED <<form, delayed_work_queue>>
      BY <1>6, <2>4 DEF DoWork
    <3>2. \A u \in AnyTask : fate'[u] = IF u = t THEN "ran" ELSE fate[u]
      BY <3>1 DEF TypeOK
    <3>3. \/ UNCHANGED before_quit
          \/ before_quit' = {u \in Task : fate[u] = "queued" /\ ~form[u].delayed}
      BY <1>6, <2>4 DEF DoWork
    <3>4. before_quit \subseteq AnyTask /\ Task \subseteq AnyTask
      BY DEF TypeOK, AnyTask
    <3>5. \A u \in before_quit' : ~form'[u].delayed /\ fate'[u] \in {"ran", "queued"}
      BY <3>1, <3>2, <3>3, <3>4 DEF Draining
    <3> QED BY <2>2, <3>1, <3>5 DEF Draining, LeftRun, Destroying
  <2> QED BY <2>3, <2>4
\* With both queues empty only delayed tasks are queued, and those were not
\* counted.
<1>7. ASSUME DoWorkDone PROVE Draining'
  <2>1. work_queue = <<>> /\ incoming_queue = <<>>
          /\ UNCHANGED <<delayed_work_queue, form, fate, before_quit>>
    BY <1>7 DEF DoWorkDone
  <2>2. \A t \in AnyTask : fate[t] = "queued" => form[t].delayed
    BY <2>1, EmptyQueue DEF AccountInv, Settled, Draining
  <2>3. \A t \in before_quit : fate[t] = "ran"
    BY <2>2 DEF TypeOK, AnyTask, Draining
  <2> QED BY <2>1, <2>3 DEF Draining
<1>8. ASSUME NEW t \in Task, DoDelayedWork(t) PROVE Draining'
  <2>1. t \in AnyTask /\ fate[t] = "queued"
    BY <1>8, WhereTheyWait DEF DoDelayedWork, AccountInv
  <2>2. \A u \in AnyTask : fate'[u] = IF u = t THEN "ran" ELSE fate[u]
    BY <1>8 DEF DoDelayedWork, TypeOK
  <2>3. /\ delayed_work_queue' \subseteq delayed_work_queue
        /\ worker' = "delayed task"
        /\ UNCHANGED <<form, before_quit>>
    BY <1>8 DEF DoDelayedWork
  <2>4. worker' \notin {"idle", "wait"} \union LeftRun
    BY <2>3 DEF LeftRun, Destroying
  <2> QED BY <2>1, <2>2, <2>3, <2>4, DrainingLate
\* The loop was left: whatever is discarded now was not counted.
<1>9. ASSUME DeletePendingTask \/ DestroyMembers PROVE Draining'
  <2>1. worker \in LeftRun /\ UNCHANGED before_quit
    BY <1>9 DEF DeletePendingTask, DestroyMembers, LeftRun, Destroying
  <2>2. \A t \in before_quit : t \in AnyTask /\ fate[t] = "ran"
    BY <2>1 DEF Draining, TypeOK, AnyTask
  <2>3. \A t \in AnyTask : fate[t] = "ran" => fate'[t] = "ran" /\ form'[t] = form[t]
    <3>1. ASSUME NEW t \in AnyTask, fate[t] = "queued", NEW d, MayRepost(t, d),
                 NEW u \in AnyTask, fate[u] = "ran"
          PROVE  fate'[u] = "ran" /\ form'[u] = form[u]
      BY <3>1 DEF TypeOK, MayRepost
    <3>2. CASE DestroyMembers
      BY <3>2 DEF DestroyMembers, AccountInv, Settled
    <3>3. CASE DeletePendingTask
      BY <3>1, <3>3, WhereTheyWait DEF DeletePendingTask, AccountInv
    <3> QED BY <1>9, <3>2, <3>3
  <2>4. \A t \in delayed_work_queue' : form'[t].delayed
    <3>1. CASE DestroyMembers
      BY <3>1 DEF DestroyMembers, Draining
    <3>2. CASE DeletePendingTask
      <4>1. \A t \in AnyTask : fate[t] = "queued" => form'[t] = form[t]
        BY <3>2 DEF DeletePendingTask, MayRepost, TypeOK
      <4>2. \A t \in delayed_work_queue' : t \in AnyTask /\ fate[t] = "queued" /\ form[t].delayed
        BY <3>2, WhereTheyWait DEF DeletePendingTask, AccountInv, Draining
      <4> QED BY <4>1, <4>2
    <3> QED BY <1>9, <3>1, <3>2
  <2> QED BY <2>1, <2>2, <2>3, <2>4 DEF Draining
<1>10. ASSUME NEW th \in Poster \union {Owner}, AddToIncomingQueue(th) PROVE Draining'
  <2> DEFINE t == posting[th].task
  <2>1. t \in AnyTask
    BY <1>10, PostTyped DEF AddToIncomingQueue
  <2>2. fate' = [fate EXCEPT ![t] = "queued"]
          /\ UNCHANGED <<worker, delayed_work_queue, form, before_quit>>
    BY <1>10 DEF AddToIncomingQueue
  <2>3. t \notin before_quit
    BY <1>10 DEF AddToIncomingQueue, AccountInv, InTransit, Draining, TypeOK
  <2>4. \A u \in before_quit : u \in AnyTask /\ fate'[u] = fate[u]
    BY <2>2, <2>3 DEF TypeOK, AnyTask
  <2> QED BY <2>2, <2>4 DEF Draining
<1> QED BY <1>1, <1>2, <1>3, <1>4, <1>5, <1>6, <1>7, <1>8, <1>9, <1>10
        DEF Next, Client, Worker

\* Stop drains: the tasks without delay that waited when the ThreadQuitTask ran
\* have all run when the worker leaves the loop.
THEOREM StopDrains == Spec => []QuitComesLast
<1>1. Init => Draining
  BY DEF Init, Draining
<1>2. (TypeOK /\ LifeInv /\ AccountInv) /\ Draining /\ [Next]_vars => Draining'
  BY DrainingInductive
<1>3. Draining => QuitComesLast
  BY DEF Draining, QuitComesLast
<1> QED BY <1>1, <1>2, <1>3, AccountInvariance, PTL DEF Spec

-----------------------------------------------------------------------------
(* ~MessageLoop drains *)

\* The ThreadQuitTask that ended the run was the only one on its way.
QuitOnce == quit_received => ~QuitQueued

\* The tasks that were deleted, or leaked, instead of run.
Discards == {t \in Task : fate[t] \in {"deleted", "leaked"}}

\* Those, and the delayed tasks, which DeletePendingTasks deletes last.
Cleared == Discards \union delayed_work_queue

\* Each round but the last one deleted a task: did_work sent it into the next.
RoundsDelete ==
  /\ IsFiniteSet(Cleared)
  /\ worker = "delete" => Cardinality(Cleared) >= round - 1
  /\ worker = "reloaded" =>
       Cardinality(Cleared) >= IF did_work THEN round ELSE round - 1
  /\ worker = "reloaded" /\ delayed_work_queue # {} => did_work
  /\ worker \in {"detach", "detached"} /\ did_work => Cardinality(Cleared) >= Rounds

LEMMA QuitOnceInductive ==
  TypeOK /\ LifeInv /\ AccountInv /\ QuitOnce /\ [Next]_vars => QuitOnce'
<1> SUFFICES ASSUME TypeOK, LifeInv, AccountInv, QuitOnce, [Next]_vars PROVE QuitOnce'
  OBVIOUS
<1> USE DEF thread, queues, destructor, tasks
<1>1. ASSUME quit_received' => quit_received,
             QuitTask \in Range(incoming_queue') \union Range(work_queue') =>
               QuitTask \in Range(incoming_queue) \union Range(work_queue)
      PROVE  QuitOnce'
  BY <1>1 DEF QuitOnce, QuitQueued
<1>2. ASSUME \/ Start \/ StopSoon \/ Stop \/ Owners \/ SignalStartup \/ TaskReturns
             \/ DoWorkDone \/ NoDelayedWork \/ RunReturns \/ PumpWaits \/ PumpWakes
             \/ CleanUpReturns \/ EndRound \/ Detach \/ UNCHANGED vars
             \/ \E t \in Task : DoDelayedWork(t)
             \/ \E t \in Task, f \in Form :
                  OwnerPosts(t, f) \/ \E th \in Poster, l \in Loop : PostTaskHelper(th, t, f, l)
      PROVE  QuitOnce'
  <2>1. UNCHANGED <<incoming_queue, work_queue, quit_received>>
    BY <1>2 DEF Start, StopSoon, Stop, Owners, StartReturns, Join, SignalStartup,
                TaskReturns, DoWorkDone, NoDelayedWork, RunReturns, PumpWaits, PumpWakes,
                CleanUpReturns, EndRound, Detach, vars, DoDelayedWork, OwnerPosts,
                PostTaskHelper
  <2> QED BY <1>1, <2>1
<1>3. ASSUME ConstructLoop PROVE QuitOnce'
  BY <1>3 DEF ConstructLoop, QuitOnce
<1>4. ASSUME NEW t \in Task, Queued(t), UNCHANGED quit_received,
             Range(work_queue') \subseteq Range(work_queue)
      PROVE  QuitOnce'
  <2>1. t # QuitTask /\ t \in AnyTask
    BY DEF AnyTask
  <2>2. Range(incoming_queue') = Range(incoming_queue) \union {t}
    BY <1>4, <2>1, AddedToQueue DEF TypeOK, Queued
  <2> QED BY <1>1, <1>4, <2>1, <2>2
<1>5. ASSUME NEW t \in Task, NEW f \in Form, WorkerPosts(t, f) PROVE QuitOnce'
  BY <1>4, <1>5 DEF WorkerPosts
<1>6. ASSUME ReloadWorkQueue \/ ReloadToDelete PROVE QuitOnce'
  <2>1. incoming_queue' = <<>> /\ work_queue' = incoming_queue /\ UNCHANGED quit_received
    BY <1>6 DEF ReloadWorkQueue, ReloadToDelete
  <2> QED BY <1>1, <2>1, EmptyQueue
\* Before DoWork runs it, the ThreadQuitTask is in one place.
<1>7. ASSUME DoWork PROVE QuitOnce'
  <2>1. /\ Range(work_queue') = Range(work_queue) \ {Head(work_queue)}
        /\ Head(work_queue) \notin Range(incoming_queue)
    BY <1>7, WhereTheyWait DEF DoWork, AccountInv
  <2>2. UNCHANGED incoming_queue
    BY <1>7 DEF DoWork
  <2>3. CASE Head(work_queue) = QuitTask
    BY <2>1, <2>2, <2>3 DEF QuitOnce, QuitQueued
  <2>4. CASE Head(work_queue) # QuitTask
    <3>1. UNCHANGED quit_received
      BY <1>7, <2>4 DEF DoWork
    <3> QED BY <1>1, <2>1, <2>2, <3>1
  <2> QED BY <2>3, <2>4
<1>8. ASSUME DeletePendingTask PROVE QuitOnce'
  <2>1. Range(work_queue') \subseteq Range(work_queue) /\ UNCHANGED quit_received
    BY <1>8, WhereTheyWait DEF DeletePendingTask, AccountInv
  <2>2. UNCHANGED incoming_queue \/ \E next \in Task : Queued(next)
    BY <1>8 DEF DeletePendingTask, MayRepost
  <2> QED BY <1>1, <1>4, <2>1, <2>2
<1>9. ASSUME DestroyMembers PROVE QuitOnce'
  <2>1. incoming_queue' = <<>> /\ UNCHANGED <<work_queue, quit_received>>
    BY <1>9 DEF DestroyMembers
  <2> QED BY <1>1, <2>1, EmptyQueue
\* The owner does not post any more.
<1>10. ASSUME NEW th \in Poster \union {Owner}, AddToIncomingQueue(th) PROVE QuitOnce'
  <2>1. CASE th = Owner
    <3>1. ~quit_received /\ UNCHANGED quit_received
      BY <1>10, <2>1, OwnerHasLoop DEF AddToIncomingQueue, LifeInv, PostsArrive
    <3> QED BY <3>1 DEF QuitOnce
  <2>2. CASE th \in Poster
    <3>1. posting[th].task \in Task
      BY <1>10, <2>2 DEF AddToIncomingQueue, LifeInv, PostsArrive
    <3> QED BY <1>4, <1>10, <3>1 DEF AddToIncomingQueue
  <2> QED BY <2>1, <2>2
<1> QED BY <1>2, <1>3, <1>5, <1>6, <1>7, <1>8, <1>9, <1>10 DEF Next, Client, Worker

\* What was discarded stays discarded.
LEMMA DiscardsStay ==
  ASSUME TypeOK, LifeInv, AccountInv, [Next]_vars
  PROVE  Discards \subseteq Discards'
<1> SUFFICES ASSUME NEW u \in Task, fate[u] \in {"deleted", "leaked"}
             PROVE  fate'[u] \in {"deleted", "leaked"}
  BY DEF Discards
<1> USE DEF thread, queues, destructor, tasks
<1>1. u \in AnyTask /\ fate[u] \notin {"unposted", "posting", "queued"}
  BY DEF AnyTask
<1>2. ASSUME \/ Start \/ StopSoon \/ Stop \/ Owners \/ ConstructLoop \/ SignalStartup
             \/ ReloadWorkQueue \/ TaskReturns \/ DoWorkDone \/ NoDelayedWork \/ RunReturns
             \/ PumpWaits \/ PumpWakes \/ CleanUpReturns \/ ReloadToDelete \/ EndRound
             \/ Detach \/ UNCHANGED vars
      PROVE  UNCHANGED fate
  BY <1>2 DEF Start, StopSoon, Stop, Owners, StartReturns, Join, ConstructLoop,
              SignalStartup, ReloadWorkQueue, TaskReturns, DoWorkDone, NoDelayedWork,
              RunReturns, PumpWaits, PumpWakes, CleanUpReturns, ReloadToDelete, EndRound,
              Detach, vars
<1>3. ASSUME NEW t \in Task, NEW f \in Form,
             \/ OwnerPosts(t, f) \/ WorkerPosts(t, f)
             \/ \E th \in Poster, l \in Loop : PostTaskHelper(th, t, f, l)
      PROVE  UNCHANGED fate[u]
  BY <1>1, <1>3 DEF OwnerPosts, WorkerPosts, PostTaskHelper, TypeOK
<1>4. ASSUME NEW th \in Poster \union {Owner}, AddToIncomingQueue(th)
      PROVE  UNCHANGED fate[u]
  <2>1. posting[th].task # u
    BY <1>1, <1>4 DEF AddToIncomingQueue, AccountInv, InTransit
  <2> QED BY <1>1, <1>4, <2>1 DEF AddToIncomingQueue, TypeOK
<1>5. ASSUME DoWork \/ \E t \in Task : DoDelayedWork(t) PROVE UNCHANGED fate[u]
  BY <1>1, <1>5, WhereTheyWait DEF DoWork, DoDelayedWork, AccountInv, TypeOK
<1>6. ASSUME NEW t \in AnyTask, fate[t] = "queued", NEW d, MayRepost(t, d)
      PROVE  UNCHANGED fate[u]
  BY <1>1, <1>6 DEF MayRepost, TypeOK
<1>7. ASSUME DeletePendingTask PROVE UNCHANGED fate[u]
  BY <1>6, <1>7, WhereTheyWait DEF DeletePendingTask, AccountInv
<1>8. ASSUME DestroyMembers PROVE fate'[u] \in {"deleted", "leaked"}
  BY <1>1, <1>8 DEF DestroyMembers, Discarded
<1> QED BY <1>2, <1>3, <1>4, <1>5, <1>7, <1>8 DEF Next, Client, Worker

\* Discarding a task adds one to the discarded ones.
LEMMA OneMoreDiscard ==
  ASSUME TypeOK, AccountInv, NEW t \in AnyTask, NEW d \in {"leaked", "deleted"},
         MayRepost(t, d), fate[t] = "queued"
  PROVE  \A u \in Task : u \in Discards' <=> u \in Discards \/ u = t
<1>1. ASSUME NEW u \in Task, u # t
      PROVE  fate'[u] = fate[u] \/ (fate[u] = "unposted" /\ fate'[u] = "queued")
  BY <1>1 DEF MayRepost, TypeOK, AnyTask
<1>2. fate'[t] = d
  BY DEF MayRepost, TypeOK, AnyTask
<1> QED BY <1>1, <1>2 DEF Discards

\* One call of DeletePendingTask deletes a task or puts it off: it adds to
\* Cleared or, for a task put off before, leaves it alone.
LEMMA OneMoreCleared ==
  ASSUME TypeOK, LifeInv, AccountInv, QuitOnce, DeletePendingTask
  PROVE  \/ \E t : t \notin Cleared /\ Cleared' = Cleared \union {t}
         \/ Cleared' = Cleared /\ delayed_work_queue # {}
<1>1. worker \in LeftRun /\ quit_received
  BY DEF DeletePendingTask, LeftRun, Destroying, LifeInv, QuitIsLast
<1>2. ASSUME work_queue # <<>>
      PROVE  /\ Head(work_queue) \in Task /\ Head(work_queue) \in AnyTask
             /\ fate[Head(work_queue)] = "queued"
             /\ Head(work_queue) \notin Cleared
  <2>1. /\ Head(work_queue) \in AnyTask
        /\ Head(work_queue) \in Range(work_queue)
        /\ fate[Head(work_queue)] = "queued"
        /\ Head(work_queue) \notin delayed_work_queue
    BY <1>2, WhereTheyWait DEF AccountInv
  <2>2. Head(work_queue) # QuitTask
    BY <1>1, <2>1 DEF QuitOnce, QuitQueued
  <2> QED BY <2>1, <2>2 DEF AnyTask, Cleared, Discards
<1>3. CASE /\ work_queue # <<>>
           /\ delayed_work_queue' = delayed_work_queue \union {Head(work_queue)}
           /\ UNCHANGED fate
  <2>1. Cleared' = Cleared \union {Head(work_queue)}
    BY <1>3 DEF Cleared, Discards
  <2> QED BY <1>2, <1>3, <2>1
<1>4. CASE /\ work_queue # <<>>
           /\ MayRepost(Head(work_queue), Discarded(Head(work_queue), TRUE))
           /\ UNCHANGED delayed_work_queue
  <2>1. Discarded(Head(work_queue), TRUE) \in {"leaked", "deleted"}
    BY DEF Discarded
  <2>2. \A u \in Task : u \in Discards' <=> u \in Discards \/ u = Head(work_queue)
    BY <1>2, <1>4, <2>1, OneMoreDiscard
  <2>3. Cleared' = Cleared \union {Head(work_queue)}
    BY <1>2, <1>4, <2>2 DEF Cleared, Discards
  <2> QED BY <1>2, <1>4, <2>3
<1>5. ASSUME NEW t \in delayed_work_queue,
             delayed_work_queue' = delayed_work_queue \ {t},
             MayRepost(t, Discarded(t, FALSE))
      PROVE  Cleared' = Cleared /\ delayed_work_queue # {}
  <2>1. Discarded(t, FALSE) \in {"leaked", "deleted"}
    BY DEF Discarded
  <2>2. t \in Task /\ t \in AnyTask /\ fate[t] = "queued"
    BY WhereTheyWait DEF AccountInv, TypeOK
  <2>3. \A u \in Task : u \in Discards' <=> u \in Discards \/ u = t
    BY <1>5, <2>1, <2>2, OneMoreDiscard
  <2> QED BY <1>5, <2>2, <2>3 DEF Cleared, Discards
<1> QED BY <1>3, <1>4, <1>5 DEF DeletePendingTask

LEMMA OneMoreCounts ==
  ASSUME NEW S, NEW t, IsFiniteSet(S), t \notin S
  PROVE  IsFiniteSet(S \union {t}) /\ Cardinality(S \union {t}) = Cardinality(S) + 1
BY FS_AddElement

LEMMA CountsGrow ==
  ASSUME NEW S, NEW T, IsFiniteSet(T), S \subseteq T
  PROVE  /\ Cardinality(S) \in Nat /\ Cardinality(T) \in Nat
         /\ Cardinality(S) <= Cardinality(T)
BY FS_Subset, FS_CardinalityType

\* Outside ~MessageLoop's loop one step discards finitely many tasks.
LEMMA ClearedFinite ==
  ASSUME TypeOK, LifeInv, AccountInv, QuitOnce, IsFiniteSet(Cleared), [Next]_vars
  PROVE  IsFiniteSet(Cleared')
<1> USE DEF thread, queues, destructor, tasks
<1>1. ASSUME NEW S, IsFiniteSet(S), Cleared' \subseteq Cleared \union S
      PROVE  IsFiniteSet(Cleared')
  BY <1>1, FS_Union, FS_Subset
<1>2. ASSUME NEW t, \A u \in Task : u # t /\ u \in Cleared' => u \in Cleared
      PROVE  IsFiniteSet(Cleared')
  <2>1. Cleared' \subseteq Task
    BY TypeInductive DEF Cleared, Discards, TypeOK
  <2>2. Cleared' \subseteq Cleared \union {t}
    BY <1>2, <2>1
  <2> QED BY <1>1, <2>2, FS_Singleton
<1>3. ASSUME \/ Start \/ StopSoon \/ Stop \/ Owners \/ ConstructLoop \/ SignalStartup
             \/ ReloadWorkQueue \/ TaskReturns \/ DoWorkDone \/ NoDelayedWork \/ RunReturns
             \/ PumpWaits \/ PumpWakes \/ CleanUpReturns \/ ReloadToDelete \/ EndRound
             \/ Detach \/ UNCHANGED vars
      PROVE  IsFiniteSet(Cleared')
  <2>1. UNCHANGED <<fate, delayed_work_queue>>
    BY <1>3 DEF Start, StopSoon, Stop, Owners, StartReturns, Join, ConstructLoop,
                SignalStartup, ReloadWorkQueue, TaskReturns, DoWorkDone, NoDelayedWork,
                RunReturns, PumpWaits, PumpWakes, CleanUpReturns, ReloadToDelete, EndRound,
                Detach, vars
  <2> QED BY <2>1 DEF Cleared, Discards
<1>4. ASSUME NEW t \in AnyTask, UNCHANGED delayed_work_queue,
             NEW d, fate' = [fate EXCEPT ![t] = d]
      PROVE  IsFiniteSet(Cleared')
  <2>1. \A u \in Task : u # t => fate'[u] = fate[u]
    BY <1>4 DEF TypeOK, AnyTask
  <2> QED BY <1>2, <1>4, <2>1 DEF Cleared, Discards
<1>5. ASSUME NEW t \in Task, NEW f \in Form,
             \/ OwnerPosts(t, f) \/ WorkerPosts(t, f)
             \/ \E th \in Poster, l \in Loop : PostTaskHelper(th, t, f, l)
      PROVE  IsFiniteSet(Cleared')
  <2>1. t \in AnyTask
    BY DEF AnyTask
  <2> QED BY <1>4, <1>5, <2>1 DEF OwnerPosts, WorkerPosts, PostTaskHelper
<1>6. ASSUME NEW th \in Poster \union {Owner}, AddToIncomingQueue(th)
      PROVE  IsFiniteSet(Cleared')
  BY <1>4, <1>6, PostTyped DEF AddToIncomingQueue
<1>7. ASSUME DoWork PROVE IsFiniteSet(Cleared')
  <2>1. \A u \in Task : u # Head(work_queue) =>
          fate'[u] = fate[u] /\ (u \in delayed_work_queue' => u \in delayed_work_queue)
    BY <1>7 DEF DoWork, TypeOK, AnyTask
  <2> QED BY <1>2, <2>1 DEF Cleared, Discards
<1>8. ASSUME NEW t \in Task, DoDelayedWork(t) PROVE IsFiniteSet(Cleared')
  <2>1. \A u \in Task : u # t =>
          fate'[u] = fate[u] /\ (u \in delayed_work_queue' => u \in delayed_work_queue)
    BY <1>8 DEF DoDelayedWork, TypeOK, AnyTask
  <2> QED BY <1>2, <2>1 DEF Cleared, Discards
<1>9. ASSUME DeletePendingTask PROVE IsFiniteSet(Cleared')
  BY <1>9, OneMoreCleared, OneMoreCounts
<1>10. ASSUME DestroyMembers PROVE IsFiniteSet(Cleared')
  <2>1. \A u \in Task : u \notin Range(incoming_queue) => fate'[u] = fate[u]
    BY <1>10 DEF DestroyMembers, AnyTask
  <2>2. UNCHANGED delayed_work_queue
    BY <1>10 DEF DestroyMembers
  <2>3. Cleared' \subseteq Cleared \union Range(incoming_queue)
    BY <2>1, <2>2 DEF Cleared, Discards
  <2>4. IsFiniteSet(Range(incoming_queue))
    <3>1. incoming_queue \in Seq(AnyTask)
      BY DEF TypeOK
    <3>2. Len(incoming_queue) \in Nat /\ DOMAIN incoming_queue = 1..Len(incoming_queue)
      BY <3>1
    <3>3. IsFiniteSet(DOMAIN incoming_queue)
      BY <3>2, FS_Interval
    <3>4. incoming_queue \in Surjection(DOMAIN incoming_queue, Range(incoming_queue))
      BY <3>1, <3>2 DEF Surjection, Range
    <3> QED BY <3>3, <3>4, FS_Surjection
  <2> QED BY <1>1, <2>3, <2>4
<1> QED BY <1>3, <1>5, <1>6, <1>7, <1>8, <1>9, <1>10 DEF Next, Client, Worker

\* Between a call of DeletePendingTask and the end of the loop nothing runs.
LEMMA OthersDestroy ==
  ASSUME TypeOK, LifeInv, [Next]_vars,
         worker' \in {"delete", "reloaded", "detach", "detached"},
         ~CleanUpReturns, ~DeletePendingTask, ~ReloadToDelete, ~EndRound, ~Detach
  PROVE  UNCHANGED <<worker, round, did_work, delayed_work_queue>>
<1> USE DEF thread, queues, destructor, tasks
<1>1. ASSUME \/ Start \/ Owners \/ ConstructLoop \/ SignalStartup
             \/ TaskReturns \/ DoWorkDone \/ NoDelayedWork \/ RunReturns
             \/ PumpWaits \/ PumpWakes \/ DestroyMembers \/ DoWork
             \/ \E t \in Task : DoDelayedWork(t)
      PROVE  worker' \notin {"delete", "reloaded", "detach", "detached"}
               \/ UNCHANGED <<worker, round, did_work, delayed_work_queue>>
  BY <1>1 DEF Start, Owners, StartReturns, Join, ConstructLoop, SignalStartup,
              TaskReturns, DoWorkDone, NoDelayedWork, RunReturns, PumpWaits, PumpWakes,
              DestroyMembers, DoWork, DoDelayedWork
<1>2. ASSUME \/ StopSoon \/ Stop \/ ReloadWorkQueue \/ UNCHANGED vars
             \/ \E th \in Poster \union {Owner} : AddToIncomingQueue(th)
             \/ \E t \in Task, f \in Form :
                  \/ OwnerPosts(t, f) \/ WorkerPosts(t, f)
                  \/ \E th \in Poster, l \in Loop : PostTaskHelper(th, t, f, l)
      PROVE  UNCHANGED <<worker, round, did_work, delayed_work_queue>>
  BY <1>2 DEF StopSoon, Stop, ReloadWorkQueue, vars, AddToIncomingQueue, OwnerPosts,
              WorkerPosts, PostTaskHelper
<1> QED BY <1>1, <1>2 DEF Next, Client, Worker

LEMMA RoundsDeleteInductive ==
  TypeOK /\ LifeInv /\ AccountInv /\ QuitOnce /\ RoundsDelete /\ [Next]_vars
    => RoundsDelete'
<1> SUFFICES ASSUME TypeOK, LifeInv, AccountInv, QuitOnce, RoundsDelete, [Next]_vars
             PROVE  RoundsDelete'
  OBVIOUS
<1>1. IsFiniteSet(Cleared')
  BY ClearedFinite DEF RoundsDelete
<1>2. round \in 1..Rounds /\ did_work \in BOOLEAN /\ Rounds \in Nat
  BY DEF TypeOK
<1>3. PICK n \in Nat : n = Cardinality(Cleared)
  BY FS_CardinalityType DEF RoundsDelete
<1>4. PICK m \in Nat : m = Cardinality(Cleared')
  BY <1>1, FS_CardinalityType
<1>5. UNCHANGED delayed_work_queue => n <= m
  <2>1. UNCHANGED delayed_work_queue => Cleared \subseteq Cleared'
    BY DiscardsStay DEF Cleared
  <2> QED BY <1>1, <1>3, <1>4, <2>1, CountsGrow
<1>6. /\ worker = "delete" => n >= round - 1
      /\ worker = "reloaded" => n >= IF did_work THEN round ELSE round - 1
      /\ worker \in {"detach", "detached"} /\ did_work => n >= Rounds
      /\ worker = "reloaded" /\ delayed_work_queue # {} => did_work
  BY <1>3 DEF RoundsDelete
<1> SUFFICES /\ worker' = "delete" => m >= round' - 1
             /\ worker' = "reloaded" => m >= IF did_work' THEN round' ELSE round' - 1
             /\ worker' \in {"detach", "detached"} /\ did_work' => m >= Rounds
             /\ worker' = "reloaded" /\ delayed_work_queue' # {} => did_work'
  BY <1>1, <1>4 DEF RoundsDelete
<1>7. CASE CleanUpReturns
  BY <1>7 DEF CleanUpReturns
<1>8. CASE DeletePendingTask
  <2>1. ASSUME NEW t, t \notin Cleared, Cleared' = Cleared \union {t} PROVE m = n + 1
    BY <1>3, <1>4, <2>1, OneMoreCounts DEF RoundsDelete
  <2>2. UNCHANGED <<worker, round>> /\ worker \in {"delete", "reloaded"} /\ did_work'
    BY <1>8 DEF DeletePendingTask
  <2>3. m = n + 1 \/ (m = n /\ delayed_work_queue # {})
    BY <1>3, <1>4, <1>8, <2>1, OneMoreCleared
  <2> QED BY <1>2, <1>6, <2>2, <2>3
<1>9. CASE ReloadToDelete
  <2>1. /\ worker = "delete" /\ worker' = "reloaded" /\ ~did_work'
        /\ UNCHANGED <<round, delayed_work_queue>> /\ delayed_work_queue = {}
    BY <1>9 DEF ReloadToDelete, QueuesEmpty
  <2> QED BY <1>5, <1>6, <1>2, <2>1
<1>10. CASE EndRound
  <2>1. /\ worker = "reloaded" /\ UNCHANGED <<did_work, delayed_work_queue>>
        /\ \/ did_work /\ worker' = "delete" /\ round' = round + 1
           \/ (~did_work \/ round = Rounds) /\ worker' = "detach" /\ round' = round
    BY <1>10 DEF EndRound, queues
  <2> QED BY <1>2, <1>5, <1>6, <2>1
<1>11. CASE Detach
  <2>1. /\ worker = "detach" /\ worker' = "detached"
        /\ UNCHANGED <<did_work, delayed_work_queue>>
    BY <1>11 DEF Detach, queues, destructor
  <2> QED BY <1>2, <1>5, <1>6, <2>1
<1>12. CASE ~CleanUpReturns /\ ~DeletePendingTask /\ ~ReloadToDelete /\ ~EndRound /\ ~Detach
  <2>1. CASE worker' \in {"delete", "reloaded", "detach", "detached"}
    <3>1. UNCHANGED <<worker, round, did_work, delayed_work_queue>>
      BY <1>12, <2>1, OthersDestroy
    <3> QED BY <1>2, <1>5, <1>6, <3>1
  <2>2. CASE worker' \notin {"delete", "reloaded", "detach", "detached"}
    BY <2>2
  <2> QED BY <2>1, <2>2
<1> QED BY <1>7, <1>8, <1>9, <1>10, <1>11, <1>12

\* DCHECK(!did_work): the destructor stops because nothing is left to delete,
\* whatever the tasks it deletes and other threads post meanwhile, unless at
\* least as many tasks as it has rounds were deleted instead of run.
THEOREM DestructorEnds ==
  Spec => [](Cardinality(Discards) < Rounds => DestructorDrains)
<1>1. Init => QuitOnce /\ RoundsDelete
  <2>1. Init => Cleared = {}
    BY DEF Init, Cleared, Discards, AnyTask
  <2> QED BY <2>1, FS_EmptySet DEF Init, QuitOnce, RoundsDelete
<1>2. (TypeOK /\ LifeInv /\ AccountInv) /\ (QuitOnce /\ RoundsDelete) /\ [Next]_vars
        => (QuitOnce /\ RoundsDelete)'
  BY QuitOnceInductive, RoundsDeleteInductive
<1>3. (TypeOK /\ LifeInv /\ AccountInv) /\ (QuitOnce /\ RoundsDelete)
        => (Cardinality(Discards) < Rounds => DestructorDrains)
  <2> SUFFICES ASSUME TypeOK, LifeInv, RoundsDelete, Cardinality(Discards) < Rounds,
                      worker \in {"detach", "detached"}, did_work
               PROVE  FALSE
    BY DEF DestructorDrains
  <2>1. Cleared = Discards
    BY DEF LifeInv, QuitIsLast, QueuesEmpty, Cleared
  <2>2. Cardinality(Discards) \in Nat /\ Cardinality(Discards) >= Rounds
    BY <2>1, FS_CardinalityType DEF RoundsDelete
  <2> QED BY <2>2
<1> QED BY <1>1, <1>2, <1>3, AccountInvariance, PTL DEF Spec

-----------------------------------------------------------------------------
(* The owner never waits for nothing *)

\* Once stopping_ is set, the ThreadQuitTask is being posted, is in a queue or ran.
QuitIsComing ==
  stopping =>
    \/ posting[Owner] # Idle /\ posting[Owner].task = QuitTask
    \/ QuitQueued \/ quit_received

\* The pump does not wait with work, nor after Quit.
WaitsForWork ==
  /\ worker \in {"idle", "wait"} => work_queue = <<>>
  /\ worker = "wait" => ~quit_received

\* While the owner starts the thread, the worker signals or has yet to.
WillSignal == owner = "starting" => startup \/ worker \in {"created", "init"}

WaitInv == QuitIsComing /\ WaitsForWork /\ WillSignal

\* The guards of what Worker may do.
WorkerCanStep ==
  /\ worker \notin {"none", "exited"}
  /\ worker = "wait" => incoming_queue # <<>> \/ delayed_work_queue # {}
  /\ worker = "detach" => ~Locked(loops)

\* The owner that waits in Start or Stop can go on, or the worker can, or it
\* waits for the lock of a poster that can.
OwnerIsAwaited ==
  owner # "out" =>
    \/ posting[Owner] # Idle
    \/ owner = "starting" /\ startup
    \/ owner = "joining" /\ worker = "exited"
    \/ WorkerCanStep
    \/ \E th \in Poster : posting[th] # Idle /\ posting[th].loop = loops

LEMMA QuitComingInductive ==
  TypeOK /\ LifeInv /\ QuitIsComing /\ [Next]_vars => QuitIsComing'
<1> SUFFICES ASSUME TypeOK, LifeInv, QuitIsComing, [Next]_vars, stopping'
             PROVE  \/ posting'[Owner] # Idle /\ posting'[Owner].task = QuitTask
                    \/ QuitQueued' \/ quit_received'
  BY DEF QuitIsComing
<1> DEFINE Coming == \/ posting'[Owner] # Idle /\ posting'[Owner].task = QuitTask
                     \/ QuitQueued' \/ quit_received'
<1> USE DEF thread, queues, destructor, tasks
<1>1. /\ Owner \in DOMAIN posting
      /\ \A th \in Poster : th # Owner
  BY DEF TypeOK
\* Where the ThreadQuitTask is stays where it is.
<1>2. ASSUME stopping, posting'[Owner] = posting[Owner],
             quit_received => quit_received',
             QuitTask \in Range(incoming_queue) \union Range(work_queue)
               => QuitTask \in Range(incoming_queue') \union Range(work_queue')
      PROVE  Coming
  BY <1>2 DEF QuitIsComing, QuitQueued
<1>3. ASSUME \/ Start \/ StartReturns \/ SignalStartup \/ TaskReturns
             \/ DoWorkDone \/ NoDelayedWork \/ RunReturns \/ PumpWaits \/ PumpWakes
             \/ CleanUpReturns \/ EndRound \/ Detach \/ UNCHANGED vars
             \/ \E t \in Task : DoDelayedWork(t)
      PROVE  Coming
  <2>1. UNCHANGED <<stopping, posting, incoming_queue, work_queue, quit_received>>
    BY <1>3 DEF Start, StartReturns, SignalStartup,
                TaskReturns, DoWorkDone, NoDelayedWork, RunReturns, PumpWaits, PumpWakes,
                CleanUpReturns, EndRound, Detach, vars, DoDelayedWork
  <2> QED BY <1>2, <2>1
<1>4. CASE Join
  BY <1>4 DEF Join
<1>5. ASSUME PostQuitTask PROVE Coming
  <2>1. posting'[Owner] = [pc |-> "push", task |-> QuitTask, loop |-> message_loop]
    BY <1>1, <1>5 DEF PostQuitTask
  <2> QED BY <2>1 DEF Idle
<1>6. CASE StopSoon
  BY <1>5, <1>6 DEF StopSoon
<1>7. CASE Stop
  <2>1. CASE MustQuit
    BY <1>5, <1>7, <2>1 DEF Stop
  <2>2. CASE ~MustQuit
    <3>1. UNCHANGED <<stopping, posting, incoming_queue, work_queue, quit_received>>
      BY <1>7, <2>2 DEF Stop
    <3> QED BY <1>2, <3>1
  <2> QED BY <2>1, <2>2
<1>8. ASSUME NEW t \in Task, NEW f \in Form, OwnerPosts(t, f) PROVE Coming
  BY <1>8 DEF OwnerPosts
<1>9. ASSUME NEW t \in Task, NEW f \in Form, NEW th \in Poster, NEW l \in Loop,
             PostTaskHelper(th, t, f, l)
      PROVE  Coming
  <2>1. /\ UNCHANGED <<stopping, incoming_queue, work_queue, quit_received>>
        /\ posting'[Owner] = posting[Owner]
    BY <1>1, <1>9 DEF PostTaskHelper
  <2> QED BY <1>2, <2>1
<1>10. ASSUME NEW t \in Task, Queued(t), UNCHANGED <<stopping, quit_received, work_queue>>,
              posting'[Owner] = posting[Owner]
       PROVE  Coming
  <2>1. Range(incoming_queue') = Range(incoming_queue) \union {t}
    BY <1>10, AddedToQueue DEF TypeOK, Queued, AnyTask
  <2> QED BY <1>2, <1>10, <2>1
<1>11. ASSUME NEW t \in Task, NEW f \in Form, WorkerPosts(t, f) PROVE Coming
  BY <1>10, <1>11 DEF WorkerPosts
<1>12. ASSUME NEW th \in Poster \union {Owner}, AddToIncomingQueue(th) PROVE Coming
  <2>1. /\ UNCHANGED <<stopping, quit_received, work_queue>>
        /\ posting[th] # Idle /\ Queued(posting[th].task)
        /\ posting' = [posting EXCEPT ![th] = Idle]
    BY <1>12 DEF AddToIncomingQueue
  <2>2. CASE th = Owner
    <3>1. Range(incoming_queue') = Range(incoming_queue) \union {posting[Owner].task}
      BY <2>1, <2>2, PostTyped, AddedToQueue DEF TypeOK, Queued
    <3>2. \/ posting[Owner].task = QuitTask
          \/ QuitTask \in Range(incoming_queue) \union Range(work_queue)
          \/ quit_received
      BY <2>1 DEF QuitIsComing, QuitQueued
    <3> QED BY <2>1, <3>1, <3>2 DEF QuitQueued
  <2>3. CASE th \in Poster
    <3>1. posting[th].task \in Task
      BY <2>1, <2>3 DEF LifeInv, PostsArrive
    <3>2. posting'[Owner] = posting[Owner]
      BY <1>1, <2>1, <2>3
    <3> QED BY <1>10, <2>1, <3>1, <3>2
  <2> QED BY <2>2, <2>3
<1>13. CASE ConstructLoop
  BY <1>13 DEF ConstructLoop, LifeInv, OwnerKnows, TypeOK
<1>14. CASE ReloadWorkQueue
  <2>1. /\ incoming_queue' = <<>> /\ work_queue' = incoming_queue
        /\ work_queue = <<>>
        /\ UNCHANGED <<stopping, posting, quit_received>>
    BY <1>14 DEF ReloadWorkQueue
  <2> QED BY <1>2, <2>1, EmptyQueue
<1>15. CASE DoWork
  <2>1. Range(work_queue) = Range(work_queue') \union {Head(work_queue)}
    BY <1>15, TakenFromQueue DEF DoWork, TypeOK
  <2>2. UNCHANGED <<stopping, posting, incoming_queue>>
    BY <1>15 DEF DoWork
  <2>3. CASE Head(work_queue) = QuitTask
    BY <1>15, <2>3 DEF DoWork, LifeInv, QuitIsLast, QuitForm
  <2>4. CASE Head(work_queue) # QuitTask
    <3>1. UNCHANGED quit_received
      BY <1>15, <2>4 DEF DoWork
    <3> QED BY <1>2, <2>1, <2>2, <2>4, <3>1
  <2> QED BY <2>3, <2>4
\* The worker has left the loop.
<1>16. CASE DeletePendingTask \/ ReloadToDelete \/ DestroyMembers
  <2>1. worker \in LeftRun /\ UNCHANGED quit_received
    BY <1>16 DEF DeletePendingTask, ReloadToDelete, DestroyMembers, LeftRun, Destroying
  <2> QED BY <2>1 DEF LifeInv, QuitIsLast
<1> QED BY <1>3, <1>4, <1>6, <1>7, <1>8, <1>9, <1>11, <1>12, <1>13, <1>14, <1>15, <1>16
        DEF Next, Client, Owners, Worker

LEMMA WaitsForWorkInductive ==
  TypeOK /\ LifeInv /\ WaitsForWork /\ [Next]_vars => WaitsForWork'
<1> SUFFICES ASSUME TypeOK, LifeInv, WaitsForWork, [Next]_vars PROVE WaitsForWork'
  OBVIOUS
<1> USE DEF thread, queues, destructor, tasks
<1>1. ASSUME UNCHANGED <<worker, work_queue, quit_received>> PROVE WaitsForWork'
  BY <1>1 DEF WaitsForWork
<1>2. ASSUME worker' \notin {"idle", "wait"} PROVE WaitsForWork'
  BY <1>2 DEF WaitsForWork
<1>3. CASE StartReturns \/ StopSoon \/ Stop \/ UNCHANGED vars
  BY <1>1, <1>3 DEF StartReturns, StopSoon, Stop, vars
<1>4. ASSUME NEW t \in Task, NEW f \in Form,
             \/ OwnerPosts(t, f) \/ WorkerPosts(t, f)
             \/ \E th \in Poster, l \in Loop : PostTaskHelper(th, t, f, l)
      PROVE  WaitsForWork'
  BY <1>1, <1>4 DEF OwnerPosts, WorkerPosts, PostTaskHelper
<1>5. ASSUME NEW th \in Poster \union {Owner}, AddToIncomingQueue(th) PROVE WaitsForWork'
  BY <1>1, <1>5 DEF AddToIncomingQueue
<1>6. CASE \/ Start \/ Join \/ ConstructLoop \/ SignalStartup \/ ReloadWorkQueue
           \/ TaskReturns \/ NoDelayedWork \/ RunReturns \/ PumpWakes \/ CleanUpReturns
           \/ ReloadToDelete \/ EndRound \/ Detach \/ DestroyMembers
           \/ \E t \in Task : DoDelayedWork(t)
  BY <1>2, <1>6 DEF Start, Join, ConstructLoop, SignalStartup, ReloadWorkQueue,
        TaskReturns, NoDelayedWork, RunReturns, PumpWakes, CleanUpReturns,
        ReloadToDelete, EndRound, Detach, DestroyMembers, DoDelayedWork
<1>7. CASE DoWork \/ DeletePendingTask
  <2>1. worker' \in {"run", "ran", "task", "delete", "reloaded"}
    BY <1>7 DEF DoWork, DeletePendingTask
  <2> QED BY <1>2, <2>1
<1>8. CASE DoWorkDone \/ PumpWaits
  BY <1>8 DEF DoWorkDone, PumpWaits, WaitsForWork
<1> QED BY <1>3, <1>4, <1>5, <1>6, <1>7, <1>8 DEF Next, Client, Owners, Worker

LEMMA WillSignalInductive ==
  TypeOK /\ LifeInv /\ WillSignal /\ [Next]_vars => WillSignal'
<1> SUFFICES ASSUME TypeOK, LifeInv, WillSignal, [Next]_vars PROVE WillSignal'
  OBVIOUS
<1> USE DEF thread, queues, destructor, tasks
<1>1. ASSUME owner' \in {"out", "joining"} PROVE WillSignal'
  BY <1>1 DEF WillSignal
<1>2. CASE Start
  BY <1>2 DEF Start, WillSignal
<1>3. CASE StartReturns \/ Stop \/ Join
  BY <1>1, <1>3 DEF StartReturns, Stop, Join
<1>4. ASSUME UNCHANGED <<owner, startup>>, worker' = worker \/ worker \notin {"created", "init"}
      PROVE  WillSignal'
  BY <1>4 DEF WillSignal
<1>5. CASE StopSoon \/ UNCHANGED vars
  BY <1>4, <1>5 DEF StopSoon, vars
<1>6. ASSUME NEW t \in Task, NEW f \in Form,
             \/ OwnerPosts(t, f) \/ WorkerPosts(t, f)
             \/ \E th \in Poster, l \in Loop : PostTaskHelper(th, t, f, l)
      PROVE  WillSignal'
  BY <1>4, <1>6 DEF OwnerPosts, WorkerPosts, PostTaskHelper
<1>7. ASSUME NEW th \in Poster \union {Owner}, AddToIncomingQueue(th) PROVE WillSignal'
  BY <1>4, <1>7 DEF AddToIncomingQueue
<1>8. CASE ConstructLoop \/ SignalStartup
  BY <1>8 DEF ConstructLoop, SignalStartup, WillSignal
<1>9. CASE \/ ReloadWorkQueue \/ DoWork \/ DoWorkDone \/ PumpWaits
           \/ TaskReturns \/ NoDelayedWork \/ RunReturns \/ PumpWakes \/ CleanUpReturns
           \/ DeletePendingTask \/ ReloadToDelete \/ EndRound \/ Detach \/ DestroyMembers
           \/ \E t \in Task : DoDelayedWork(t)
  <2>1. worker \notin {"created", "init"} /\ UNCHANGED <<owner, startup>>
    BY <1>9 DEF ReloadWorkQueue, DoWork, DoWorkDone, PumpWaits,
        TaskReturns, NoDelayedWork, RunReturns, PumpWakes, CleanUpReturns,
        DeletePendingTask, ReloadToDelete, EndRound, Detach, DestroyMembers, DoDelayedWork
  <2> QED BY <1>4, <2>1
<1> QED BY <1>2, <1>3, <1>5, <1>6, <1>7, <1>8, <1>9 DEF Next, Client, Owners, Worker

\* Start and Stop never wait for nothing: while the owner waits for the startup
\* event or joins the thread, a post of its own is on its way, or what it waits
\* for has come, or the worker can go on: it sleeps in its pump only as long as
\* the ThreadQuitTask is being posted, and it waits for the lock of its loop's
\* proxy only as long as another thread posts.
THEOREM OwnerNeverStuck == Spec => []OwnerIsAwaited
<1>1. Init => WaitInv
  BY DEF Init, WaitInv, QuitIsComing, WaitsForWork, WillSignal
<1>2. TypeOK /\ LifeInv /\ WaitInv /\ [Next]_vars => WaitInv'
  BY QuitComingInductive, WaitsForWorkInductive, WillSignalInductive DEF WaitInv
<1>3. TypeOK /\ LifeInv /\ WaitInv => OwnerIsAwaited
  <2> SUFFICES ASSUME TypeOK, LifeInv, WaitInv, owner # "out", posting[Owner] = Idle,
                      ~(owner = "starting" /\ startup),
                      ~(owner = "joining" /\ worker = "exited"),
                      ~(\E th \in Poster : posting[th] # Idle /\ posting[th].loop = loops)
               PROVE  WorkerCanStep
    BY DEF OwnerIsAwaited
  <2>1. ~Locked(loops)
    BY DEF Locked
  <2>2. CASE owner = "starting"
    <3>1. worker \in {"created", "init"}
      BY <2>2 DEF WaitInv, WillSignal
    <3> QED BY <3>1 DEF WorkerCanStep
  <2>3. CASE owner = "joining"
    <3>1. worker \notin {"none", "exited"} /\ stopping
      BY <2>3 DEF LifeInv, OwnerKnows
    <3>2. ASSUME worker = "wait" PROVE incoming_queue # <<>>
      <4>1. QuitQueued /\ work_queue = <<>>
        BY <3>1, <3>2 DEF WaitInv, QuitIsComing, WaitsForWork
      <4> QED BY <4>1, EmptyQueue DEF QuitQueued
    <3> QED BY <2>1, <3>1, <3>2 DEF WorkerCanStep
  <2> QED BY <2>2, <2>3 DEF TypeOK
<1> QED BY <1>1, <1>2, <1>3, LifeInvariance, PTL DEF Spec

=============================================================================
