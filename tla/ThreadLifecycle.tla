--------------------------- MODULE ThreadLifecycle ---------------------------
(***************************************************************************)
(* base::Thread (src/base/threading/thread.cpp): an owner starts and stops *)
(* a worker thread that lives in a MessageLoop, which is created, run and  *)
(* destroyed there (src/base/message_loop.cpp). Other threads post to it   *)
(* through its MessageLoopProxyImpl (src/base/message_loop_proxy_impl.cpp) *)
(* at any time, also while the loop is being destroyed and after.          *)
(*                                                                         *)
(* Running the loop is reduced to taking tasks from the incoming queue in  *)
(* order; MessageLoop has the details. Delayed tasks run at any time.      *)
(***************************************************************************)
EXTENDS Naturals, Sequences, Functions

CONSTANTS
  Task,       \* the tasks that are ever posted
  Poster,     \* threads that post through the proxies
  Owner,      \* the thread that starts and stops the Thread
  QuitTask,   \* the ThreadQuitTask
  MaxStarts,  \* bound: how often the Thread is started
  Rounds      \* how often ~MessageLoop empties its queues; 100 in the code

ASSUME ThreadAssumption ==
  /\ Owner \notin Poster
  /\ QuitTask \notin Task
  /\ MaxStarts \in Nat
  /\ Rounds \in Nat \ {0}

VARIABLES
  \* base::Thread
  started, stopping,
  message_loop,  \* the loop the pointer designates, or NULL
  startup,       \* the event of the StartupData
  owner,         \* where the owner is
  worker,        \* where the worker thread is
  \* the MessageLoops, numbered by the starts they belong to
  loops,         \* how many were constructed
  alive,         \* the loops that exist
  target,        \* the loops whose proxies have a target_message_loop_
  incoming_queue, work_queue, delayed_work_queue,  \* of the last loop
  quit_received,
  did_work,      \* of ~MessageLoop
  round,         \* of ~MessageLoop
  \* the posts
  posting,       \* the post each thread is in
  form,          \* how each task was posted
  fate,          \* what became of it
  \* history
  before_quit    \* tasks without delay that waited when ThreadQuitTask ran

thread == <<started, stopping, message_loop, startup, owner>>
queues == <<incoming_queue, work_queue, delayed_work_queue>>
destructor == <<did_work, round>>
tasks == <<posting, form, fate, before_quit>>
vars == <<thread, worker, loops, alive, target, queues, quit_received,
          destructor, tasks>>

NULL == 0
Loop == 1..MaxStarts

\* A Task* or a Closure, with or without a delay.
Form == [type : {"task", "closure"}, delayed : BOOLEAN]
QuitForm == [type |-> "task", delayed |-> FALSE]
AnyTask == Task \union {QuitTask}

\* "push": a thread is in AddToIncomingQueue of a loop; a poster holds the
\* message_loop_lock_ of the loop's proxy meanwhile.
Idle == [pc |-> "idle"]
Posting == {Idle} \union [pc : {"push"}, task : AnyTask, loop : Loop]
Locked(l) == \E th \in Poster : posting[th] # Idle /\ posting[th].loop = l

Init ==
  /\ started = FALSE /\ stopping = FALSE
  /\ message_loop = NULL
  /\ startup = FALSE
  /\ owner = "out"
  /\ worker = "none"
  /\ loops = 0
  /\ alive = {} /\ target = {}
  /\ incoming_queue = <<>> /\ work_queue = <<>> /\ delayed_work_queue = {}
  /\ quit_received = FALSE
  /\ did_work = FALSE /\ round = 1
  /\ posting = [th \in Poster \union {Owner} |-> Idle]
  /\ form = [t \in AnyTask |-> QuitForm]
  /\ fate = [t \in AnyTask |-> "unposted"]
  /\ before_quit = {}

-----------------------------------------------------------------------------
(* The owner *)

OwnerFree == owner = "out" /\ posting[Owner] = Idle

\* A started Thread is stopped before it is started again.
Start ==
  /\ OwnerFree
  /\ ~started
  /\ loops < MaxStarts
  /\ owner' = "starting"
  /\ startup' = FALSE
  /\ worker' = "created"
  /\ UNCHANGED <<started, stopping, message_loop, loops, alive, target, queues,
                 quit_received, destructor, tasks>>

StartReturns ==
  /\ owner = "starting"
  /\ startup
  /\ startup' = FALSE
  /\ started' = TRUE
  /\ owner' = "out"
  /\ UNCHANGED <<stopping, message_loop, worker, loops, alive, target, queues,
                 quit_received, destructor, tasks>>

\* Mutants: one of the two conditions is not looked at.
QuitAgain == message_loop # NULL
MustQuit == ~stopping /\ message_loop # NULL

PostQuitTask ==
  /\ stopping' = TRUE
  /\ posting' = [posting EXCEPT ![Owner] =
       [pc |-> "push", task |-> QuitTask, loop |-> message_loop]]

StopSoon ==
  /\ OwnerFree
  /\ MustQuit
  /\ PostQuitTask
  /\ UNCHANGED <<started, message_loop, startup, owner, worker, loops, alive,
                 target, queues, quit_received, destructor, form, fate,
                 before_quit>>

\* StopSoon, then Join.
Stop ==
  /\ OwnerFree
  /\ started
  /\ owner' = "joining"
  /\ IF MustQuit THEN PostQuitTask ELSE UNCHANGED <<stopping, posting>>
  /\ UNCHANGED <<started, message_loop, startup, worker, loops, alive, target,
                 queues, quit_received, destructor, form, fate, before_quit>>

\* Mutant: stopping_ stays set.
JoinKeepsStopping ==
  /\ owner = "joining" /\ posting[Owner] = Idle
  /\ worker = "exited"
  /\ started' = FALSE
  /\ owner' = "out"
  /\ worker' = "none"
  /\ UNCHANGED <<stopping, message_loop, startup, loops, alive, target, queues,
                 quit_received, destructor, tasks>>

Join ==
  /\ owner = "joining" /\ posting[Owner] = Idle
  /\ worker = "exited"
  /\ started' = FALSE /\ stopping' = FALSE
  /\ owner' = "out"
  /\ worker' = "none"
  /\ UNCHANGED <<message_loop, startup, loops, alive, target, queues,
                 quit_received, destructor, tasks>>

-----------------------------------------------------------------------------
(* Posting *)

\* The owner posts through Thread::message_loop() until it stops the thread.
OwnerPosts(t, f) ==
  /\ OwnerFree
  /\ started /\ ~stopping
  /\ fate[t] = "unposted"
  /\ form' = [form EXCEPT ![t] = f]
  /\ fate' = [fate EXCEPT ![t] = "posting"]
  /\ posting' = [posting EXCEPT ![Owner] =
       [pc |-> "push", task |-> t, loop |-> message_loop]]
  /\ UNCHANGED <<thread, worker, loops, alive, target, queues, quit_received,
                 destructor, before_quit>>

\* PostTaskHelper takes the lock and finds target_message_loop_; or it finds
\* none, deletes a Task* and leaves a Closure to the caller.
PostTaskHelper(th, t, f, l) ==
  /\ posting[th] = Idle
  /\ fate[t] = "unposted"
  /\ l <= loops
  /\ ~Locked(l)
  /\ form' = [form EXCEPT ![t] = f]
  /\ \/ /\ l \in target
        /\ fate' = [fate EXCEPT ![t] = "posting"]
        /\ posting' = [posting EXCEPT ![th] =
             [pc |-> "push", task |-> t, loop |-> l]]
     \/ /\ l \notin target
        /\ fate' = [fate EXCEPT ![t] = IF f.type = "task" THEN "deleted" ELSE "refused"]
        /\ UNCHANGED posting
  /\ UNCHANGED <<thread, worker, loops, alive, target, queues, quit_received,
                 destructor, before_quit>>

Queued(t) == incoming_queue' = Append(incoming_queue, t)

\* The push and the release of the locks.
AddToIncomingQueue(th) ==
  /\ posting[th] # Idle
  /\ Queued(posting[th].task)
  /\ fate' = [fate EXCEPT ![posting[th].task] = "queued"]
  /\ posting' = [posting EXCEPT ![th] = Idle]
  /\ UNCHANGED <<thread, worker, loops, alive, target, work_queue,
                 delayed_work_queue, quit_received, destructor, form, before_quit>>

\* Client code on the worker: Init, a task, CleanUp, a DestructionObserver.
InClientCode == worker \in {"init", "task", "delayed task", "cleanup", "detach"}

WorkerPosts(t, f) ==
  /\ InClientCode
  /\ fate[t] = "unposted"
  /\ form' = [form EXCEPT ![t] = f]
  /\ fate' = [fate EXCEPT ![t] = "queued"]
  /\ Queued(t)
  /\ UNCHANGED <<thread, worker, loops, alive, target, work_queue,
                 delayed_work_queue, quit_received, destructor, posting,
                 before_quit>>

-----------------------------------------------------------------------------
(* ThreadMain *)

\* The MessageLoop and its proxy are constructed, then message_loop_ is set.
ConstructLoop ==
  /\ worker = "created"
  /\ loops' = loops + 1
  /\ alive' = alive \union {loops'}
  /\ target' = target \union {loops'}
  /\ message_loop' = loops'
  /\ quit_received' = FALSE
  /\ before_quit' = {}
  /\ worker' = "init"
  /\ UNCHANGED <<started, stopping, startup, owner, queues, destructor,
                 posting, form, fate>>

\* After Init the worker signals the owner and runs the loop.
SignalStartup ==
  /\ worker = "init"
  /\ startup' = TRUE
  /\ worker' = "run"
  /\ UNCHANGED <<started, stopping, message_loop, owner, loops, alive, target,
                 queues, quit_received, destructor, tasks>>

ReloadWorkQueue ==
  /\ worker = "run"
  /\ work_queue = <<>> /\ incoming_queue # <<>>
  /\ work_queue' = incoming_queue
  /\ incoming_queue' = <<>>
  /\ UNCHANGED <<thread, worker, loops, alive, target, delayed_work_queue,
                 quit_received, destructor, tasks>>

\* Run the next task; ThreadQuitTask calls Quit.
DoWork ==
  /\ worker = "run"
  /\ work_queue # <<>>
  /\ work_queue' = Tail(work_queue)
  /\ LET t == Head(work_queue)
     IN  \/ /\ form[t].delayed
            /\ delayed_work_queue' = delayed_work_queue \union {t}
            /\ UNCHANGED <<worker, fate, quit_received, before_quit>>
         \/ /\ ~form[t].delayed
            /\ fate' = [fate EXCEPT ![t] = "ran"]
            /\ IF t = QuitTask
               THEN /\ quit_received' = TRUE
                    /\ before_quit' = {u \in Task : fate[u] = "queued" /\ ~form[u].delayed}
                    /\ worker' = "ran"
               ELSE /\ worker' = "task"
                    /\ UNCHANGED <<quit_received, before_quit>>
            /\ UNCHANGED delayed_work_queue
  /\ UNCHANGED <<thread, loops, alive, target, incoming_queue, destructor,
                 posting, form>>

\* After a task of DoWork comes DoDelayedWork, after one of DoDelayedWork
\* comes DoWork.
TaskReturns ==
  /\ \/ worker = "task" /\ worker' = "ran"
     \/ worker = "delayed task" /\ worker' = "run"
  /\ UNCHANGED <<thread, loops, alive, target, queues, quit_received,
                 destructor, tasks>>

\* DoWork found nothing: after DoDelayedWork comes DoIdleWork.
DoWorkDone ==
  /\ worker = "run"
  /\ work_queue = <<>> /\ incoming_queue = <<>>
  /\ worker' = "idle"
  /\ UNCHANGED <<thread, loops, alive, target, queues, quit_received,
                 destructor, tasks>>

DoDelayedWork(t) ==
  /\ worker \in {"ran", "idle"}
  /\ t \in delayed_work_queue
  /\ delayed_work_queue' = delayed_work_queue \ {t}
  /\ fate' = [fate EXCEPT ![t] = "ran"]
  /\ worker' = "delayed task"
  /\ UNCHANGED <<thread, loops, alive, target, incoming_queue, work_queue,
                 quit_received, destructor, posting, form, before_quit>>

NoDelayedWork ==
  /\ worker = "ran"
  /\ worker' = "run"
  /\ UNCHANGED <<thread, loops, alive, target, queues, quit_received,
                 destructor, tasks>>

\* Mutant: the pump leaves as soon as Quit was called.
QuitsAtOnce ==
  /\ worker \in {"run", "ran", "idle"}
  /\ quit_received
  /\ worker' = "cleanup"
  /\ UNCHANGED <<thread, loops, alive, target, queues, quit_received,
                 destructor, tasks>>

\* DoIdleWork: quit_received makes the pump return.
RunReturns ==
  /\ worker = "idle"
  /\ quit_received
  /\ worker' = "cleanup"
  /\ UNCHANGED <<thread, loops, alive, target, queues, quit_received,
                 destructor, tasks>>

PumpWaits ==
  /\ worker = "idle"
  /\ ~quit_received
  /\ worker' = "wait"
  /\ UNCHANGED <<thread, loops, alive, target, queues, quit_received,
                 destructor, tasks>>

\* For a post, or for a delayed task.
PumpWakes ==
  /\ worker = "wait"
  /\ incoming_queue # <<>> \/ delayed_work_queue # {}
  /\ worker' = "run"
  /\ UNCHANGED <<thread, loops, alive, target, queues, quit_received,
                 destructor, tasks>>

\* Mutant: message_loop_ keeps designating the loop.
KeepsPointer ==
  /\ worker = "cleanup"
  /\ worker' = "delete"
  /\ round' = 1 /\ did_work' = FALSE
  /\ UNCHANGED <<thread, loops, alive, target, queues, quit_received, tasks>>

\* CleanUp() returned: message_loop_ = NULL, then ~MessageLoop begins.
CleanUpReturns ==
  /\ worker = "cleanup"
  /\ message_loop' = NULL
  /\ worker' = "delete"
  /\ round' = 1 /\ did_work' = FALSE
  /\ UNCHANGED <<started, stopping, startup, owner, loops, alive, target,
                 queues, quit_received, tasks>>

-----------------------------------------------------------------------------
(* ~MessageLoop *)

\* should_leak_tasks_ is FALSE only while delayed_work_queue_ is emptied.
Discarded(t, leak) ==
  IF form[t].type = "task" /\ leak THEN "leaked" ELSE "deleted"

\* Deleting a task may post another one to the loop.
MayRepost(t, discarded) ==
  \/ fate' = [fate EXCEPT ![t] = discarded] /\ UNCHANGED <<form, incoming_queue>>
  \/ \E next \in Task, f \in Form :
       /\ discarded = "deleted"
       /\ fate[next] = "unposted"
       /\ form' = [form EXCEPT ![next] = f]
       /\ fate' = [fate EXCEPT ![t] = discarded, ![next] = "queued"]
       /\ Queued(next)

\* DeletePendingTasks: the work queue, its delayed tasks put off, then those.
DeletePendingTask ==
  /\ worker \in {"delete", "reloaded"}
  /\ did_work' = TRUE
  /\ \/ /\ work_queue # <<>>
        /\ work_queue' = Tail(work_queue)
        /\ LET t == Head(work_queue)
           IN  IF form[t].delayed
               THEN /\ delayed_work_queue' = delayed_work_queue \union {t}
                    /\ UNCHANGED <<form, fate, incoming_queue>>
               ELSE /\ MayRepost(t, Discarded(t, TRUE))
                    /\ UNCHANGED delayed_work_queue
     \/ /\ work_queue = <<>>
        /\ \E t \in delayed_work_queue :
             /\ delayed_work_queue' = delayed_work_queue \ {t}
             /\ MayRepost(t, Discarded(t, FALSE))
        /\ UNCHANGED work_queue
  /\ UNCHANGED <<thread, worker, loops, alive, target, quit_received, round,
                 posting, before_quit>>

QueuesEmpty == work_queue = <<>> /\ delayed_work_queue = {}

\* Between the two DeletePendingTasks of a round.
ReloadToDelete ==
  /\ worker = "delete"
  /\ QueuesEmpty
  /\ work_queue' = incoming_queue
  /\ incoming_queue' = <<>>
  /\ did_work' = FALSE
  /\ worker' = "reloaded"
  /\ UNCHANGED <<thread, loops, alive, target, delayed_work_queue,
                 quit_received, round, tasks>>

\* Mutant: one round is enough.
StopsAfterARound ==
  /\ worker = "reloaded"
  /\ QueuesEmpty
  /\ worker' = "detach"
  /\ UNCHANGED <<thread, loops, alive, target, queues, quit_received,
                 destructor, tasks>>

EndRound ==
  /\ worker = "reloaded"
  /\ QueuesEmpty
  /\ \/ /\ did_work /\ round < Rounds
        /\ worker' = "delete"
        /\ round' = round + 1
     \/ /\ ~did_work \/ round = Rounds
        /\ worker' = "detach"
        /\ UNCHANGED round
  /\ UNCHANGED <<thread, loops, alive, target, queues, quit_received, did_work,
                 tasks>>

\* Mutant: the proxy's lock is not taken.
DetachAnyway ==
  /\ worker = "detach"
  /\ target' = target \ {loops}
  /\ worker' = "detached"
  /\ UNCHANGED <<thread, loops, alive, queues, quit_received, destructor, tasks>>

\* WillDestroyCurrentMessageLoop
Detach ==
  /\ worker = "detach"
  /\ ~Locked(loops)
  /\ target' = target \ {loops}
  /\ worker' = "detached"
  /\ UNCHANGED <<thread, loops, alive, queues, quit_received, destructor, tasks>>

\* Mutant: what is left in the queue is forgotten.
ForgetsIncoming ==
  /\ worker = "detached"
  /\ alive' = alive \ {loops}
  /\ incoming_queue' = <<>>
  /\ worker' = "exited"
  /\ UNCHANGED <<thread, loops, target, work_queue, delayed_work_queue,
                 quit_received, destructor, tasks>>

\* The members go, incoming_queue_ with whatever other threads posted since
\* the last round, and the thread ends.
DestroyMembers ==
  /\ worker = "detached"
  /\ alive' = alive \ {loops}
  /\ fate' = [t \in AnyTask |-> IF t \in Range(incoming_queue)
                                THEN Discarded(t, TRUE) ELSE fate[t]]
  /\ incoming_queue' = <<>>
  /\ worker' = "exited"
  /\ UNCHANGED <<thread, loops, target, work_queue, delayed_work_queue,
                 quit_received, destructor, posting, form, before_quit>>

-----------------------------------------------------------------------------
Client ==
  \/ Start \/ StopSoon \/ Stop
  \/ \E t \in Task, f \in Form :
       \/ OwnerPosts(t, f)
       \/ \E th \in Poster, l \in Loop : PostTaskHelper(th, t, f, l)
       \/ WorkerPosts(t, f)

Owners == StartReturns \/ Join

Worker ==
  \/ ConstructLoop \/ SignalStartup
  \/ ReloadWorkQueue \/ DoWork \/ TaskReturns \/ DoWorkDone
  \/ (\E t \in Task : DoDelayedWork(t)) \/ NoDelayedWork
  \/ RunReturns \/ PumpWaits \/ PumpWakes
  \/ CleanUpReturns
  \/ DeletePendingTask \/ ReloadToDelete \/ EndRound
  \/ Detach \/ DestroyMembers

Next ==
  \/ Client
  \/ Owners
  \/ Worker
  \/ \E th \in Poster \union {Owner} : AddToIncomingQueue(th)

Spec == Init /\ [][Next]_vars

\* The scheduler runs every thread; tasks end.
FairSpec ==
  /\ Spec
  /\ WF_vars(Owners)
  /\ WF_vars(Worker)
  /\ \A th \in Poster \union {Owner} : WF_vars(AddToIncomingQueue(th))

-----------------------------------------------------------------------------
(* Properties *)

Destroying == {"delete", "reloaded", "detach", "detached", "exited"}
LeftRun == {"cleanup"} \union Destroying
Fate == {"unposted", "posting", "queued", "ran", "deleted", "leaked", "refused"}

TypeOK ==
  /\ started \in BOOLEAN /\ stopping \in BOOLEAN /\ startup \in BOOLEAN
  /\ quit_received \in BOOLEAN /\ did_work \in BOOLEAN
  /\ message_loop \in {NULL} \union Loop
  /\ owner \in {"out", "starting", "joining"}
  /\ worker \in {"none", "created", "init", "run", "task", "delayed task",
                 "ran", "idle", "wait"} \union LeftRun
  /\ loops \in 0..MaxStarts
  /\ alive \subseteq Loop /\ target \subseteq Loop
  /\ incoming_queue \in Seq(AnyTask) /\ work_queue \in Seq(AnyTask)
  /\ delayed_work_queue \subseteq Task
  /\ round \in 1..Rounds
  /\ posting \in [Poster \union {Owner} -> Posting]
  /\ form \in [AnyTask -> Form]
  /\ fate \in [AnyTask -> Fate]
  /\ before_quit \subseteq Task

\* "This class can outlive the target message loop": no thread is inside
\* AddToIncomingQueue of a loop that is gone. Posters are kept out by the
\* proxy's lock and target_message_loop_, the owner by stopping_, which it
\* reads before message_loop_.
LoopOutlivesPosts ==
  \A th \in Poster \union {Owner} :
    posting[th] # Idle => posting[th].loop \in alive /\ posting[th].loop = loops

\* Stop drains: whatever waited without delay when the ThreadQuitTask ran, in
\* front of it or behind, has run when the worker leaves the loop.
QuitComesLast == worker \in LeftRun => \A t \in before_quit : fate[t] = "ran"

\* A task a loop accepted is in its queues until it ran or was discarded; none
\* outlives the loop, however late it came in through the proxy.
TasksSettled ==
  /\ \A t \in AnyTask :
       fate[t] = "queued" <=>
         t \in Range(incoming_queue) \union Range(work_queue) \union delayed_work_queue
  /\ worker \in {"none", "exited"} => \A t \in AnyTask : fate[t] # "queued"

\* DCHECK(!did_work) of ~MessageLoop: the rounds end because there was nothing
\* left to delete, whatever the deleted tasks and other threads post meanwhile.
DestructorDrains == worker \in {"detach", "detached"} => ~did_work

\* The DCHECKs of StartWithOptions and Stop on message_loop_, and the state a
\* stopped Thread can be started in again.
OwnerSeesThread ==
  /\ owner = "out" /\ ~started =>
       message_loop = NULL /\ ~stopping /\ worker = "none"
  /\ owner = "starting" /\ startup => message_loop # NULL
  /\ owner = "joining" /\ worker = "exited" => message_loop = NULL

\* Stop returns, in every run of the thread.
StopReturns == owner = "joining" ~> owner = "out"

=============================================================================
