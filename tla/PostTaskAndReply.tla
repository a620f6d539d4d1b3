--------------------------- MODULE PostTaskAndReply ---------------------------
(***************************************************************************)
(* MessageLoopProxy::PostTaskAndReply (src/base/message_loop_proxy.cpp)    *)
(* between threads with a message loop each. The relay is an object that   *)
(* nobody owns: the target's loop runs its task, posts it back to the loop *)
(* it came from, and there the reply is run and the relay deletes itself,  *)
(* maybe while the target thread is still inside the post. Loops are       *)
(* destroyed at any time and drop what is in their queues.                 *)
(***************************************************************************)
EXTENDS Naturals, Sequences

CONSTANTS
  Loop,           \* the loops; a loop's name is also its thread's
  Relay,
  NULL

ASSUME RelayAssumption == NULL \notin Loop

VARIABLES
  life,           \* of each loop: "running", "deleting", "detached", "gone"
  lock,           \* of each loop's proxy: the thread that holds message_loop_lock_
  queue,          \* of each loop
  stack,          \* of each thread: the relays it is busy with, innermost first
  origin,         \* of each relay: where it was made; NULL before that
  target,
  released        \* of each relay: the thread that deleted it

vars == <<life, lock, queue, stack, origin, target, released>>

Pending == [relay : Relay, reply : BOOLEAN]

Frame == [relay : Relay, at : {"task", "posting", "reply"}]

Init ==
  /\ life = [l \in Loop |-> "running"]
  /\ lock = [l \in Loop |-> NULL]
  /\ queue = [l \in Loop |-> <<>>]
  /\ stack = [l \in Loop |-> <<>>]
  /\ origin = [r \in Relay |-> NULL]
  /\ target = [r \in Relay |-> NULL]
  /\ released = [r \in Relay |-> NULL]

\* target_message_loop_ of the proxy is set.
Attached(l) == life[l] \in {"running", "deleting"}

\* Thread t is in client code: of the loop's owner, a task, a reply, or the
\* destructor of something its loop deletes.
InClientCode(t) ==
  /\ Attached(t)
  /\ stack[t] # <<>> => Head(stack[t]).at \in {"task", "reply"}

Live(r) == origin[r] # NULL /\ released[r] = NULL

\* Mutant: a proxy whose loop has gone queues the relay and refuses it.
QueuesAndRefuses(l, r, reply) ==
  queue' = [queue EXCEPT ![l] = Append(@, [relay |-> r, reply |-> reply])]

\* PostTaskHelper, under the lock: the queue takes what the proxy still accepts.
Push(l, r, reply) ==
  queue' = IF Attached(l)
           THEN [queue EXCEPT ![l] = Append(@, [relay |-> r, reply |-> reply])]
           ELSE queue

-----------------------------------------------------------------------------

\* The client's thread t; a relay the proxy of l refuses is deleted right here.
PostTaskAndReply(t, l, r) ==
  /\ InClientCode(t)
  /\ origin[r] = NULL
  /\ lock[l] = NULL
  /\ Push(l, r, FALSE)
  /\ origin' = [origin EXCEPT ![r] = t]
  /\ target' = [target EXCEPT ![r] = l]
  /\ released' = [released EXCEPT ![r] = IF Attached(l) THEN NULL ELSE t]
  /\ UNCHANGED <<life, lock, stack>>

\* The loop, maybe nested in a task or reply, takes what is first in its queue.
RunTask(t) ==
  /\ life[t] = "running"
  /\ InClientCode(t)
  /\ queue[t] # <<>>
  /\ LET first == Head(queue[t]) IN
       stack' = [stack EXCEPT ![t] =
         <<[relay |-> first.relay, at |-> IF first.reply THEN "reply" ELSE "task"]>> \o @]
  /\ queue' = [queue EXCEPT ![t] = Tail(@)]
  /\ UNCHANGED <<life, lock, origin, target, released>>

At(t, where) == stack[t] # <<>> /\ Head(stack[t]).at = where

\* Mutant: the relay is posted to the loop that ran its task.
HereAgain(r) == target[r]

\* Where Run posts the reply: origin_loop_.
ReplyTo(r) == origin[r]

\* task_.Run() returns in Run; the relay is posted back. From here on another
\* thread may delete it.
PostReply(t) ==
  /\ At(t, "task")
  /\ LET r == Head(stack[t]).relay IN
       /\ lock[ReplyTo(r)] = NULL
       /\ lock' = [lock EXCEPT ![ReplyTo(r)] = t]
       /\ Push(ReplyTo(r), r, TRUE)
  /\ stack' = [stack EXCEPT ![t][1].at = "posting"]
  /\ UNCHANGED <<life, origin, target, released>>

\* Mutant: the lock is not released.
KeepsLock(t) ==
  /\ At(t, "posting")
  /\ stack' = [stack EXCEPT ![t] = Tail(@)]
  /\ UNCHANGED <<life, lock, queue, origin, target, released>>

\* PostTaskHelper leaves the lock of a proxy it reached through the relay.
PostReturns(t) ==
  /\ At(t, "posting")
  /\ lock' = [lock EXCEPT ![ReplyTo(Head(stack[t]).relay)] = NULL]
  /\ stack' = [stack EXCEPT ![t] = Tail(@)]
  /\ UNCHANGED <<life, queue, origin, target, released>>

\* Mutant: the relay does not delete itself.
NeverReleased(t) ==
  /\ At(t, "reply")
  /\ stack' = [stack EXCEPT ![t] = Tail(@)]
  /\ UNCHANGED <<life, lock, queue, origin, target, released>>

\* reply_.Run() returns in RunReplyAndSelfDestruct. ~PostTaskAndReplyRelay asks
\* the proxy, under its lock, whether it is on the right thread.
SelfDestruct(t) ==
  /\ At(t, "reply")
  /\ lock[origin[Head(stack[t]).relay]] = NULL
  /\ released' = [released EXCEPT ![Head(stack[t]).relay] = t]
  /\ stack' = [stack EXCEPT ![t] = Tail(@)]
  /\ UNCHANGED <<life, lock, queue, origin, target>>

-----------------------------------------------------------------------------
(* ~MessageLoop. A closure that holds a relay does not own it (Unretained). *)

DeletePendingTasks(l) ==
  /\ life[l] = "running" /\ stack[l] = <<>>
  /\ life' = [life EXCEPT ![l] = "deleting"]
  /\ queue' = [queue EXCEPT ![l] = <<>>]
  /\ UNCHANGED <<lock, stack, origin, target, released>>

\* Mutant: target_message_loop_ is reset without the lock.
DetachUnlocked(l) ==
  /\ life[l] = "deleting"
  /\ life' = [life EXCEPT ![l] = "detached"]
  /\ UNCHANGED <<lock, queue, stack, origin, target, released>>

\* WillDestroyCurrentMessageLoop; the loop then drops its reference to the proxy.
WillDestroyCurrentMessageLoop(l) ==
  /\ life[l] = "deleting"
  /\ lock[l] = NULL
  /\ life' = [life EXCEPT ![l] = "detached"]
  /\ UNCHANGED <<lock, queue, stack, origin, target, released>>

DestroyMembers(l) ==
  /\ life[l] = "detached"
  /\ life' = [life EXCEPT ![l] = "gone"]
  /\ queue' = [queue EXCEPT ![l] = <<>>]
  /\ UNCHANGED <<lock, stack, origin, target, released>>

Step(t) ==
  \/ RunTask(t) \/ PostReply(t) \/ PostReturns(t) \/ SelfDestruct(t)
  \/ WillDestroyCurrentMessageLoop(t) \/ DestroyMembers(t)

Next ==
  \E t \in Loop :
    \/ Step(t)
    \/ DeletePendingTasks(t)
    \/ \E l \in Loop, r \in Relay : PostTaskAndReply(t, l, r)

Spec == Init /\ [][Next]_vars

\* Threads are scheduled, tasks and replies return.
FairSpec == Spec /\ \A t \in Loop : WF_vars(Step(t))

-----------------------------------------------------------------------------
(* Properties *)

TypeOK ==
  /\ life \in [Loop -> {"running", "deleting", "detached", "gone"}]
  /\ lock \in [Loop -> Loop \union {NULL}]
  /\ queue \in [Loop -> Seq(Pending)]
  /\ stack \in [Loop -> Seq(Frame)]
  /\ origin \in [Relay -> Loop \union {NULL}]
  /\ target \in [Relay -> Loop \union {NULL}]
  /\ released \in [Relay -> Loop \union {NULL}]

\* Where a relay will be touched again: queued for some loop, or in a task or
\* a reply on some thread. A thread that only waits for its post to return is
\* not among them.
Places(r) ==
  (UNION {{<<"queue", l, i>> : i \in {j \in DOMAIN queue[l] : queue[l][j].relay = r}} :
            l \in Loop})
  \union
  (UNION {{<<"stack", l, i>> : i \in {j \in DOMAIN stack[l] :
             stack[l][j].relay = r /\ stack[l][j].at # "posting"}} : l \in Loop})

\* A relay that will be touched again is alive and has a single place: no two
\* threads touch it, none does after it deleted itself.
RelayHasOneUser ==
  \A r \in Relay : \A p \in Places(r) : Live(r) /\ \A q \in Places(r) : p = q

\* The relay, with what its closures hold, is deleted on the thread it was made
\* on while that thread's loop is there (the DCHECKs on BelongsToCurrentThread).
ReleasedAtHome ==
  [][\A r \in Relay : released'[r] # released[r] =>
       /\ released'[r] = origin'[r]
       /\ Attached(origin'[r])]_vars

\* Whoever holds the lock of a proxy may rely on the proxy: its loop or a relay
\* that nobody else will delete refers to it.
ProxyOutlivesPost ==
  \A l \in Loop : lock[l] # NULL =>
    \/ Attached(l)
    \/ \E r \in Relay : origin[r] = l /\ Live(r) /\ Places(r) = {}

\* A relay leaks only if the loop it came from or the one it was sent to has
\* begun to go. (A comment in the source names only the first.)
LeakExplained ==
  \A r \in Relay : Live(r) /\ Places(r) = {} =>
    life[origin[r]] # "running" \/ life[target[r]] # "running"

\* Once the task runs, the reply runs and everything is released, unless the
\* originating loop goes.
ReplyRuns ==
  \A r \in Relay :
    (\E t \in Loop : \E i \in DOMAIN stack[t] : stack[t][i] = [relay |-> r, at |-> "task"])
      ~> (released[r] = origin[r] \/ life[origin[r]] # "running")

=============================================================================
