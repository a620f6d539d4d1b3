-------------------------------- MODULE UIPump --------------------------------
(***************************************************************************)
(* The message pump of a MessageLoop of TYPE_UI (MessagePumpForUI in       *)
(* src/base/message_pump_win.cpp) with the part of the loop that it serves *)
(* (src/base/message_loop.cpp). Tasks and window messages may open native  *)
(* modal loops, which know nothing of tasks: there a kMsgHaveWork in the   *)
(* queue of Windows has to bring the thread back to DoWork, and a timer to *)
(* DoDelayedWork. have_work_ is set as long as there is such a message.    *)
(* WaitForWork is empty in this build: DoRunLoop never blocks.             *)
(***************************************************************************)
EXTENDS Naturals, Sequences, SequencesExt

CONSTANTS
  Poster,         \* threads that post to the loop
  MaxPosts,       \* bound: tasks
  MaxInputs,      \* bound: window messages that are not the pump's
  MaxDepth        \* bound: how deeply client code nests loops of either kind

ASSUME PumpAssumption ==
  /\ "queue" \notin Poster /\ "pump" \notin Poster
  /\ MaxPosts \in Nat /\ MaxInputs \in Nat /\ MaxDepth \in Nat

VARIABLES
  have_work_,
  messages,       \* in the queue of Windows: how many kMsgHaveWork,
  inputs,         \* the other messages that are there or will be,
  wm_quit,        \* a WM_QUIT,
  timer,          \* and the timer that SetTimer set
  delayed_work_time_,  \* TRUE if it is not null
  incoming,       \* incoming_queue_ and work_queue_: for each task whether it
  work,           \* is a delayed one
  delayed,        \* the length of delayed_work_queue_
  nestable,       \* nestable_tasks_allowed_
  stack,          \* of the loop's thread: what it is in, innermost first
  posting,        \* of each poster: "idle", "schedule", or "post" (before the
                  \* PostMessage in ScheduleWork)
  posts,
  requested       \* history: ScheduleWork was called, and since then neither
                  \* DoWork nor HandleWorkMessage outside of every run

windows == <<messages, inputs, wm_quit>>
queues == <<incoming, work, delayed, posts>>

vars == <<have_work_, windows, timer, delayed_work_time_, queues, nestable, stack,
          posting, requested>>

Message == {"work", "input", "timer", "quit"}

\* DoRunLoop, with should_quit (or quit_received) and more_work_is_plausible.
RunState == [in : {"run"}, at : {"peek", "work", "delayed", "after", "idle"},
             more : BOOLEAN, quit : {"no", "idle", "now"}]

\* Native modal loops, client code, and the handlers of the pump's window.
Frame ==
  RunState
  \union [in : {"native", "handler", "task", "replacement"}]
  \union [in : {"exchange", "schedule"}, msg : Message \union {"none"}]
  \union [in : {"message"}, at : {"work", "schedule"}]
  \union [in : {"timer"}, at : {"delayed", "arm"}]

Init ==
  /\ have_work_ = FALSE
  /\ messages = 0 /\ inputs = MaxInputs /\ wm_quit = FALSE
  /\ timer = FALSE
  /\ delayed_work_time_ = FALSE
  /\ incoming = <<>> /\ work = <<>> /\ delayed = 0
  /\ nestable = TRUE
  /\ stack = <<>>
  /\ posting = [p \in Poster |-> "idle"]
  /\ posts = 0
  /\ requested = FALSE

In(where) == stack # <<>> /\ Head(stack).in = where

InAt(where, at) == In(where) /\ Head(stack).at = at

InClientCode == stack = <<>> \/ In("handler") \/ In("task")

\* state_ is not NULL.
IsRunning == \E n \in DOMAIN stack : stack[n].in = "run"

\* s with the innermost run told to quit.
Quitting(s, how) ==
  [n \in DOMAIN s |->
     IF s[n].in = "run" /\ \A k \in 1..n - 1 : s[k].in # "run"
     THEN [s[n] EXCEPT !.quit = IF @ = "now" THEN @ ELSE how] ELSE s[n]]

\* The innermost frame goes on to where.
GoTo(where) == stack' = [stack EXCEPT ![1].at = where]

-----------------------------------------------------------------------------
(* Posting *)

\* Mutant: have_work_ is read and set, and a message posted in any case.
AlwaysNeedsMessage == TRUE

\* The old value of have_work_ was 0.
NeedsMessage == ~have_work_

\* ScheduleWork on the loop's own thread, which alone takes messages out.
ScheduleWork ==
  /\ have_work_' = TRUE
  /\ messages' = IF NeedsMessage THEN messages + 1 ELSE messages
  /\ requested' = TRUE

PushIncoming(isDelayed) ==
  /\ posts < MaxPosts
  /\ posts' = posts + 1
  /\ incoming' = Append(incoming, isDelayed)
  /\ UNCHANGED <<work, delayed>>

AddToIncomingQueue(p, isDelayed) ==
  /\ posting[p] = "idle"
  /\ PushIncoming(isDelayed)
  /\ posting' = [posting EXCEPT ![p] = IF incoming = <<>> THEN "schedule" ELSE "idle"]
  /\ UNCHANGED <<have_work_, windows, timer, delayed_work_time_, nestable, stack, requested>>

ExchangeHaveWork(p) ==
  /\ posting[p] = "schedule"
  /\ have_work_' = TRUE
  /\ posting' = [posting EXCEPT ![p] = IF NeedsMessage THEN "post" ELSE "idle"]
  /\ requested' = TRUE
  /\ UNCHANGED <<windows, timer, delayed_work_time_, queues, nestable, stack>>

PostHaveWork(p) ==
  /\ posting[p] = "post"
  /\ posting' = [posting EXCEPT ![p] = "idle"]
  /\ messages' = messages + 1
  /\ UNCHANGED <<have_work_, inputs, wm_quit, timer, delayed_work_time_, queues, nestable,
                 stack, requested>>

-----------------------------------------------------------------------------
(* Client code on the loop's thread *)

PostTask(isDelayed) ==
  /\ InClientCode
  /\ PushIncoming(isDelayed)
  /\ IF incoming = <<>> THEN ScheduleWork ELSE UNCHANGED <<have_work_, messages, requested>>
  /\ UNCHANGED <<inputs, wm_quit, timer, delayed_work_time_, nestable, stack, posting>>

\* Run, or RunAllPending.
Run ==
  /\ InClientCode /\ Len(stack) < MaxDepth
  /\ \E quit \in {"no", "idle"} :
       stack' = <<[in |-> "run", at |-> "peek", more |-> FALSE, quit |-> quit]>> \o stack
  /\ UNCHANGED <<have_work_, windows, timer, delayed_work_time_, queues, nestable, posting,
                 requested>>

\* MessageBox, a menu, the move of a window.
NativeLoop ==
  /\ InClientCode /\ Len(stack) < MaxDepth
  /\ stack' = <<[in |-> "native"]>> \o stack
  /\ UNCHANGED <<have_work_, windows, timer, delayed_work_time_, queues, nestable, posting,
                 requested>>

Quit ==
  /\ InClientCode /\ IsRunning
  /\ \E how \in {"idle", "now"} : stack' = Quitting(stack, how)
  /\ UNCHANGED <<have_work_, windows, timer, delayed_work_time_, queues, nestable, posting,
                 requested>>

PostQuitMessage ==
  /\ InClientCode /\ IsRunning
  /\ wm_quit' = TRUE
  /\ UNCHANGED <<have_work_, messages, inputs, timer, delayed_work_time_, queues, nestable,
                 stack, posting, requested>>

SetNestableTasksAllowed ==
  /\ In("task")
  /\ nestable' = ~nestable
  /\ IF nestable THEN UNCHANGED <<have_work_, messages, requested>> ELSE ScheduleWork
  /\ UNCHANGED <<inputs, wm_quit, timer, delayed_work_time_, queues, stack, posting>>

HandlerReturns ==
  /\ In("handler")
  /\ stack' = Tail(stack)
  /\ UNCHANGED <<have_work_, windows, timer, delayed_work_time_, queues, nestable, posting,
                 requested>>

TaskReturns ==
  /\ In("task")
  /\ nestable' = TRUE
  /\ stack' = Tail(stack)
  /\ UNCHANGED <<have_work_, windows, timer, delayed_work_time_, queues, posting, requested>>

NativeReturns ==
  /\ In("native")
  /\ stack' = Tail(stack)
  /\ UNCHANGED <<have_work_, windows, timer, delayed_work_time_, queues, nestable, posting,
                 requested>>

-----------------------------------------------------------------------------
(* The handlers of the loop *)

Task == <<[in |-> "task"]>>

\* The first n tasks of work_queue_, all delayed, go to the delayed queue.
\* ScheduleDelayedWork is called if one of them is the first to run there.
AddToDelayedWorkQueue(n) ==
  /\ delayed' = delayed + n
  /\ \E first \in BOOLEAN :
       /\ first => n > 0
       /\ n > 0 /\ delayed = 0 => first
       /\ timer' = (timer \/ first)
       /\ delayed_work_time_' = (delayed_work_time_ \/ first)

\* DoWork comes to the end of work_queue_ and takes incoming_queue_.
ReloadWorkQueue ==
  /\ nestable /\ FALSE \notin Range(work) /\ incoming # <<>>
  /\ AddToDelayedWorkQueue(Len(work))
  /\ work' = incoming
  /\ incoming' = <<>>
  /\ requested' = FALSE
  /\ UNCHANGED <<have_work_, windows, posts, nestable, stack, posting>>

\* DoWork refuses, runs out of tasks, or runs the first one that is not delayed.
\* The frames that remain below the task are rest, those without a task none.
DoWork(rest, none) ==
  \/ ReloadWorkQueue
  \/ /\ requested' = FALSE
     /\ \/ /\ ~nestable
           /\ stack' = none
           /\ UNCHANGED <<timer, delayed_work_time_, queues, nestable>>
        \/ /\ nestable /\ FALSE \notin Range(work) /\ incoming = <<>>
           /\ AddToDelayedWorkQueue(Len(work))
           /\ work' = <<>>
           /\ stack' = none
           /\ UNCHANGED <<incoming, posts, nestable>>
        \/ \E n \in DOMAIN work :
             /\ nestable /\ ~work[n] /\ \A k \in 1..n - 1 : work[k]
             /\ AddToDelayedWorkQueue(n - 1)
             /\ work' = SubSeq(work, n + 1, Len(work))
             /\ stack' = Task \o rest
             /\ nestable' = FALSE
             /\ UNCHANGED <<incoming, posts>>
     /\ UNCHANGED <<have_work_, windows, posting>>

\* DoDelayedWork: the first delayed task runs, if its time has come.
DoDelayedWork(rest) ==
  /\ \/ /\ ~nestable \/ delayed = 0
        /\ delayed_work_time_' = FALSE
        /\ stack' = rest
        /\ UNCHANGED <<delayed, nestable>>
     \/ /\ nestable /\ delayed > 0
        /\ delayed_work_time_' = TRUE
        /\ stack' = rest
        /\ UNCHANGED <<delayed, nestable>>
     \/ /\ nestable /\ delayed > 0
        /\ delayed' = delayed - 1
        /\ delayed_work_time_' = (delayed_work_time_ \/ delayed > 1)
        /\ stack' = Task \o rest
        /\ nestable' = FALSE
  /\ UNCHANGED <<have_work_, windows, timer, incoming, work, posts, posting, requested>>

-----------------------------------------------------------------------------
(* Window messages *)

\* What PeekMessage may return: posted messages come before the others.
Peekable ==
  {m \in Message \union {"none"} :
     CASE m = "work" -> messages > 0
       [] m = "input" -> inputs > 0
       [] m = "quit" -> messages = 0 /\ wm_quit
       [] m = "timer" -> messages = 0 /\ timer
       [] m = "none" -> messages = 0 /\ ~wm_quit}

PeekMessage(m) ==
  /\ m \in Peekable
  /\ messages' = IF m = "work" THEN messages - 1 ELSE messages
  /\ inputs' = IF m = "input" THEN inputs - 1 ELSE inputs
  /\ UNCHANGED wm_quit

\* ProcessMessageHelper. A WM_QUIT is posted again. HandleTimerMessage kills the
\* timer, and returns if there is no run.
ProcessMessage(m, rest) ==
  /\ timer' = (timer /\ m # "timer")
  /\ stack' =
       CASE m = "none" -> rest
         [] m = "work" -> <<[in |-> "replacement"]>> \o rest
         [] m = "input" -> <<[in |-> "handler"]>> \o rest
         [] m = "quit" -> Quitting(rest, "now")
         [] m = "timer" -> IF IsRunning THEN <<[in |-> "timer", at |-> "delayed"]>> \o rest
                           ELSE rest

\* A native loop dispatches a message. (It ends at a WM_QUIT.) For a kMsgHaveWork
\* that is HandleWorkMessage.
DispatchMessage ==
  /\ In("native")
  /\ \E m \in Peekable \ {"none", "quit"} :
       /\ PeekMessage(m)
       /\ IF m # "work"
          THEN ProcessMessage(m, stack) /\ UNCHANGED <<have_work_, requested>>
          ELSE /\ stack' = IF IsRunning
                           THEN <<[in |-> "replacement"]>>
                                  \o (<<[in |-> "message", at |-> "work"]>> \o stack)
                           ELSE stack
               /\ have_work_' = (have_work_ /\ IsRunning)
               /\ requested' = (requested /\ IsRunning)
               /\ UNCHANGED timer
  /\ UNCHANGED <<delayed_work_time_, queues, nestable, posting>>

\* ProcessPumpReplacementMessage looks for a message to process in place of the
\* kMsgHaveWork,
PeekReplacement ==
  /\ In("replacement")
  /\ \E m \in Peekable :
       /\ PeekMessage(m)
       /\ stack' = <<[in |-> "exchange", msg |-> m]>> \o Tail(stack)
  /\ UNCHANGED <<have_work_, timer, delayed_work_time_, queues, nestable, posting, requested>>

\* Mutant: no kMsgHaveWork is posted for the time in the message's handler.
ExchangeAndProcess ==
  /\ In("exchange")
  /\ have_work_' = FALSE
  /\ ProcessMessage(Head(stack).msg, Tail(stack))
  /\ UNCHANGED <<windows, delayed_work_time_, queues, nestable, posting, requested>>

\* resets the flag,
ResetHaveWork ==
  /\ In("exchange")
  /\ have_work_' = FALSE
  /\ stack' = IF Head(stack).msg = "none" THEN Tail(stack)
              ELSE <<[Head(stack) EXCEPT !.in = "schedule"]>> \o Tail(stack)
  /\ UNCHANGED <<windows, timer, delayed_work_time_, queues, nestable, posting, requested>>

\* The frames s with what ProcessMessageHelper returns for m; HandleWorkMessage
\* does not look at it.
Returned(s, m) ==
  IF Head(s).in = "run" THEN [s EXCEPT ![1].more = m # "quit"] ELSE s

\* calls ScheduleWork, and processes the message if there was one.
ProcessPumpReplacementMessage ==
  /\ In("schedule")
  /\ ScheduleWork
  /\ LET m == Head(stack).msg IN
       ProcessMessage(m, Returned(Tail(stack), m))
  /\ UNCHANGED <<inputs, wm_quit, delayed_work_time_, queues, nestable, posting>>

\* HandleWorkMessage, after that.
HandleWorkMessage ==
  /\ InAt("message", "work")
  /\ DoWork(<<[in |-> "message", at |-> "schedule"]>> \o Tail(stack), Tail(stack))

\* DoWork returned true.
HandleWorkMessageReturns ==
  /\ InAt("message", "schedule")
  /\ ScheduleWork
  /\ stack' = Tail(stack)
  /\ UNCHANGED <<inputs, wm_quit, timer, delayed_work_time_, queues, nestable, posting>>

HandleTimerMessage ==
  /\ InAt("timer", "delayed")
  /\ DoDelayedWork(<<[in |-> "timer", at |-> "arm"]>> \o Tail(stack))

HandleTimerMessageReturns ==
  /\ InAt("timer", "arm")
  /\ timer' = (timer \/ delayed_work_time_)
  /\ stack' = Tail(stack)
  /\ UNCHANGED <<have_work_, windows, delayed_work_time_, queues, nestable, posting, requested>>

-----------------------------------------------------------------------------
(* DoRunLoop *)

AtStation(at) == InAt("run", at) /\ Head(stack).quit # "now"

\* ProcessNextWindowsMessage; messages that other threads sent may be there too.
ProcessNextWindowsMessage ==
  /\ AtStation("peek")
  /\ \E m \in Peekable, sent \in BOOLEAN :
       LET run == [Head(stack) EXCEPT !.at = "work",
                    !.more = IF m = "none" THEN sent ELSE m = "input" \/ m = "timer"]
       IN PeekMessage(m) /\ ProcessMessage(m, <<run>> \o Tail(stack))
  /\ UNCHANGED <<have_work_, delayed_work_time_, queues, nestable, posting, requested>>

RunDoesWork ==
  /\ AtStation("work")
  /\ LET next == [Head(stack) EXCEPT !.at = "delayed"] IN
       DoWork(<<[next EXCEPT !.more = TRUE]>> \o Tail(stack), <<next>> \o Tail(stack))

\* DoDelayedWork returns true if a task ran.
RunDoesDelayedWork ==
  /\ AtStation("delayed")
  /\ \E ran \in BOOLEAN :
       /\ DoDelayedWork(<<[Head(stack) EXCEPT !.at = "after", !.more = @ \/ ran]>>
                          \o Tail(stack))
       /\ ran <=> delayed' < delayed

AfterDelayedWork ==
  /\ InAt("run", "after")
  /\ timer' = (timer /\ ~(Head(stack).more /\ ~delayed_work_time_))
  /\ GoTo(IF Head(stack).more THEN "peek" ELSE "idle")
  /\ UNCHANGED <<have_work_, windows, delayed_work_time_, queues, nestable, posting, requested>>

\* DoIdleWork (without deferred tasks, for which see MessageLoop); WaitForWork.
DoIdleWork ==
  /\ AtStation("idle")
  /\ stack' = IF Head(stack).quit = "idle" THEN Tail(stack)
              ELSE <<[Head(stack) EXCEPT !.at = "peek"]>> \o Tail(stack)
  /\ UNCHANGED <<have_work_, windows, timer, delayed_work_time_, queues, nestable, posting,
                 requested>>

\* should_quit.
RunReturns ==
  /\ In("run") /\ ~InAt("run", "after") /\ Head(stack).quit = "now"
  /\ stack' = Tail(stack)
  /\ UNCHANGED <<have_work_, windows, timer, delayed_work_time_, queues, nestable, posting,
                 requested>>

ClientCode ==
  \/ \E isDelayed \in BOOLEAN : PostTask(isDelayed)
  \/ Run \/ NativeLoop \/ Quit \/ PostQuitMessage \/ SetNestableTasksAllowed
  \/ HandlerReturns \/ TaskReturns \/ NativeReturns

Pump ==
  \/ DispatchMessage
  \/ PeekReplacement \/ ResetHaveWork \/ ProcessPumpReplacementMessage
  \/ HandleWorkMessage \/ HandleWorkMessageReturns
  \/ HandleTimerMessage \/ HandleTimerMessageReturns
  \/ ProcessNextWindowsMessage \/ RunDoesWork \/ RunDoesDelayedWork \/ AfterDelayedWork
  \/ DoIdleWork \/ RunReturns

Next ==
  \/ \E p \in Poster :
       \/ \E isDelayed \in BOOLEAN : AddToIncomingQueue(p, isDelayed)
       \/ ExchangeHaveWork(p) \/ PostHaveWork(p)
  \/ ClientCode
  \/ Pump

Spec == Init /\ [][Next]_vars

-----------------------------------------------------------------------------
(* Properties *)

TypeOK ==
  /\ have_work_ \in BOOLEAN /\ wm_quit \in BOOLEAN /\ timer \in BOOLEAN
  /\ delayed_work_time_ \in BOOLEAN /\ nestable \in BOOLEAN /\ requested \in BOOLEAN
  /\ messages \in Nat /\ inputs \in 0..MaxInputs
  /\ incoming \in Seq(BOOLEAN) /\ work \in Seq(BOOLEAN)
  /\ delayed \in Nat /\ posts \in 0..MaxPosts
  /\ stack \in Seq(Frame)
  /\ posting \in [Poster -> {"idle", "schedule", "post"}]

\* Where a kMsgHaveWork is: in the queue of Windows, about to be posted there, or
\* taken out of it and the flag not yet reset.
WorkMessages ==
  {"queue" : n \in 1..messages}
  \union {p \in Poster : posting[p] = "post"}
  \union {m \in {"pump"} : In("replacement") \/ In("exchange")}

\* have_work_ is set as long as there is a kMsgHaveWork, of which there is never
\* more than one (the two DCHECKs of ProcessPumpReplacementMessage).
OneWorkMessage ==
  /\ TypeOK
  /\ messages <= 1
  /\ have_work_ <=> WorkMessages # {}
  /\ \A m, n \in WorkMessages : m = n

\* Whoever called ScheduleWork may rely on DoWork: no native loop has the thread,
\* in which only a kMsgHaveWork leads to DoWork, unless there is one. This
\* includes those who found have_work_ set and posted none.
NativeLoopServed ==
  In("native") /\ requested =>
    messages > 0 \/ \E p \in Poster : posting[p] = "post"

\* "Someone else should have started the sub-pump": who finds a task in
\* incoming_queue_ does not call ScheduleWork.
SubPumpStarted ==
  In("native") /\ IsRunning /\ nestable /\ incoming # <<>> =>
    have_work_ \/ \E p \in Poster : posting[p] # "idle"

=============================================================================
