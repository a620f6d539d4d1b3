----------------------------- MODULE UIPumpProofs -----------------------------
(***************************************************************************)
(* For any number of posters, tasks, window messages and nested loops:     *)
(* have_work_ tells where the one kMsgHaveWork is, and a native loop is    *)
(* never left without it when somebody called ScheduleWork.                *)
(***************************************************************************)
EXTENDS UIPump, SequenceTheorems, TLAPS

\* The frames that ProcessPumpReplacementMessage leaves on the stack for a moment.
Brief == {"replacement", "exchange", "schedule"}

Clean(s) == \A n \in DOMAIN s : s[n].in \notin Brief

\* The innermost frame of s calls DoWork next.
WorkNext(s) ==
  /\ s # <<>>
  /\ Head(s).in \in {"run", "message"} /\ Head(s).at = "work"
  /\ Head(s).in = "run" => Head(s).quit # "now"

\* A kMsgHaveWork was taken out and the flag not yet reset.
Taken == In("replacement") \/ In("exchange")

\* OneWorkMessage, without sets of places.
OnePlace ==
  /\ messages \in {0, 1}
  /\ have_work_ <=> messages = 1 \/ Taken \/ \E p \in Poster : posting[p] = "post"
  /\ messages = 1 => ~Taken /\ \A p \in Poster : posting[p] # "post"
  /\ Taken => \A p \in Poster : posting[p] # "post"
  /\ \A p, q \in Poster : posting[p] = "post" /\ posting[q] = "post" => p = q

\* Nothing nests in ProcessPumpReplacementMessage but what it calls last. It is
\* called where DoWork comes next, and takes one kMsgHaveWork at a time.
Shape ==
  stack # <<>> =>
    /\ Clean(Tail(stack))
    /\ Head(stack).in \in Brief => WorkNext(Tail(stack))
    /\ Head(stack).in \in {"exchange", "schedule"} => Head(stack).msg # "work"

\* Without a kMsgHaveWork, who called ScheduleWork is about to be served.
Served == requested /\ ~have_work_ => In("schedule") \/ WorkNext(stack)

IInv == OnePlace /\ Shape /\ Served

-----------------------------------------------------------------------------
(* Sequences *)

\* An element in front of a sequence.
LEMMA PushFront ==
  ASSUME NEW S, NEW s \in Seq(S), NEW e \in S
  PROVE  /\ <<e>> \o s \in Seq(S)
         /\ <<e>> \o s # <<>>
         /\ Head(<<e>> \o s) = e
         /\ Tail(<<e>> \o s) = s
         /\ \A i \in DOMAIN (<<e>> \o s) :
              \/ i = 1 /\ (<<e>> \o s)[i] = e
              \/ i - 1 \in DOMAIN s /\ (<<e>> \o s)[i] = s[i - 1]
<1>1. <<e>> \in Seq(S) /\ Len(<<e>>) = 1 /\ <<e>>[1] = e
  OBVIOUS
<1>2. /\ <<e>> \o s \in Seq(S)
      /\ Len(<<e>> \o s) = 1 + Len(s)
      /\ \A i \in 1 .. 1 + Len(s) :
           (<<e>> \o s)[i] = IF i <= 1 THEN <<e>>[i] ELSE s[i - 1]
  BY <1>1, ConcatProperties
<1>3. DOMAIN (<<e>> \o s) = 1 .. 1 + Len(s) /\ DOMAIN s = 1 .. Len(s) /\ Len(s) \in Nat
  BY <1>2, LenProperties
<1>4. <<e>> \o s # <<>>
  BY <1>2, <1>3
<1>5. Head(<<e>> \o s) = e
  BY <1>1, <1>2, <1>3, <1>4
<1>6. Tail(<<e>> \o s) = s
  <2>1. /\ Tail(<<e>> \o s) \in Seq(S)
        /\ Len(Tail(<<e>> \o s)) = Len(s)
        /\ \A i \in 1 .. Len(s) : Tail(<<e>> \o s)[i] = (<<e>> \o s)[i + 1]
    BY <1>2, <1>3, <1>4, HeadTailProperties
  <2>2. \A i \in 1 .. Len(s) : Tail(<<e>> \o s)[i] = s[i]
    BY <1>2, <1>3, <2>1
  <2> QED
    BY <2>1, <2>2, SeqEqual
<1>7. ASSUME NEW i \in DOMAIN (<<e>> \o s)
      PROVE  \/ i = 1 /\ (<<e>> \o s)[i] = e
             \/ i - 1 \in DOMAIN s /\ (<<e>> \o s)[i] = s[i - 1]
  BY <1>1, <1>2, <1>3
<1> QED
  BY <1>2, <1>4, <1>5, <1>6, <1>7

\* A sequence without its head.
LEMMA PopFront ==
  ASSUME NEW S, NEW s \in Seq(S), s # <<>>
  PROVE  /\ Tail(s) \in Seq(S)
         /\ Head(s) \in S
         /\ Head(s) = s[1] /\ 1 \in DOMAIN s
         /\ DOMAIN s \subseteq Nat
         /\ \A i \in DOMAIN s : i # 1 => i - 1 \in DOMAIN Tail(s) /\ Tail(s)[i - 1] = s[i]
         /\ \A i \in DOMAIN Tail(s) : i + 1 \in DOMAIN s /\ Tail(s)[i] = s[i + 1]
<1>1. /\ Tail(s) \in Seq(S) /\ Head(s) \in S
      /\ Len(Tail(s)) = Len(s) - 1
      /\ \A i \in 1 .. Len(Tail(s)) : Tail(s)[i] = s[i + 1]
  BY HeadTailProperties
<1>2. DOMAIN Tail(s) = 1 .. Len(s) - 1 /\ DOMAIN s = 1 .. Len(s) /\ Len(s) \in Nat \ {0}
  BY <1>1, LenProperties, EmptySeq
<1> QED
  BY <1>1, <1>2

-----------------------------------------------------------------------------
(* Frames *)

LEMMA Frames ==
  /\ \A w \in {"native", "handler", "task", "replacement"} : [in |-> w] \in Frame
  /\ \A w \in {"exchange", "schedule"}, m \in Message \union {"none"} :
       [in |-> w, msg |-> m] \in Frame
  /\ \A a \in {"work", "schedule"} : [in |-> "message", at |-> a] \in Frame
  /\ \A a \in {"delayed", "arm"} : [in |-> "timer", at |-> a] \in Frame
  /\ \A a \in {"peek", "work", "delayed", "after", "idle"}, b \in BOOLEAN,
        q \in {"no", "idle", "now"} :
       [in |-> "run", at |-> a, more |-> b, quit |-> q] \in Frame
  BY DEF Frame, RunState

LEMMA Kinds ==
  ASSUME NEW f \in Frame
  PROVE  /\ f.in = "run" => f \in RunState
         /\ f.in \in {"exchange", "schedule"} =>
              f \in [in : {"exchange", "schedule"}, msg : Message \union {"none"}]
         /\ f.in = "message" => f \in [in : {"message"}, at : {"work", "schedule"}]
         /\ f.in = "timer" => f \in [in : {"timer"}, at : {"delayed", "arm"}]
  BY DEF Frame, RunState

LEMMA Runs ==
  ASSUME NEW f \in RunState
  PROVE  /\ \A a \in {"peek", "work", "delayed", "after", "idle"} :
              [f EXCEPT !.at = a] \in RunState
         /\ \A q \in {"no", "idle", "now"} : [f EXCEPT !.quit = q] \in RunState
         /\ \A b \in BOOLEAN : [f EXCEPT !.more = b] \in RunState
         /\ f.in = "run" /\ f.more \in BOOLEAN /\ f.quit \in {"no", "idle", "now"}
         /\ f \in Frame
  BY DEF Frame, RunState

\* A run that is told to quit is a frame like others; no frame comes or goes.
LEMMA QuittingTypes ==
  ASSUME NEW s \in Seq(Frame), NEW how \in {"idle", "now"}
  PROVE  /\ Quitting(s, how) \in Seq(Frame)
         /\ DOMAIN Quitting(s, how) = DOMAIN s
         /\ \A n \in DOMAIN s : Quitting(s, how)[n].in = s[n].in
<1> DEFINE q(f) == [f EXCEPT !.quit = IF @ = "now" THEN @ ELSE how]
<1>1. ASSUME NEW f \in Frame, f.in = "run"
      PROVE  q(f) \in Frame /\ q(f).in = f.in
  <2>1. f \in RunState
    BY <1>1, Kinds
  <2>2. (IF f.quit = "now" THEN f.quit ELSE how) \in {"no", "idle", "now"}
    BY <2>1, Runs
  <2>3. q(f) \in RunState
    BY <2>1, <2>2, Runs
  <2>4. \A g \in RunState : g \in Frame /\ g.in = "run"
    BY Runs
  <2> QED
    BY <1>1, <2>3, <2>4
<1>2. Quitting(s, how) =
        [n \in DOMAIN s |->
           IF s[n].in = "run" /\ \A k \in 1..n - 1 : s[k].in # "run" THEN q(s[n]) ELSE s[n]]
  BY DEF Quitting
<1> HIDE DEF q
<1>3. ASSUME NEW n \in DOMAIN s
      PROVE  Quitting(s, how)[n] \in Frame /\ Quitting(s, how)[n].in = s[n].in
  <2>1. s[n] \in Frame
    BY ElementOfSeq, LenProperties
  <2>2. CASE s[n].in = "run" /\ \A k \in 1..n - 1 : s[k].in # "run"
    BY <1>1, <1>2, <2>1, <2>2
  <2>3. CASE ~(s[n].in = "run" /\ \A k \in 1..n - 1 : s[k].in # "run")
    BY <1>2, <2>1, <2>3
  <2> QED
    BY <2>2, <2>3
<1>4. DOMAIN s = 1..Len(s) /\ Len(s) \in Nat
  BY LenProperties
<1>5. \E n \in Nat : Quitting(s, how) \in [1..n -> Frame]
  BY <1>2, <1>3, <1>4
<1>6. Quitting(s, how) \in Seq(Frame)
  BY <1>5, IsASeq
<1> QED
  BY <1>2, <1>3, <1>6

\* The innermost frame is a run that goes on to another place.
LEMMA GoToTypes ==
  ASSUME TypeOK, In("run"), NEW a \in {"peek", "work", "delayed", "after", "idle"}, GoTo(a)
  PROVE  /\ stack' \in Seq(Frame)
         /\ stack' # <<>>
         /\ Head(stack').in = "run"
         /\ \A n \in DOMAIN stack' : n \in DOMAIN stack /\ (n # 1 => stack'[n] = stack[n])
<1>1. stack \in Seq(Frame) /\ stack # <<>> /\ Head(stack) = stack[1] /\ stack[1] \in Frame
  BY PopFront DEF TypeOK, In
<1>2. stack[1] \in RunState
  BY <1>1, Kinds DEF In
<1> DEFINE f == [stack[1] EXCEPT !.at = a]
<1>3. f \in Frame /\ f.in = "run"
  <2>1. f \in RunState
    BY <1>2, Runs
  <2>2. \A g \in RunState : g \in Frame /\ g.in = "run"
    BY Runs
  <2> QED
    BY <2>1, <2>2
<1>4. stack' = [stack EXCEPT ![1] = f]
  BY DEF GoTo
<1> HIDE DEF f
<1>5. 1 \in 1 .. Len(stack) /\ DOMAIN stack = 1 .. Len(stack) /\ Len(stack) \in Nat
  BY <1>1, LenProperties, PopFront
<1>6. stack' \in Seq(Frame) /\ Len(stack') = Len(stack) /\ stack'[1] = f
  BY <1>1, <1>3, <1>4, <1>5, ExceptSeq
<1>7. stack' # <<>> /\ Head(stack') = f
  BY <1>5, <1>6, PopFront, EmptySeq
<1>8. \A n \in DOMAIN stack' : n \in DOMAIN stack /\ (n # 1 => stack'[n] = stack[n])
  BY <1>4, <1>5
<1> QED
  BY <1>3, <1>6, <1>7, <1>8

-----------------------------------------------------------------------------
(* Types *)

LEMMA InitTypes == Init => TypeOK
<1> SUFFICES ASSUME Init PROVE TypeOK
  OBVIOUS
<1>1. messages \in Nat /\ inputs \in 0..MaxInputs /\ delayed \in Nat /\ posts \in 0..MaxPosts
  BY PumpAssumption DEF Init
<1>2. incoming \in Seq(BOOLEAN) /\ work \in Seq(BOOLEAN) /\ stack \in Seq(Frame)
  BY EmptySeq DEF Init
<1>3. posting \in [Poster -> {"idle", "schedule", "post"}]
  BY DEF Init
<1> QED
  BY <1>1, <1>2, <1>3 DEF Init, TypeOK

LEMMA PushTypes ==
  ASSUME TypeOK, NEW isDelayed \in BOOLEAN, PushIncoming(isDelayed)
  PROVE  /\ posts' \in 0..MaxPosts
         /\ incoming' \in Seq(BOOLEAN) /\ work' \in Seq(BOOLEAN) /\ delayed' \in Nat
<1>1. Append(incoming, isDelayed) \in Seq(BOOLEAN)
  BY AppendProperties DEF TypeOK
<1> QED
  BY <1>1, PumpAssumption DEF PushIncoming, TypeOK

LEMMA ScheduleTypes ==
  ASSUME TypeOK, ScheduleWork
  PROVE  have_work_' \in BOOLEAN /\ messages' \in Nat /\ requested' \in BOOLEAN
  BY DEF TypeOK, ScheduleWork

LEMMA PeekTypes ==
  ASSUME TypeOK, NEW m, PeekMessage(m)
  PROVE  /\ m \in Message \union {"none"}
         /\ messages' \in Nat /\ inputs' \in 0..MaxInputs /\ wm_quit' \in BOOLEAN
<1>1. /\ m \in Message \union {"none"}
      /\ m = "work" => messages > 0
      /\ m = "input" => inputs > 0
  BY DEF PeekMessage, Peekable
<1>2. messages' \in Nat
  BY <1>1 DEF TypeOK, PeekMessage
<1>3. inputs' \in 0..MaxInputs
  BY <1>1, PumpAssumption DEF TypeOK, PeekMessage
<1> QED
  BY <1>1, <1>2, <1>3 DEF TypeOK, PeekMessage

LEMMA DelayedTypes ==
  ASSUME TypeOK, NEW n \in Nat, AddToDelayedWorkQueue(n)
  PROVE  /\ delayed' \in Nat
         /\ timer' \in BOOLEAN /\ delayed_work_time_' \in BOOLEAN
  BY DEF TypeOK, AddToDelayedWorkQueue

\* What DoWork leaves of the stack: what it was, the frames without a task, or a
\* task on those with one.
LEMMA DoWorkTypes ==
  ASSUME TypeOK, NEW rest \in Seq(Frame), NEW none \in Seq(Frame), DoWork(rest, none)
  PROVE  /\ TypeOK'
         /\ stack' = stack \/ stack' = none \/ stack' = Task \o rest
         /\ UNCHANGED <<have_work_, windows, posting>>
         /\ requested' = FALSE
<1>1. Task \o rest \in Seq(Frame)
  BY Frames, PushFront DEF Task
<1>2. Len(work) \in Nat /\ DOMAIN work = 1 .. Len(work) /\ <<>> \in Seq(BOOLEAN)
  BY LenProperties, EmptySeq DEF TypeOK
<1>3. CASE ReloadWorkQueue
  <2>1. delayed' \in Nat /\ timer' \in BOOLEAN /\ delayed_work_time_' \in BOOLEAN
    BY <1>2, <1>3, DelayedTypes DEF ReloadWorkQueue
  <2> QED
    BY <1>2, <1>3, <2>1 DEF ReloadWorkQueue, TypeOK, windows
<1>4. CASE ~nestable /\ stack' = none /\ UNCHANGED <<timer, delayed_work_time_, queues, nestable>>
           /\ requested' = FALSE /\ UNCHANGED <<have_work_, windows, posting>>
  BY <1>4 DEF TypeOK, windows, queues
<1>5. CASE /\ AddToDelayedWorkQueue(Len(work)) /\ work' = <<>> /\ stack' = none
           /\ UNCHANGED <<incoming, posts, nestable>>
           /\ requested' = FALSE /\ UNCHANGED <<have_work_, windows, posting>>
  <2>1. delayed' \in Nat /\ timer' \in BOOLEAN /\ delayed_work_time_' \in BOOLEAN
    BY <1>2, <1>5, DelayedTypes
  <2> QED
    BY <1>2, <1>5, <2>1 DEF TypeOK, windows
<1>6. ASSUME NEW n \in DOMAIN work,
             AddToDelayedWorkQueue(n - 1), work' = SubSeq(work, n + 1, Len(work)),
             stack' = Task \o rest, nestable' = FALSE,
             UNCHANGED <<incoming, posts>>,
             requested' = FALSE, UNCHANGED <<have_work_, windows, posting>>
      PROVE  TypeOK'
  <2>1. n - 1 \in Nat /\ n + 1 \in Nat
    BY <1>2
  <2>2. delayed' \in Nat /\ timer' \in BOOLEAN /\ delayed_work_time_' \in BOOLEAN
    BY <1>6, <2>1, DelayedTypes
  <2>3. SubSeq(work, n + 1, Len(work)) \in Seq(BOOLEAN)
    BY <1>2, <2>1, SubSeqProperties DEF TypeOK
  <2> QED
    BY <1>1, <1>6, <2>2, <2>3 DEF TypeOK, windows
<1> QED
  BY <1>3, <1>4, <1>5, <1>6 DEF DoWork, ReloadWorkQueue

\* What DoDelayedWork leaves of the stack.
LEMMA DoDelayedWorkTypes ==
  ASSUME TypeOK, NEW rest \in Seq(Frame), DoDelayedWork(rest)
  PROVE  /\ TypeOK'
         /\ stack' = rest \/ stack' = Task \o rest
         /\ UNCHANGED <<have_work_, windows, posting, requested>>
<1>1. Task \o rest \in Seq(Frame)
  BY Frames, PushFront DEF Task
<1>2. UNCHANGED <<have_work_, windows, timer, incoming, work, posts, posting, requested>>
  BY DEF DoDelayedWork
<1>3. delayed' \in Nat /\ nestable' \in BOOLEAN /\ delayed_work_time_' \in BOOLEAN
  <2>1. delayed' \in Nat
    BY DEF DoDelayedWork, TypeOK
  <2>2. nestable' \in BOOLEAN
    BY DEF DoDelayedWork, TypeOK
  <2>3. delayed_work_time_' \in BOOLEAN
    BY DEF DoDelayedWork, TypeOK
  <2> QED
    BY <2>1, <2>2, <2>3
<1>4. stack' = rest \/ stack' = Task \o rest
  BY DEF DoDelayedWork
<1> QED
  BY <1>1, <1>2, <1>3, <1>4 DEF TypeOK, windows

\* What ProcessMessageHelper does to the frames rest: at most one is added.
LEMMA ProcessTypes ==
  ASSUME TypeOK, NEW m \in Message \union {"none"}, NEW rest \in Seq(Frame),
         ProcessMessage(m, rest)
  PROVE  /\ stack' \in Seq(Frame) /\ timer' \in BOOLEAN
         /\ Clean(rest) /\ m # "work" => Clean(stack')
         /\ m = "work" => stack' = <<[in |-> "replacement"]>> \o rest
<1>1. timer' \in BOOLEAN
  BY DEF ProcessMessage, TypeOK
<1>2. CASE m = "none"
  BY <1>1, <1>2 DEF ProcessMessage
<1>3. CASE m = "work"
  <2>1. stack' = <<[in |-> "replacement"]>> \o rest
    BY <1>3 DEF ProcessMessage
  <2> QED
    BY <1>1, <1>3, <2>1, Frames, PushFront
<1>4. CASE m = "quit"
  <2>1. stack' = Quitting(rest, "now")
    BY <1>4 DEF ProcessMessage
  <2> QED
    BY <1>1, <1>4, <2>1, QuittingTypes DEF Clean
<1>5. ASSUME NEW f \in Frame, f.in \notin Brief, stack' = <<f>> \o rest, m # "work"
      PROVE  stack' \in Seq(Frame) /\ (Clean(rest) => Clean(stack'))
  BY <1>5, PushFront DEF Clean
<1>6. CASE m = "input"
  <2>1. stack' = <<[in |-> "handler"]>> \o rest
    BY <1>6 DEF ProcessMessage
  <2> QED
    BY <1>1, <1>5, <1>6, <2>1, Frames DEF Brief
<1>7. CASE m = "timer" /\ IsRunning
  <2>1. stack' = <<[in |-> "timer", at |-> "delayed"]>> \o rest
    BY <1>7 DEF ProcessMessage
  <2> QED
    BY <1>1, <1>5, <1>7, <2>1, Frames DEF Brief
<1>8. CASE m = "timer" /\ ~IsRunning
  BY <1>1, <1>8 DEF ProcessMessage
<1> QED
  BY <1>2, <1>3, <1>4, <1>6, <1>7, <1>8 DEF Message

-----------------------------------------------------------------------------
(* The stack *)

LEMMA CleanPush ==
  ASSUME NEW s \in Seq(Frame), Clean(s), NEW f \in Frame, f.in \notin Brief
  PROVE  <<f>> \o s \in Seq(Frame) /\ Clean(<<f>> \o s)
  BY PushFront DEF Clean

LEMMA CleanPop ==
  ASSUME NEW s \in Seq(Frame), s # <<>>, Clean(s)
  PROVE  Tail(s) \in Seq(Frame) /\ Clean(Tail(s))
  BY PopFront DEF Clean

\* Outside of ProcessPumpReplacementMessage no frame of the stack is of it.
LEMMA CleanBefore ==
  ASSUME TypeOK, Shape, stack = <<>> \/ Head(stack).in \notin Brief
  PROVE  Clean(stack) /\ ~Taken /\ ~In("schedule")
<1>1. CASE stack = <<>>
  BY <1>1 DEF Clean, Taken, In
<1>2. CASE stack # <<>>
  <2>1. Clean(Tail(stack)) /\ Head(stack).in \notin Brief
    BY <1>2 DEF Shape
  <2>2. Clean(stack)
    BY <1>2, <2>1, PopFront DEF Clean, TypeOK
  <2> QED
    BY <2>1, <2>2 DEF Taken, In, Brief
<1> QED
  BY <1>1, <1>2

LEMMA CleanAfter ==
  ASSUME stack' \in Seq(Frame), Clean(stack')
  PROVE  Shape' /\ ~Taken' /\ ~In("schedule")'
<1>1. CASE stack' = <<>>
  BY <1>1 DEF Shape, Taken, In
<1>2. CASE stack' # <<>>
  <2>1. Clean(Tail(stack')) /\ Head(stack').in \notin Brief
    BY <1>2, PopFront DEF Clean
  <2> QED
    BY <1>2, <2>1 DEF Shape, Taken, In, Brief
<1> QED
  BY <1>1, <1>2

\* The innermost frame is a run.
LEMMA InRun ==
  ASSUME TypeOK, Shape, In("run")
  PROVE  /\ Head(stack) \in RunState
         /\ stack # <<>> /\ Head(stack).in \notin Brief
         /\ Tail(stack) \in Seq(Frame) /\ Clean(Tail(stack)) /\ Clean(stack)
<1>1. stack # <<>> /\ Head(stack).in = "run" /\ stack \in Seq(Frame)
  BY DEF In, TypeOK
<1>2. Head(stack) \in RunState
  BY <1>1, PopFront, Kinds
<1>3. Head(stack).in \notin Brief
  BY <1>1 DEF Brief
<1>4. Clean(stack)
  BY <1>3, CleanBefore
<1> QED
  BY <1>1, <1>2, <1>3, <1>4, CleanPop

\* The run told by ProcessMessageHelper whether there may be more.
LEMMA ReturnedTypes ==
  ASSUME NEW s \in Seq(Frame), s # <<>>, Clean(s), NEW m
  PROVE  Returned(s, m) \in Seq(Frame) /\ Clean(Returned(s, m))
<1>1. CASE Head(s).in # "run"
  BY <1>1 DEF Returned
<1>2. CASE Head(s).in = "run"
  <2> DEFINE f == [s[1] EXCEPT !.more = m # "quit"]
  <2>1. s[1] \in Frame /\ s[1].in = "run"
    BY <1>2, PopFront
  <2>2. f \in Frame /\ f.in = "run"
    <3>1. f \in RunState
      BY <2>1, Kinds, Runs
    <3>2. \A g \in RunState : g \in Frame /\ g.in = "run"
      BY Runs
    <3> QED
      BY <3>1, <3>2
  <2>3. Returned(s, m) = [s EXCEPT ![1] = f]
    BY <1>2 DEF Returned
  <2> HIDE DEF f
  <2>4. 1 \in 1 .. Len(s) /\ DOMAIN s = 1 .. Len(s)
    BY PopFront, LenProperties
  <2>5. Returned(s, m) \in Seq(Frame)
    BY <2>2, <2>3, <2>4, ExceptSeq
  <2>6. \A n \in DOMAIN s : Returned(s, m)[n].in = s[n].in
    BY <2>1, <2>2, <2>3
  <2>7. DOMAIN Returned(s, m) = DOMAIN s
    BY <2>3
  <2> QED
    BY <2>5, <2>6, <2>7 DEF Clean
<1> QED
  BY <1>1, <1>2

-----------------------------------------------------------------------------
(* The invariant, for the steps that leave the kMsgHaveWork alone, and for *)
(* ScheduleWork on the thread of the loop                                  *)

LEMMA Quiet ==
  ASSUME TypeOK, IInv,
         stack = <<>> \/ Head(stack).in \notin Brief,
         stack' \in Seq(Frame), Clean(stack'),
         UNCHANGED <<have_work_, messages, posting>>,
         requested' = FALSE \/ (requested' = requested /\ ~WorkNext(stack))
  PROVE  IInv'
<1>1. ~Taken /\ ~In("schedule")
  BY CleanBefore DEF IInv
<1>2. Shape' /\ ~Taken'
  BY CleanAfter
<1>3. OnePlace'
  BY <1>1, <1>2 DEF IInv, OnePlace
<1>4. requested' => have_work_'
  BY <1>1 DEF IInv, Served
<1> QED
  BY <1>2, <1>3, <1>4 DEF IInv, Served

LEMMA Scheduled ==
  ASSUME TypeOK, IInv, ScheduleWork, posting' = posting,
         ~Taken, stack' \in Seq(Frame), Clean(stack')
  PROVE  IInv'
<1>1. Shape' /\ ~Taken'
  BY CleanAfter
<1>2. have_work_' /\ Served'
  BY DEF ScheduleWork, Served
<1>3. OnePlace'
  <2>1. CASE have_work_
    BY <1>1, <1>2, <2>1 DEF ScheduleWork, NeedsMessage, IInv, OnePlace
  <2>2. CASE ~have_work_
    <3>1. messages = 0 /\ \A p \in Poster : posting[p] # "post"
      BY <2>2 DEF IInv, OnePlace
    <3>2. messages' = 1
      BY <2>2, <3>1 DEF ScheduleWork, NeedsMessage
    <3> QED
      BY <1>1, <1>2, <3>1, <3>2 DEF OnePlace
  <2> QED
    BY <2>1, <2>2
<1> QED
  BY <1>1, <1>2, <1>3 DEF IInv

-----------------------------------------------------------------------------
(* Posters *)

LEMMA PosterSteps ==
  ASSUME TypeOK, IInv, NEW p \in Poster,
         \/ \E isDelayed \in BOOLEAN : AddToIncomingQueue(p, isDelayed)
         \/ ExchangeHaveWork(p) \/ PostHaveWork(p)
  PROVE  TypeOK' /\ IInv'
<1>1. ASSUME NEW isDelayed \in BOOLEAN, AddToIncomingQueue(p, isDelayed)
      PROVE  TypeOK' /\ IInv'
  <2>1. /\ posts' \in 0..MaxPosts
        /\ incoming' \in Seq(BOOLEAN) /\ work' \in Seq(BOOLEAN) /\ delayed' \in Nat
    BY <1>1, PushTypes DEF AddToIncomingQueue
  <2>2. posting' \in [Poster -> {"idle", "schedule", "post"}]
    BY <1>1 DEF AddToIncomingQueue, TypeOK
  <2>3. TypeOK'
    BY <1>1, <2>1, <2>2 DEF AddToIncomingQueue, TypeOK, windows
  <2>4. UNCHANGED <<have_work_, messages, stack, requested>>
    BY <1>1 DEF AddToIncomingQueue, windows
  <2>5. \A q \in Poster : posting'[q] = "post" <=> posting[q] = "post"
    BY <1>1 DEF AddToIncomingQueue, TypeOK
  <2>6. OnePlace'
    BY <2>4, <2>5 DEF IInv, OnePlace, Taken, In
  <2>7. Shape' /\ Served'
    BY <2>4 DEF IInv, Shape, Served, In, WorkNext
  <2> QED
    BY <2>3, <2>6, <2>7 DEF IInv
<1>2. CASE ExchangeHaveWork(p)
  <2>1. posting' \in [Poster -> {"idle", "schedule", "post"}]
    BY <1>2 DEF ExchangeHaveWork, TypeOK
  <2>2. TypeOK'
    BY <1>2, <2>1 DEF ExchangeHaveWork, TypeOK, windows, queues
  <2>3. UNCHANGED <<messages, stack>> /\ have_work_'
    BY <1>2 DEF ExchangeHaveWork, windows
  <2>4. OnePlace'
    <3>1. \A q \in Poster : q # p => posting'[q] = posting[q]
      BY <1>2 DEF ExchangeHaveWork, TypeOK
    <3>2. CASE have_work_
      <4>1. posting[p] # "post" /\ posting'[p] # "post"
        BY <1>2, <3>2 DEF ExchangeHaveWork, NeedsMessage, TypeOK
      <4> QED
        BY <2>3, <3>1, <3>2, <4>1 DEF IInv, OnePlace, Taken, In
    <3>3. CASE ~have_work_
      <4>1. posting'[p] = "post"
        BY <1>2, <3>3 DEF ExchangeHaveWork, NeedsMessage, TypeOK
      <4>2. messages = 0 /\ ~Taken /\ \A q \in Poster : posting[q] # "post"
        BY <3>3 DEF IInv, OnePlace
      <4> QED
        BY <2>3, <3>1, <4>1, <4>2 DEF OnePlace, Taken, In
    <3> QED
      BY <3>2, <3>3
  <2>5. Shape' /\ Served'
    BY <2>3 DEF IInv, Shape, Served, WorkNext
  <2> QED
    BY <2>2, <2>4, <2>5 DEF IInv
<1>3. CASE PostHaveWork(p)
  <2>1. posting' \in [Poster -> {"idle", "schedule", "post"}]
    BY <1>3 DEF PostHaveWork, TypeOK
  <2>2. TypeOK'
    BY <1>3, <2>1 DEF PostHaveWork, TypeOK, queues
  <2>3. UNCHANGED <<have_work_, stack, requested>>
    BY <1>3 DEF PostHaveWork
  <2>4. OnePlace'
    <3>1. have_work_ /\ messages = 0 /\ ~Taken
      BY <1>3 DEF PostHaveWork, IInv, OnePlace
    <3>2. messages' = 1
      BY <1>3, <3>1 DEF PostHaveWork
    <3>3. \A q \in Poster : posting'[q] # "post"
      BY <1>3 DEF PostHaveWork, TypeOK, IInv, OnePlace
    <3> QED
      BY <2>3, <3>1, <3>2, <3>3 DEF OnePlace, Taken, In
  <2>5. Shape' /\ Served'
    BY <2>3 DEF IInv, Shape, Served, In, WorkNext
  <2> QED
    BY <2>2, <2>4, <2>5 DEF IInv
<1> QED
  BY <1>1, <1>2, <1>3

-----------------------------------------------------------------------------
(* Client code *)

LEMMA ClientTop ==
  ASSUME TypeOK, IInv, InClientCode \/ In("native")
  PROVE  /\ stack = <<>> \/ Head(stack).in \notin Brief
         /\ Clean(stack) /\ ~Taken
         /\ ~WorkNext(stack)
<1>1. stack = <<>> \/ Head(stack).in \in {"handler", "task", "native"}
  BY DEF InClientCode, In
<1>2. stack = <<>> \/ Head(stack).in \notin Brief
  BY <1>1 DEF Brief
<1> QED
  BY <1>1, <1>2, CleanBefore DEF IInv, WorkNext

LEMMA ClientSteps ==
  ASSUME TypeOK, IInv, ClientCode
  PROVE  TypeOK' /\ IInv'
<1>1. ASSUME NEW isDelayed \in BOOLEAN, PostTask(isDelayed)
      PROVE  TypeOK' /\ IInv'
  <2>1. /\ posts' \in 0..MaxPosts
        /\ incoming' \in Seq(BOOLEAN) /\ work' \in Seq(BOOLEAN) /\ delayed' \in Nat
    BY <1>1, PushTypes DEF PostTask
  <2>2. have_work_' \in BOOLEAN /\ messages' \in Nat /\ requested' \in BOOLEAN
    BY <1>1, ScheduleTypes DEF PostTask, TypeOK
  <2>3. TypeOK'
    BY <1>1, <2>1, <2>2 DEF PostTask, TypeOK
  <2>4. posting' = posting /\ stack' = stack /\ stack' \in Seq(Frame)
    BY <1>1 DEF PostTask, TypeOK
  <2>5. CASE incoming = <<>>
    BY <1>1, <2>3, <2>4, <2>5, ClientTop, Scheduled DEF PostTask
  <2>6. CASE incoming # <<>>
    BY <1>1, <2>3, <2>4, <2>6, ClientTop, Quiet DEF PostTask
  <2> QED
    BY <2>5, <2>6
<1>2. CASE Run
  <2>1. PICK quit \in {"no", "idle"} :
          stack' = <<[in |-> "run", at |-> "peek", more |-> FALSE, quit |-> quit]>> \o stack
    BY <1>2 DEF Run
  <2> DEFINE f == [in |-> "run", at |-> "peek", more |-> FALSE, quit |-> quit]
  <2>2. f \in Frame /\ f.in \notin Brief
    BY Frames DEF Brief
  <2>3. stack' = <<f>> \o stack
    BY <2>1
  <2> HIDE DEF f
  <2>4. stack' \in Seq(Frame) /\ Clean(stack')
    BY <1>2, <2>2, <2>3, ClientTop, CleanPush DEF Run, TypeOK
  <2>5. TypeOK'
    BY <1>2, <2>4 DEF Run, TypeOK, windows, queues
  <2>6. UNCHANGED <<have_work_, messages, posting, requested>>
    BY <1>2 DEF Run, windows
  <2> QED
    BY <1>2, <2>4, <2>5, <2>6, ClientTop, Quiet DEF Run
<1>3. CASE NativeLoop
  <2>1. stack' = <<[in |-> "native"]>> \o stack
    BY <1>3 DEF NativeLoop
  <2>2. [in |-> "native"] \in Frame /\ [in |-> "native"].in \notin Brief
    BY Frames DEF Brief
  <2>3. stack' \in Seq(Frame) /\ Clean(stack')
    BY <1>3, <2>1, <2>2, ClientTop, CleanPush DEF NativeLoop, TypeOK
  <2>4. TypeOK'
    BY <1>3, <2>3 DEF NativeLoop, TypeOK, windows, queues
  <2>5. UNCHANGED <<have_work_, messages, posting, requested>>
    BY <1>3 DEF NativeLoop, windows
  <2> QED
    BY <1>3, <2>3, <2>4, <2>5, ClientTop, Quiet DEF NativeLoop
<1>4. CASE Quit
  <2>1. PICK how \in {"idle", "now"} : stack' = Quitting(stack, how)
    BY <1>4 DEF Quit
  <2>2. stack' \in Seq(Frame) /\ Clean(stack')
    <3>1. stack \in Seq(Frame) /\ Clean(stack)
      BY <1>4, ClientTop DEF Quit, TypeOK
    <3>2. /\ stack' \in Seq(Frame) /\ DOMAIN stack' = DOMAIN stack
          /\ \A n \in DOMAIN stack : stack'[n].in = stack[n].in
      BY <2>1, <3>1, QuittingTypes
    <3> QED BY <3>1, <3>2 DEF Clean
  <2>3. TypeOK'
    BY <1>4, <2>2 DEF Quit, TypeOK, windows, queues
  <2>4. UNCHANGED <<have_work_, messages, posting, requested>>
    BY <1>4 DEF Quit, windows
  <2> QED
    BY <1>4, <2>2, <2>3, <2>4, ClientTop, Quiet DEF Quit
<1>5. CASE PostQuitMessage
  <2>1. TypeOK' /\ stack' = stack /\ stack' \in Seq(Frame)
    BY <1>5 DEF PostQuitMessage, TypeOK, queues
  <2>2. UNCHANGED <<have_work_, messages, posting, requested>>
    BY <1>5 DEF PostQuitMessage
  <2> QED
    BY <1>5, <2>1, <2>2, ClientTop, Quiet DEF PostQuitMessage
<1>6. CASE SetNestableTasksAllowed
  <2>1. have_work_' \in BOOLEAN /\ messages' \in Nat /\ requested' \in BOOLEAN
    BY <1>6, ScheduleTypes DEF SetNestableTasksAllowed, TypeOK
  <2>2. posting' = posting /\ stack' = stack /\ stack' \in Seq(Frame)
    BY <1>6 DEF SetNestableTasksAllowed, TypeOK
  <2>3. nestable' \in BOOLEAN
    BY <1>6 DEF SetNestableTasksAllowed, TypeOK
  <2>4. TypeOK'
    BY <1>6, <2>1, <2>2, <2>3 DEF SetNestableTasksAllowed, TypeOK, queues
  <2>5. InClientCode
    BY <1>6 DEF SetNestableTasksAllowed, InClientCode
  <2>6. CASE nestable
    <3>1. UNCHANGED <<have_work_, messages, requested>>
      BY <1>6, <2>6 DEF SetNestableTasksAllowed
    <3> QED
      BY <2>2, <2>4, <2>5, <3>1, ClientTop, Quiet
  <2>7. CASE ~nestable
    <3>1. ScheduleWork
      BY <1>6, <2>7 DEF SetNestableTasksAllowed
    <3> QED
      BY <2>2, <2>4, <2>5, <3>1, ClientTop, Scheduled
  <2> QED
    BY <2>6, <2>7
<1>7. CASE HandlerReturns \/ TaskReturns \/ NativeReturns
  <2>1. stack # <<>> /\ stack' = Tail(stack)
    BY <1>7 DEF HandlerReturns, TaskReturns, NativeReturns, In
  <2>2. InClientCode \/ In("native")
    BY <1>7 DEF HandlerReturns, TaskReturns, NativeReturns, InClientCode
  <2>3. stack' \in Seq(Frame) /\ Clean(stack')
    BY <2>1, <2>2, ClientTop, CleanPop DEF TypeOK
  <2>4. nestable' \in BOOLEAN
    BY <1>7 DEF HandlerReturns, TaskReturns, NativeReturns, TypeOK
  <2>5. UNCHANGED <<have_work_, windows, timer, delayed_work_time_, queues, posting, requested>>
    BY <1>7 DEF HandlerReturns, TaskReturns, NativeReturns
  <2>6. TypeOK'
    BY <2>3, <2>4, <2>5 DEF TypeOK, windows, queues
  <2>7. UNCHANGED <<have_work_, messages, posting, requested>>
    BY <2>5 DEF windows
  <2> QED
    BY <2>2, <2>3, <2>6, <2>7, ClientTop, Quiet
<1> QED
  BY <1>1, <1>2, <1>3, <1>4, <1>5, <1>6, <1>7 DEF ClientCode

-----------------------------------------------------------------------------
(* The pump *)

LEMMA DispatchStep ==
  ASSUME TypeOK, IInv, DispatchMessage
  PROVE  TypeOK' /\ IInv'
<1>1. PICK m \in Peekable \ {"none", "quit"} :
        /\ PeekMessage(m)
        /\ IF m # "work"
           THEN ProcessMessage(m, stack) /\ UNCHANGED <<have_work_, requested>>
           ELSE /\ stack' = IF IsRunning
                            THEN <<[in |-> "replacement"]>>
                                   \o (<<[in |-> "message", at |-> "work"]>> \o stack)
                            ELSE stack
                /\ have_work_' = (have_work_ /\ IsRunning)
                /\ requested' = (requested /\ IsRunning)
                /\ UNCHANGED timer
  BY DEF DispatchMessage
<1>2. In("native") /\ UNCHANGED <<delayed_work_time_, queues, nestable, posting>>
  BY DEF DispatchMessage
<1>3. stack \in Seq(Frame) /\ Clean(stack) /\ ~Taken /\ ~WorkNext(stack)
      /\ (stack = <<>> \/ Head(stack).in \notin Brief)
  BY <1>2, ClientTop DEF TypeOK
<1>4. /\ m \in Message \union {"none"}
      /\ messages' \in Nat /\ inputs' \in 0..MaxInputs /\ wm_quit' \in BOOLEAN
  BY <1>1, PeekTypes
<1>5. CASE m # "work"
  <2>1. stack' \in Seq(Frame) /\ Clean(stack') /\ timer' \in BOOLEAN
    BY <1>1, <1>3, <1>4, <1>5, ProcessTypes
  <2>2. UNCHANGED <<have_work_, messages, posting, requested>>
    BY <1>1, <1>2, <1>5 DEF PeekMessage
  <2>3. TypeOK'
    BY <1>2, <1>4, <2>1, <2>2 DEF TypeOK, queues
  <2> QED
    BY <1>3, <2>1, <2>2, <2>3, Quiet
<1>6. CASE m = "work"
  <2>1. /\ messages = 1 /\ messages' = 0 /\ have_work_
        /\ \A p \in Poster : posting[p] # "post"
    BY <1>1, <1>6 DEF PeekMessage, Peekable, IInv, OnePlace
  <2>2. UNCHANGED <<timer, posting>>
    BY <1>1, <1>2, <1>6
  <2>3. CASE IsRunning
    <3>1. /\ have_work_' = have_work_ /\ requested' = requested
          /\ stack' = <<[in |-> "replacement"]>> \o (<<[in |-> "message", at |-> "work"]>> \o stack)
      <4>1. stack' = <<[in |-> "replacement"]>> \o (<<[in |-> "message", at |-> "work"]>> \o stack)
        BY <1>1, <1>6, <2>3
      <4>2. have_work_' = have_work_
        BY <1>1, <1>6, <2>3 DEF TypeOK
      <4>3. requested' = requested
        BY <1>1, <1>6, <2>3 DEF TypeOK
      <4> QED
        BY <4>1, <4>2, <4>3
    <3> DEFINE e == [in |-> "replacement"]
               f == [in |-> "message", at |-> "work"]
    <3>2. /\ e \in Frame /\ f \in Frame
          /\ e.in = "replacement" /\ f.in = "message" /\ f.at = "work" /\ f.in \notin Brief
      BY Frames DEF Brief
    <3>3. stack' = <<e>> \o (<<f>> \o stack)
      BY <3>1
    <3> HIDE DEF e, f
    <3>4. /\ <<f>> \o stack \in Seq(Frame) /\ Clean(<<f>> \o stack)
          /\ <<f>> \o stack # <<>> /\ Head(<<f>> \o stack) = f
      BY <1>3, <3>2, CleanPush, PushFront
    <3>5. /\ stack' \in Seq(Frame) /\ stack' # <<>>
          /\ Head(stack') = e /\ Tail(stack') = <<f>> \o stack
      BY <3>2, <3>3, <3>4, PushFront
    <3>6. Shape' /\ Taken'
      BY <3>2, <3>4, <3>5 DEF Shape, WorkNext, Taken, In
    <3>7. OnePlace' /\ Served'
      BY <2>1, <2>2, <3>1, <3>6 DEF OnePlace, Served
    <3>8. TypeOK'
      BY <1>2, <1>4, <2>2, <3>1, <3>5 DEF TypeOK, queues
    <3> QED
      BY <3>6, <3>7, <3>8 DEF IInv
  <2>4. CASE ~IsRunning
    <3>1. stack' = stack
      BY <1>1, <1>6, <2>4
    <3>2. ~have_work_' /\ have_work_' \in BOOLEAN
      BY <1>1, <1>6, <2>4
    <3>3. ~requested' /\ requested' \in BOOLEAN
      BY <1>1, <1>6, <2>4
    <3>4. Shape' /\ ~Taken'
      BY <1>3, <3>1, CleanAfter
    <3>5. OnePlace' /\ Served'
      BY <2>1, <2>2, <3>2, <3>3, <3>4 DEF OnePlace, Served
    <3>6. TypeOK'
      BY <1>2, <1>3, <1>4, <2>2, <3>1, <3>2, <3>3 DEF TypeOK, queues
    <3> QED
      BY <3>4, <3>5, <3>6 DEF IInv
  <2> QED
    BY <2>3, <2>4
<1> QED
  BY <1>5, <1>6

\* The innermost frame is of ProcessPumpReplacementMessage.
LEMMA InBrief ==
  ASSUME TypeOK, IInv, In("replacement") \/ In("exchange") \/ In("schedule")
  PROVE  /\ stack # <<>> /\ Head(stack) \in Frame /\ Tail(stack) \in Seq(Frame)
         /\ Clean(Tail(stack)) /\ WorkNext(Tail(stack))
         /\ Head(stack).in \in {"exchange", "schedule"} =>
              Head(stack).msg \in (Message \union {"none"}) \ {"work"}
<1>1. stack # <<>> /\ Head(stack).in \in Brief /\ stack \in Seq(Frame)
  BY DEF In, Brief, TypeOK
<1>2. Head(stack) \in Frame /\ Tail(stack) \in Seq(Frame)
  BY <1>1, PopFront
<1>3. Head(stack).in \in {"exchange", "schedule"} => Head(stack).msg \in Message \union {"none"}
  BY <1>2, Kinds
<1> QED
  BY <1>1, <1>2, <1>3 DEF IInv, Shape

LEMMA PeekReplacementStep ==
  ASSUME TypeOK, IInv, PeekReplacement
  PROVE  TypeOK' /\ IInv'
<1>1. PICK m \in Peekable :
        PeekMessage(m) /\ stack' = <<[in |-> "exchange", msg |-> m]>> \o Tail(stack)
  BY DEF PeekReplacement
<1>2. In("replacement")
      /\ UNCHANGED <<have_work_, timer, delayed_work_time_, queues, nestable, posting, requested>>
  BY DEF PeekReplacement
<1>3. /\ m \in Message \union {"none"}
      /\ messages' \in Nat /\ inputs' \in 0..MaxInputs /\ wm_quit' \in BOOLEAN
  BY <1>1, PeekTypes
<1>4. Taken /\ have_work_ /\ messages = 0 /\ \A p \in Poster : posting[p] # "post"
  BY <1>2 DEF Taken, IInv, OnePlace
<1>5. m # "work" /\ messages' = 0
  <2>1. m = "work" => messages > 0
    BY <1>1 DEF Peekable
  <2> QED
    BY <1>1, <1>4, <2>1 DEF PeekMessage
<1> DEFINE f == [in |-> "exchange", msg |-> m]
<1>6. f \in Frame /\ f.in = "exchange" /\ f.msg # "work"
  BY <1>3, <1>5, Frames
<1>7. stack' = <<f>> \o Tail(stack)
  BY <1>1
<1> HIDE DEF f
<1>8. /\ stack' \in Seq(Frame) /\ stack' # <<>>
      /\ Head(stack') = f /\ Tail(stack') = Tail(stack)
  BY <1>2, <1>6, <1>7, InBrief, PushFront
<1>9. Shape' /\ Taken'
  BY <1>2, <1>6, <1>8, InBrief DEF Shape, Taken, In, WorkNext, Brief
<1>10. OnePlace' /\ Served'
  BY <1>2, <1>4, <1>5, <1>9 DEF OnePlace, Served
<1>11. TypeOK'
  BY <1>2, <1>3, <1>8 DEF TypeOK, queues
<1> QED
  BY <1>9, <1>10, <1>11 DEF IInv

LEMMA ResetStep ==
  ASSUME TypeOK, IInv, ResetHaveWork
  PROVE  TypeOK' /\ IInv'
<1>1. /\ In("exchange") /\ have_work_' = FALSE
      /\ UNCHANGED <<windows, timer, delayed_work_time_, queues, nestable, posting, requested>>
  BY DEF ResetHaveWork
<1>2. messages = 0 /\ \A p \in Poster : posting[p] # "post"
  BY <1>1 DEF Taken, IInv, OnePlace
<1>3. stack' \in Seq(Frame) /\ Shape' /\ ~Taken' /\ (In("schedule")' \/ WorkNext(stack'))
  <2>1. CASE Head(stack).msg = "none"
    <3>1. stack' = Tail(stack)
      BY <2>1 DEF ResetHaveWork
    <3> QED
      BY <1>1, <3>1, InBrief, CleanAfter
  <2>2. CASE Head(stack).msg # "none"
    <3> DEFINE f == [Head(stack) EXCEPT !.in = "schedule"]
    <3>1. Head(stack) \in [in : {"exchange", "schedule"}, msg : Message \union {"none"}]
      BY <1>1, InBrief, Kinds DEF In
    <3>2. f = [in |-> "schedule", msg |-> Head(stack).msg]
      BY <3>1
    <3>3. f \in Frame /\ f.in = "schedule" /\ f.msg # "work"
      BY <1>1, <3>1, <3>2, Frames, InBrief DEF In
    <3>4. stack' = <<f>> \o Tail(stack)
      BY <2>2 DEF ResetHaveWork
    <3> HIDE DEF f
    <3>5. /\ stack' \in Seq(Frame) /\ stack' # <<>>
          /\ Head(stack') = f /\ Tail(stack') = Tail(stack)
      BY <1>1, <3>3, <3>4, InBrief, PushFront
    <3> QED
      BY <1>1, <3>3, <3>5, InBrief DEF Shape, Taken, In, WorkNext, Brief
  <2> QED
    BY <2>1, <2>2
<1>4. OnePlace' /\ Served'
  BY <1>1, <1>2, <1>3 DEF OnePlace, Served, windows
<1>5. TypeOK'
  BY <1>1, <1>3 DEF TypeOK, windows, queues
<1> QED
  BY <1>3, <1>4, <1>5 DEF IInv

LEMMA ReplacementStep ==
  ASSUME TypeOK, IInv, ProcessPumpReplacementMessage
  PROVE  TypeOK' /\ IInv'
<1> DEFINE m == Head(stack).msg
<1>1. /\ In("schedule") /\ ScheduleWork
      /\ ProcessMessage(m, Returned(Tail(stack), m))
      /\ UNCHANGED <<inputs, wm_quit, delayed_work_time_, queues, nestable, posting>>
  BY DEF ProcessPumpReplacementMessage
<1>2. m \in (Message \union {"none"}) \ {"work"}
  BY <1>1, InBrief DEF In
<1> HIDE DEF m
<1>3. Returned(Tail(stack), m) \in Seq(Frame) /\ Clean(Returned(Tail(stack), m))
  BY <1>1, InBrief, ReturnedTypes DEF WorkNext
<1>4. stack' \in Seq(Frame) /\ Clean(stack') /\ timer' \in BOOLEAN
  BY <1>1, <1>2, <1>3, ProcessTypes
<1>5. have_work_' \in BOOLEAN /\ messages' \in Nat /\ requested' \in BOOLEAN
  BY <1>1, ScheduleTypes
<1>6. TypeOK'
  BY <1>1, <1>4, <1>5 DEF TypeOK, queues
<1>7. ~Taken
  BY <1>1 DEF Taken, In
<1> QED
  BY <1>1, <1>4, <1>6, <1>7, Scheduled

-----------------------------------------------------------------------------
(* The handlers of the loop *)

LEMMA TaskPush ==
  ASSUME NEW s \in Seq(Frame), Clean(s)
  PROVE  Task \o s \in Seq(Frame) /\ Clean(Task \o s)
<1>1. [in |-> "task"] \in Frame /\ [in |-> "task"].in \notin Brief
  BY Frames DEF Brief
<1> QED
  BY <1>1, CleanPush DEF Task

\* A call of DoWork from a frame that comes back to clean ones.
LEMMA DoWorkStep ==
  ASSUME TypeOK, IInv, stack # <<>>, Head(stack).in \notin Brief,
         NEW rest \in Seq(Frame), NEW none \in Seq(Frame), Clean(rest), Clean(none),
         DoWork(rest, none)
  PROVE  TypeOK' /\ IInv'
<1>1. /\ TypeOK'
      /\ stack' = stack \/ stack' = none \/ stack' = Task \o rest
      /\ UNCHANGED <<have_work_, windows, posting>>
      /\ requested' = FALSE
  BY DoWorkTypes
<1>2. Clean(stack) /\ Clean(Task \o rest)
  BY CleanBefore, TaskPush DEF IInv
<1>3. stack' \in Seq(Frame) /\ Clean(stack')
  BY <1>1, <1>2 DEF TypeOK
<1>4. UNCHANGED <<have_work_, messages, posting>>
  BY <1>1 DEF windows
<1> QED
  BY <1>1, <1>3, <1>4, Quiet

LEMMA DoDelayedWorkStep ==
  ASSUME TypeOK, IInv, stack # <<>>, Head(stack).in \notin Brief, ~WorkNext(stack),
         NEW rest \in Seq(Frame), Clean(rest), DoDelayedWork(rest)
  PROVE  TypeOK' /\ IInv'
<1>1. /\ TypeOK'
      /\ stack' = rest \/ stack' = Task \o rest
      /\ UNCHANGED <<have_work_, windows, posting, requested>>
  BY DoDelayedWorkTypes
<1>2. Clean(Task \o rest)
  BY TaskPush
<1>3. stack' \in Seq(Frame) /\ Clean(stack')
  BY <1>1, <1>2 DEF TypeOK
<1>4. UNCHANGED <<have_work_, messages, posting, requested>>
  BY <1>1 DEF windows
<1> QED
  BY <1>1, <1>3, <1>4, Quiet

\* The innermost frame is one of the handlers of the pump's window.
LEMMA InHandler ==
  ASSUME TypeOK, IInv, In("message") \/ In("timer")
  PROVE  /\ stack # <<>> /\ Head(stack).in \notin Brief
         /\ Tail(stack) \in Seq(Frame) /\ Clean(Tail(stack)) /\ Clean(stack) /\ ~Taken
<1>1. stack # <<>> /\ Head(stack).in \in {"message", "timer"} /\ stack \in Seq(Frame)
  BY DEF In, TypeOK
<1>2. Head(stack).in \notin Brief
  BY <1>1 DEF Brief
<1>3. Clean(stack) /\ ~Taken
  BY <1>2, CleanBefore DEF IInv
<1> QED
  BY <1>1, <1>2, <1>3, CleanPop

LEMMA HandlerSteps ==
  ASSUME TypeOK, IInv,
         \/ HandleWorkMessage \/ HandleWorkMessageReturns
         \/ HandleTimerMessage \/ HandleTimerMessageReturns
  PROVE  TypeOK' /\ IInv'
<1>1. CASE HandleWorkMessage
  <2> DEFINE f == [in |-> "message", at |-> "schedule"]
  <2>1. In("message") /\ DoWork(<<f>> \o Tail(stack), Tail(stack))
    BY <1>1 DEF HandleWorkMessage, InAt
  <2>2. f \in Frame /\ f.in \notin Brief
    BY Frames DEF Brief
  <2> HIDE DEF f
  <2>3. <<f>> \o Tail(stack) \in Seq(Frame) /\ Clean(<<f>> \o Tail(stack))
    BY <2>1, <2>2, InHandler, CleanPush
  <2> QED
    BY <2>1, <2>3, InHandler, DoWorkStep
<1>2. CASE HandleWorkMessageReturns
  <2>1. /\ In("message") /\ ScheduleWork /\ stack' = Tail(stack)
        /\ UNCHANGED <<inputs, wm_quit, timer, delayed_work_time_, queues, nestable, posting>>
    BY <1>2 DEF HandleWorkMessageReturns, InAt
  <2>2. stack' \in Seq(Frame) /\ Clean(stack')
    BY <2>1, InHandler
  <2>3. have_work_' \in BOOLEAN /\ messages' \in Nat /\ requested' \in BOOLEAN
    BY <2>1, ScheduleTypes
  <2>4. TypeOK'
    BY <2>1, <2>2, <2>3 DEF TypeOK, queues
  <2> QED
    BY <2>1, <2>2, <2>4, InHandler, Scheduled
<1>3. CASE HandleTimerMessage
  <2> DEFINE f == [in |-> "timer", at |-> "arm"]
  <2>1. In("timer") /\ DoDelayedWork(<<f>> \o Tail(stack))
    BY <1>3 DEF HandleTimerMessage, InAt
  <2>2. f \in Frame /\ f.in \notin Brief
    BY Frames DEF Brief
  <2> HIDE DEF f
  <2>3. <<f>> \o Tail(stack) \in Seq(Frame) /\ Clean(<<f>> \o Tail(stack))
    BY <2>1, <2>2, InHandler, CleanPush
  <2>4. ~WorkNext(stack)
    BY <2>1 DEF In, WorkNext
  <2> QED
    BY <2>1, <2>3, <2>4, InHandler, DoDelayedWorkStep
<1>4. CASE HandleTimerMessageReturns
  <2>1. /\ In("timer") /\ stack' = Tail(stack) /\ timer' = (timer \/ delayed_work_time_)
        /\ UNCHANGED <<have_work_, windows, delayed_work_time_, queues, nestable, posting,
                       requested>>
    BY <1>4 DEF HandleTimerMessageReturns, InAt
  <2>2. stack' \in Seq(Frame) /\ Clean(stack')
    BY <2>1, InHandler
  <2>3. timer' \in BOOLEAN
    BY <2>1
  <2>4. TypeOK'
    BY <2>1, <2>2, <2>3 DEF TypeOK, windows, queues
  <2>5. ~WorkNext(stack)
    BY <2>1 DEF In, WorkNext
  <2>6. UNCHANGED <<have_work_, messages, posting, requested>>
    BY <2>1 DEF windows
  <2> QED
    BY <2>1, <2>2, <2>4, <2>5, <2>6, InHandler, Quiet
<1> QED
  BY <1>1, <1>2, <1>3, <1>4

-----------------------------------------------------------------------------
(* DoRunLoop *)

LEMMA PeekStep ==
  ASSUME TypeOK, IInv, ProcessNextWindowsMessage
  PROVE  TypeOK' /\ IInv'
<1>1. PICK m \in Peekable, sent \in BOOLEAN :
        LET run == [Head(stack) EXCEPT !.at = "work",
                     !.more = IF m = "none" THEN sent ELSE m = "input" \/ m = "timer"]
        IN PeekMessage(m) /\ ProcessMessage(m, <<run>> \o Tail(stack))
  BY DEF ProcessNextWindowsMessage
<1> DEFINE b == IF m = "none" THEN sent ELSE m = "input" \/ m = "timer"
           f == [Head(stack) EXCEPT !.at = "work", !.more = b]
<1>2. /\ In("run") /\ Head(stack).at = "peek" /\ Head(stack).quit # "now"
      /\ UNCHANGED <<have_work_, delayed_work_time_, queues, nestable, posting, requested>>
  BY DEF ProcessNextWindowsMessage, AtStation, InAt
<1>3. PeekMessage(m) /\ ProcessMessage(m, <<f>> \o Tail(stack))
  BY <1>1
<1>4. b \in BOOLEAN
  OBVIOUS
<1> HIDE DEF b
<1>5. Head(stack) \in RunState /\ Tail(stack) \in Seq(Frame) /\ Clean(Tail(stack))
      /\ Clean(stack) /\ stack # <<>> /\ Head(stack).in \notin Brief
  BY <1>2, InRun DEF IInv
<1>6. f \in Frame /\ f.in = "run" /\ f.at = "work" /\ f.quit # "now" /\ f.in \notin Brief
  <2>1. f \in RunState /\ f.at = "work" /\ f.quit # "now"
    BY <1>2, <1>4, <1>5 DEF RunState
  <2>2. \A g \in RunState : g \in Frame /\ g.in = "run"
    BY Runs
  <2> QED
    BY <2>1, <2>2 DEF Brief
<1> HIDE DEF f
<1> DEFINE r == <<f>> \o Tail(stack)
<1>7. r \in Seq(Frame) /\ Clean(r) /\ r # <<>> /\ Head(r) = f
  BY <1>5, <1>6, CleanPush, PushFront
<1>8. ProcessMessage(m, r)
  BY <1>3
<1> HIDE DEF r
<1>9. /\ m \in Message \union {"none"}
      /\ messages' \in Nat /\ inputs' \in 0..MaxInputs /\ wm_quit' \in BOOLEAN
  BY <1>3, PeekTypes
<1>10. stack' \in Seq(Frame) /\ timer' \in BOOLEAN
  BY <1>7, <1>8, <1>9, ProcessTypes
<1>11. TypeOK'
  BY <1>2, <1>9, <1>10 DEF TypeOK, queues
<1>12. ~WorkNext(stack)
  BY <1>2 DEF WorkNext
<1>13. CASE m # "work"
  <2>1. Clean(stack')
    BY <1>7, <1>8, <1>9, <1>13, ProcessTypes
  <2>2. messages' = messages
    BY <1>3, <1>13 DEF PeekMessage
  <2> QED
    BY <1>2, <1>5, <1>10, <1>11, <1>12, <2>1, <2>2, Quiet
<1>14. CASE m = "work"
  <2>1. /\ messages = 1 /\ messages' = 0 /\ have_work_
        /\ \A p \in Poster : posting[p] # "post"
    <3>1. messages > 0
      BY <1>3, <1>14 DEF PeekMessage, Peekable
    <3> QED
      BY <1>3, <1>14, <3>1 DEF PeekMessage, IInv, OnePlace
  <2> DEFINE e == [in |-> "replacement"]
  <2>2. e \in Frame /\ e.in = "replacement"
    BY Frames
  <2>3. stack' = <<e>> \o r
    BY <1>7, <1>8, <1>9, <1>14, ProcessTypes
  <2> HIDE DEF e
  <2>4. stack' # <<>> /\ Head(stack') = e /\ Tail(stack') = r
    BY <1>7, <2>2, <2>3, PushFront
  <2>5. Shape' /\ Taken'
    BY <1>6, <1>7, <2>2, <2>4 DEF Shape, WorkNext, Taken, In
  <2>6. OnePlace' /\ Served'
    BY <1>2, <2>1, <2>5 DEF OnePlace, Served
  <2> QED
    BY <1>11, <2>5, <2>6 DEF IInv
<1> QED
  BY <1>13, <1>14

LEMMA RunSteps ==
  ASSUME TypeOK, IInv,
         \/ RunDoesWork \/ RunDoesDelayedWork \/ AfterDelayedWork \/ DoIdleWork \/ RunReturns
  PROVE  TypeOK' /\ IInv'
<1>1. /\ In("run") /\ stack # <<>> /\ stack \in Seq(Frame)
  BY DEF RunDoesWork, RunDoesDelayedWork, AfterDelayedWork, DoIdleWork, RunReturns,
         AtStation, InAt, In, TypeOK
<1>2. Head(stack) \in RunState /\ Tail(stack) \in Seq(Frame) /\ Clean(Tail(stack))
      /\ Clean(stack) /\ Head(stack).in \notin Brief
  BY <1>1, InRun DEF IInv
<1>3. ASSUME NEW f \in RunState
      PROVE  <<f>> \o Tail(stack) \in Seq(Frame) /\ Clean(<<f>> \o Tail(stack))
  <2>1. f \in Frame /\ f.in \notin Brief
    BY Runs DEF Brief
  <2> QED
    BY <1>2, <2>1, CleanPush
<1>4. CASE RunDoesWork
  <2> DEFINE f == [Head(stack) EXCEPT !.at = "delayed"]
             g == [f EXCEPT !.more = TRUE]
  <2>1. DoWork(<<g>> \o Tail(stack), <<f>> \o Tail(stack))
    BY <1>4 DEF RunDoesWork
  <2>2. f \in RunState /\ g \in RunState
    BY <1>2 DEF RunState
  <2> HIDE DEF f, g
  <2> QED
    BY <1>1, <1>2, <1>3, <2>1, <2>2, DoWorkStep
<1>5. CASE RunDoesDelayedWork
  <2>1. PICK ran \in BOOLEAN :
          DoDelayedWork(<<[Head(stack) EXCEPT !.at = "after", !.more = @ \/ ran]>>
                          \o Tail(stack))
    BY <1>5 DEF RunDoesDelayedWork
  <2> DEFINE f == [Head(stack) EXCEPT !.at = "after", !.more = @ \/ ran]
  <2>2. f \in RunState
    BY <1>2 DEF RunState
  <2>3. DoDelayedWork(<<f>> \o Tail(stack))
    BY <2>1
  <2> HIDE DEF f
  <2>4. ~WorkNext(stack)
    BY <1>5 DEF RunDoesDelayedWork, AtStation, InAt, WorkNext
  <2> QED
    BY <1>1, <1>2, <1>3, <2>2, <2>3, <2>4, DoDelayedWorkStep
<1>6. CASE AfterDelayedWork
  <2>1. PICK a \in {"peek", "idle"} : GoTo(a)
    BY <1>6 DEF AfterDelayedWork
  <2>2. stack' \in Seq(Frame) /\ stack' # <<>> /\ Head(stack').in = "run"
        /\ \A n \in DOMAIN stack' : n \in DOMAIN stack /\ (n # 1 => stack'[n] = stack[n])
    BY <1>1, <2>1, GoToTypes
  <2>3. Clean(stack')
    <3>1. stack'[1] = Head(stack')
      BY <2>2, PopFront
    <3> QED
      BY <1>2, <2>2, <3>1 DEF Clean, Brief
  <2>4. timer' \in BOOLEAN
    BY <1>6 DEF AfterDelayedWork
  <2>5. UNCHANGED <<have_work_, windows, delayed_work_time_, queues, nestable, posting, requested>>
    BY <1>6 DEF AfterDelayedWork
  <2>6. TypeOK'
    BY <2>2, <2>4, <2>5 DEF TypeOK, windows, queues
  <2>7. ~WorkNext(stack)
    BY <1>6 DEF AfterDelayedWork, InAt, WorkNext
  <2>8. UNCHANGED <<have_work_, messages, posting, requested>>
    BY <2>5 DEF windows
  <2> QED
    BY <1>2, <2>2, <2>3, <2>6, <2>7, <2>8, Quiet
<1>7. CASE DoIdleWork \/ RunReturns
  <2> DEFINE f == [Head(stack) EXCEPT !.at = "peek"]
  <2>1. stack' = Tail(stack) \/ stack' = <<f>> \o Tail(stack)
    BY <1>7 DEF DoIdleWork, RunReturns
  <2>2. f \in RunState
    BY <1>2 DEF RunState
  <2> HIDE DEF f
  <2>3. stack' \in Seq(Frame) /\ Clean(stack')
    BY <1>2, <1>3, <2>1, <2>2
  <2>4. UNCHANGED <<have_work_, windows, timer, delayed_work_time_, queues, nestable, posting,
                    requested>>
    BY <1>7 DEF DoIdleWork, RunReturns
  <2>5. TypeOK'
    BY <2>3, <2>4 DEF TypeOK, windows, queues
  <2>6. ~WorkNext(stack)
    BY <1>1, <1>7 DEF DoIdleWork, RunReturns, AtStation, InAt, In, WorkNext
  <2>7. UNCHANGED <<have_work_, messages, posting, requested>>
    BY <2>4 DEF windows
  <2> QED
    BY <1>2, <2>3, <2>5, <2>6, <2>7, Quiet
<1> QED
  BY <1>4, <1>5, <1>6, <1>7

-----------------------------------------------------------------------------
(* The invariant *)

LEMMA InitInv == Init => IInv
<1> SUFFICES ASSUME Init PROVE IInv
  OBVIOUS
<1>1. ~Taken /\ Shape /\ Served
  BY DEF Init, Taken, In, Shape, Served
<1>2. OnePlace
  BY <1>1 DEF Init, OnePlace
<1> QED
  BY <1>1, <1>2 DEF IInv

LEMMA NextInv == TypeOK /\ IInv /\ [Next]_vars => TypeOK' /\ IInv'
<1> SUFFICES ASSUME TypeOK, IInv, [Next]_vars
             PROVE  TypeOK' /\ IInv'
  OBVIOUS
<1>1. CASE \E p \in Poster :
             \/ \E isDelayed \in BOOLEAN : AddToIncomingQueue(p, isDelayed)
             \/ ExchangeHaveWork(p) \/ PostHaveWork(p)
  BY <1>1, PosterSteps
<1>2. CASE ClientCode
  BY <1>2, ClientSteps
<1>3. CASE Pump
  BY <1>3, DispatchStep, PeekReplacementStep, ResetStep, ReplacementStep, HandlerSteps,
     PeekStep, RunSteps DEF Pump
<1>4. CASE UNCHANGED vars
  <2>1. TypeOK'
    BY <1>4 DEF TypeOK, vars, windows, queues
  <2>2. OnePlace'
    BY <1>4 DEF IInv, OnePlace, Taken, In, vars, windows, queues
  <2>3. Shape' /\ Served'
    BY <1>4 DEF IInv, Shape, Served, In, vars, windows, queues
  <2> QED
    BY <2>1, <2>2, <2>3 DEF IInv
<1> QED
  BY <1>1, <1>2, <1>3, <1>4 DEF Next

LEMMA Inductive == Spec => [](TypeOK /\ IInv)
<1>1. Init => TypeOK /\ IInv
  BY InitTypes, InitInv
<1>2. (TypeOK /\ IInv) /\ [Next]_vars => (TypeOK /\ IInv)'
  BY NextInv
<1> QED
  BY <1>1, <1>2, PTL DEF Spec

LEMMA OnePlaceImplies == TypeOK /\ IInv => OneWorkMessage
<1> SUFFICES ASSUME TypeOK, IInv PROVE OneWorkMessage
  OBVIOUS
<1>1. messages \in {0, 1}
  BY DEF IInv, OnePlace
<1>2. "queue" \in WorkMessages <=> messages = 1
  BY <1>1, PumpAssumption DEF WorkMessages
<1>3. "pump" \in WorkMessages <=> Taken
  BY PumpAssumption DEF WorkMessages, Taken
<1>4. \A p \in Poster : p \in WorkMessages <=> posting[p] = "post"
  BY PumpAssumption DEF WorkMessages
<1>5. \A m \in WorkMessages : m = "queue" \/ m = "pump" \/ m \in Poster
  BY DEF WorkMessages
<1>6. \A m, n \in WorkMessages : m = n
  BY <1>2, <1>3, <1>4, <1>5 DEF IInv, OnePlace
<1>7. have_work_ <=> WorkMessages # {}
  <2>1. have_work_ => WorkMessages # {}
    BY <1>2, <1>3, <1>4 DEF IInv, OnePlace
  <2>2. WorkMessages # {} => have_work_
    BY <1>2, <1>3, <1>4, <1>5 DEF IInv, OnePlace
  <2> QED
    BY <2>1, <2>2
<1> QED
  BY <1>1, <1>6, <1>7 DEF OneWorkMessage

LEMMA ServedImplies == TypeOK /\ IInv => NativeLoopServed
<1> SUFFICES ASSUME TypeOK, IInv, In("native"), requested
             PROVE  messages > 0 \/ \E p \in Poster : posting[p] = "post"
  BY DEF NativeLoopServed
<1>1. ~Taken /\ ~In("schedule") /\ ~WorkNext(stack)
  BY DEF Taken, In, WorkNext
<1> QED
  BY <1>1 DEF IInv, Served, OnePlace

-----------------------------------------------------------------------------

\* Every variable of the pump keeps its type.
THEOREM TypeCorrect == Spec => []TypeOK
  BY Inductive, PTL

\* There is at most one kMsgHaveWork, and have_work_ (message_pump_win.cpp) is set
\* exactly as long as there is one.
THEOREM OneMessage == Spec => []OneWorkMessage
  BY Inductive, OnePlaceImplies, PTL

\* Whoever called ScheduleWork is served in every native loop.
THEOREM NativeLoopsAreServed == Spec => []NativeLoopServed
  BY Inductive, ServedImplies, PTL

=============================================================================
