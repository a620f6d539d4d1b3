------------------------ MODULE PostTaskAndReplyProofs ------------------------
(***************************************************************************)
(* For any number of loops and relays: a relay has one user at a time, is  *)
(* deleted on the thread it was made on, its proxy outlives the posts made *)
(* through it, it leaks only when one of its two loops goes, and nobody    *)
(* waits for a proxy's lock in a circle.                                   *)
(***************************************************************************)
EXTENDS PostTaskAndReply, SequenceTheorems, TLAPS

\* The positions of a relay in the queue of a loop, and in the tasks and replies
\* of its thread.
Queued == [r \in Relay |-> [l \in Loop |->
  {i \in Nat : i \in DOMAIN queue[l] /\ queue[l][i].relay = r}]]

Held == [r \in Relay |-> [l \in Loop |->
  {i \in Nat : i \in DOMAIN stack[l] /\ stack[l][i].relay = r /\ stack[l][i].at # "posting"}]]

\* The relays that have a place.
Placed == {r \in Relay : \E l \in Loop : \E i \in Nat : i \in Queued[r][l] \/ i \in Held[r][l]}

Alive == {r \in Relay : Live(r)}

\* RelayHasOneUser, without sets of places.
OneUser ==
  \A r \in Relay : \A l, m \in Loop : \A i, j \in Nat :
    /\ i \in Queued[r][l] \/ i \in Held[r][l] => Live(r)
    /\ i \in Queued[r][l] /\ j \in Queued[r][m] => l = m /\ i = j
    /\ i \in Held[r][l] /\ j \in Held[r][m] => l = m /\ i = j
    /\ ~(i \in Queued[r][l] /\ j \in Held[r][m])

\* A task goes to the relay's target and is run there, a reply to its origin.
AtHome ==
  /\ \A l \in Loop : \A i \in DOMAIN queue[l] :
       l = IF queue[l][i].reply THEN origin[queue[l][i].relay]
                                ELSE target[queue[l][i].relay]
  /\ \A l \in Loop : \A i \in DOMAIN stack[l] :
       /\ origin[stack[l][i].relay] # NULL
       /\ stack[l][i].at = "task" => l = target[stack[l][i].relay]
       /\ stack[l][i].at = "reply" => l = origin[stack[l][i].relay]
  /\ \A r \in Relay : origin[r] # NULL => target[r] # NULL
  /\ \A r \in Relay : origin[r] = NULL => released[r] = NULL
  /\ \A l \in Loop : stack[l] # <<>> => life[l] = "running"

\* The lock of a proxy is held by the thread that posts a reply through it; if
\* the loop had gone by then, nobody has the relay any more, and it stays.
LocksHeld ==
  \A l \in Loop : lock[l] # NULL =>
    LET t == lock[l]
        r == Head(stack[t]).relay IN
      /\ At(t, "posting")
      /\ origin[r] = l
      /\ Attached(l) \/ r \in Alive \ Placed

\* LeakExplained, without sets of places.
Explained ==
  \A r \in Relay : Live(r) /\ r \notin Placed =>
    life[origin[r]] # "running" \/ life[target[r]] # "running"

IInv == OneUser /\ AtHome /\ LocksHeld /\ Explained

-----------------------------------------------------------------------------
(* Sequences *)

\* An element in front of a sequence.
LEMMA PushFront ==
  ASSUME NEW S, NEW s \in Seq(S), NEW e \in S
  PROVE  /\ <<e>> \o s \in Seq(S)
         /\ <<e>> \o s # <<>>
         /\ Len(<<e>> \o s) = Len(s) + 1
         /\ Head(<<e>> \o s) = e
         /\ (<<e>> \o s)[1] = e
         /\ \A i \in Nat : i \in DOMAIN (<<e>> \o s) <=> i = 1 \/ (i > 1 /\ i - 1 \in DOMAIN s)
         /\ \A i \in DOMAIN s : (<<e>> \o s)[i + 1] = s[i]
<1>1. <<e>> \in Seq(S) /\ Len(<<e>>) = 1 /\ <<e>>[1] = e
  OBVIOUS
<1>2. /\ <<e>> \o s \in Seq(S)
      /\ Len(<<e>> \o s) = 1 + Len(s)
      /\ \A i \in 1 .. 1 + Len(s) :
           (<<e>> \o s)[i] = IF i <= 1 THEN <<e>>[i] ELSE s[i - 1]
  BY <1>1, ConcatProperties
<1>3. DOMAIN (<<e>> \o s) = 1 .. 1 + Len(s) /\ DOMAIN s = 1 .. Len(s) /\ Len(s) \in Nat
  BY <1>2, LenProperties
<1>4. <<e>> \o s # <<>>
  BY <1>2, <1>3
<1>5. (<<e>> \o s)[1] = e
  BY <1>1, <1>2, <1>3
<1>6. Head(<<e>> \o s) = e
  BY <1>2, <1>4, <1>5
<1>7. ASSUME NEW i \in DOMAIN s PROVE (<<e>> \o s)[i + 1] = s[i]
  BY <1>2, <1>3
<1> QED
  BY <1>2, <1>3, <1>4, <1>5, <1>6, <1>7

\* A sequence without its head.
LEMMA PopFront ==
  ASSUME NEW S, NEW s \in Seq(S), s # <<>>
  PROVE  /\ Tail(s) \in Seq(S)
         /\ Head(s) \in S
         /\ Head(s) = s[1] /\ 1 \in DOMAIN s
         /\ \A i \in Nat : i \in DOMAIN Tail(s) <=> i > 0 /\ i + 1 \in DOMAIN s
         /\ \A i \in DOMAIN Tail(s) : Tail(s)[i] = s[i + 1]
<1>1. /\ Tail(s) \in Seq(S) /\ Head(s) \in S
      /\ Len(Tail(s)) = Len(s) - 1
      /\ \A i \in 1 .. Len(Tail(s)) : Tail(s)[i] = s[i + 1]
  BY HeadTailProperties
<1>2. DOMAIN Tail(s) = 1 .. Len(s) - 1 /\ DOMAIN s = 1 .. Len(s) /\ Len(s) \in Nat \ {0}
  BY <1>1, LenProperties, EmptySeq
<1> QED
  BY <1>1, <1>2

\* An element behind a sequence.
LEMMA PushBack ==
  ASSUME NEW S, NEW s \in Seq(S), NEW e \in S
  PROVE  /\ Append(s, e) \in Seq(S)
         /\ Len(s) + 1 \in Nat \ {0}
         /\ Len(s) + 1 \notin DOMAIN s
         /\ \A i : i \in DOMAIN Append(s, e) <=> i \in DOMAIN s \/ i = Len(s) + 1
         /\ \A i \in DOMAIN s : Append(s, e)[i] = s[i]
         /\ Append(s, e)[Len(s) + 1] = e
<1>1. /\ Append(s, e) \in Seq(S)
      /\ Len(Append(s, e)) = Len(s) + 1
      /\ \A i \in 1 .. Len(s) : Append(s, e)[i] = s[i]
      /\ Append(s, e)[Len(s) + 1] = e
  BY AppendProperties
<1>2. DOMAIN Append(s, e) = 1 .. Len(s) + 1 /\ DOMAIN s = 1 .. Len(s) /\ Len(s) \in Nat
  BY <1>1, LenProperties
<1> QED
  BY <1>1, <1>2

LEMMA EmptySequence == DOMAIN <<>> = {}
  OBVIOUS

-----------------------------------------------------------------------------
(* Types *)

LEMMA Disjuncts ==
  ASSUME Next
  PROVE  \E t \in Loop :
           \/ RunTask(t) \/ PostReply(t) \/ PostReturns(t) \/ SelfDestruct(t)
           \/ WillDestroyCurrentMessageLoop(t) \/ DestroyMembers(t) \/ DeletePendingTasks(t)
           \/ \E l \in Loop, r \in Relay : PostTaskAndReply(t, l, r)
  BY DEF Next, Step

LEMMA InitTypes == Init => TypeOK
  BY DEF Init, TypeOK

\* The queue of l gets one more relay, or none.
LEMMA PushTypes ==
  ASSUME TypeOK, NEW l \in Loop, NEW r \in Relay, NEW reply \in BOOLEAN, Push(l, r, reply)
  PROVE  queue' \in [Loop -> Seq(Pending)]
<1>1. [relay |-> r, reply |-> reply] \in Pending
  BY DEF Pending
<1>2. Append(queue[l], [relay |-> r, reply |-> reply]) \in Seq(Pending)
  BY <1>1, PushBack DEF TypeOK
<1> QED
  BY <1>2 DEF TypeOK, Push

\* The first frame of a thread is left as it was but for where it is.
LEMMA FirstFrame ==
  ASSUME TypeOK, NEW t \in Loop, stack[t] # <<>>,
         stack' = [stack EXCEPT ![t][1].at = "posting"]
  PROVE  /\ stack' \in [Loop -> Seq(Frame)]
         /\ DOMAIN stack'[t] = DOMAIN stack[t] /\ 1 \in DOMAIN stack[t]
         /\ stack'[t][1].relay = Head(stack[t]).relay /\ stack'[t][1].at = "posting"
         /\ Head(stack'[t]) = stack'[t][1] /\ stack'[t] # <<>>
         /\ \A i \in DOMAIN stack[t] : i # 1 => stack'[t][i] = stack[t][i]
         /\ \A l \in Loop : l # t => stack'[l] = stack[l]
<1> DEFINE s == [stack[t] EXCEPT ![1].at = "posting"]
<1>1. stack[t] \in Seq(Frame) /\ stack \in [Loop -> Seq(Frame)]
  BY DEF TypeOK
<1>2. 1 \in DOMAIN stack[t] /\ Head(stack[t]) = stack[t][1] /\ stack[t][1] \in Frame
  BY <1>1, PopFront
<1>3. [stack[t][1] EXCEPT !.at = "posting"] = [relay |-> stack[t][1].relay, at |-> "posting"]
  BY <1>2 DEF Frame
<1>4. [relay |-> stack[t][1].relay, at |-> "posting"] \in Frame
  BY <1>2 DEF Frame
<1>5. s = [stack[t] EXCEPT ![1] = [relay |-> stack[t][1].relay, at |-> "posting"]]
  BY <1>3
<1>6. /\ s \in Seq(Frame)
      /\ DOMAIN s = DOMAIN stack[t]
      /\ s[1] = [relay |-> stack[t][1].relay, at |-> "posting"]
      /\ \A i \in DOMAIN stack[t] : i # 1 => s[i] = stack[t][i]
  <2>1. s \in Seq(Frame) /\ Len(s) = Len(stack[t])
    BY <1>1, <1>2, <1>4, <1>5, ExceptSeq
  <2>2. DOMAIN s = DOMAIN stack[t]
    BY <1>5
  <2> QED
    BY <1>2, <1>5, <2>1, <2>2
<1>7. s # <<>> /\ Head(s) = s[1]
  <2>1. s # <<>>
    BY <1>2, <1>6
  <2> QED
    BY <1>6, <2>1, PopFront
<1>8. stack' = [stack EXCEPT ![t] = s]
  BY <1>1
<1>9. stack'[t] = s /\ \A l \in Loop : l # t => stack'[l] = stack[l]
  BY <1>1, <1>8
<1>10. stack' \in [Loop -> Seq(Frame)]
  BY <1>1, <1>6, <1>8
<1> HIDE DEF s
<1> QED
  BY <1>2, <1>6, <1>7, <1>9, <1>10

-----------------------------------------------------------------------------
(* What an action does to the places of the relays *)

LEMMA QueuedDef ==
  ASSUME NEW r \in Relay, NEW l \in Loop, NEW i \in Nat
  PROVE  /\ i \in Queued[r][l] <=> i \in DOMAIN queue[l] /\ queue[l][i].relay = r
         /\ i \in Held[r][l] <=>
              i \in DOMAIN stack[l] /\ stack[l][i].relay = r /\ stack[l][i].at # "posting"
  BY DEF Queued, Held

LEMMA QueuedDefNext ==
  ASSUME NEW r \in Relay, NEW l \in Loop, NEW i \in Nat
  PROVE  /\ i \in Queued'[r][l] <=> i \in DOMAIN queue'[l] /\ queue'[l][i].relay = r
         /\ i \in Held'[r][l] <=>
              i \in DOMAIN stack'[l] /\ stack'[l][i].relay = r /\ stack'[l][i].at # "posting"
  BY DEF Queued, Held

LEMMA Typed ==
  /\ \A p \in Pending : p.relay \in Relay /\ p.reply \in BOOLEAN
  /\ \A f \in Frame : f.relay \in Relay /\ f.at \in {"task", "posting", "reply"}
  BY DEF Pending, Frame

LEMMA RunTaskMoves ==
  ASSUME TypeOK, NEW t \in Loop, RunTask(t)
  PROVE  /\ queue' \in [Loop -> Seq(Pending)] /\ stack' \in [Loop -> Seq(Frame)]
         /\ Head(queue[t]) \in Pending /\ 1 \in Queued[Head(queue[t]).relay][t]
         /\ \A r \in Relay, l \in Loop, i \in Nat :
              /\ i \in Queued'[r][l] <=>
                   IF l = t THEN i > 0 /\ i + 1 \in Queued[r][t] ELSE i \in Queued[r][l]
              /\ i \in Held'[r][l] <=>
                   \/ i = 1 /\ l = t /\ r = Head(queue[t]).relay
                   \/ i > 1 /\ l = t /\ i - 1 \in Held[r][t]
                   \/ l # t /\ i \in Held[r][l]
<1> DEFINE first == Head(queue[t])
           frame == [relay |-> first.relay, at |-> IF first.reply THEN "reply" ELSE "task"]
<1>1. /\ queue[t] \in Seq(Pending) /\ queue[t] # <<>>
      /\ queue' = [queue EXCEPT ![t] = Tail(queue[t])]
      /\ stack[t] \in Seq(Frame)
      /\ stack' = [stack EXCEPT ![t] = <<frame>> \o stack[t]]
  BY DEF RunTask, TypeOK
<1>2. first \in Pending /\ frame \in Frame
  <2>1. first \in Pending
    BY <1>1, PopFront
  <2> HIDE DEF first
  <2> QED
    BY <2>1 DEF Pending, Frame
<1>3. queue' \in [Loop -> Seq(Pending)]
  BY <1>1, PopFront DEF TypeOK
<1>4. stack' \in [Loop -> Seq(Frame)]
  BY <1>1, <1>2, PushFront DEF TypeOK
<1>5. /\ queue'[t] = Tail(queue[t]) /\ stack'[t] = <<frame>> \o stack[t]
      /\ \A l \in Loop : l # t => queue'[l] = queue[l] /\ stack'[l] = stack[l]
  BY <1>1 DEF TypeOK
<1>6. 1 \in Queued[first.relay][t]
  BY <1>1, <1>2, PopFront, QueuedDef DEF Pending
<1>7. ASSUME NEW r \in Relay, NEW l \in Loop, NEW i \in Nat
      PROVE  i \in Queued'[r][l] <=>
               IF l = t THEN i > 0 /\ i + 1 \in Queued[r][t] ELSE i \in Queued[r][l]
  <2>1. CASE l = t
    <3>1. /\ \A j \in Nat : j \in DOMAIN Tail(queue[t]) <=> j > 0 /\ j + 1 \in DOMAIN queue[t]
          /\ \A j \in DOMAIN Tail(queue[t]) : Tail(queue[t])[j] = queue[t][j + 1]
      BY <1>1, PopFront
    <3>2. i + 1 \in Nat
      OBVIOUS
    <3>3. i + 1 \in Queued[r][t] <=>
            i + 1 \in DOMAIN queue[t] /\ queue[t][i + 1].relay = r
      BY <3>2, QueuedDef
    <3>4. i \in Queued'[r][t] <=> i \in DOMAIN queue'[t] /\ queue'[t][i].relay = r
      BY QueuedDefNext
    <3>5. queue'[t] = Tail(queue[t])
      BY <1>5
    <3> QED
      BY <2>1, <3>1, <3>3, <3>4, <3>5
  <2>2. CASE l # t
    BY <1>5, <2>2, QueuedDef, QueuedDefNext
  <2> QED
    BY <2>1, <2>2
<1>8. ASSUME NEW r \in Relay, NEW i \in Nat
      PROVE  i \in Held'[r][t] <=> (i = 1 /\ r = first.relay) \/ (i > 1 /\ i - 1 \in Held[r][t])
  <2>1. CASE i = 1
    BY <1>1, <1>2, <1>5, <2>1, PushFront, QueuedDef, QueuedDefNext
  <2>2. CASE i # 1
    BY <1>1, <1>2, <1>5, <2>2, PushFront, QueuedDef, QueuedDefNext
  <2> QED
    BY <2>1, <2>2
<1>9. ASSUME NEW r \in Relay, NEW l \in Loop, NEW i \in Nat, l # t
      PROVE  i \in Held'[r][l] <=> i \in Held[r][l]
  BY <1>5, <1>9, QueuedDef, QueuedDefNext
<1> HIDE DEF first, frame
<1> QED
  BY <1>2, <1>3, <1>4, <1>6, <1>7, <1>8, <1>9 DEF first

\* A thread leaves a task, a post or a reply.
LEMMA PopMoves ==
  ASSUME TypeOK, NEW t \in Loop, stack[t] # <<>>,
         stack' = [stack EXCEPT ![t] = Tail(@)]
  PROVE  /\ stack' \in [Loop -> Seq(Frame)]
         /\ Head(stack[t]) \in Frame
         /\ Head(stack[t]).at # "posting" => 1 \in Held[Head(stack[t]).relay][t]
         /\ \A r \in Relay, l \in Loop, i \in Nat :
              i \in Held'[r][l] <=>
                IF l = t THEN i > 0 /\ i + 1 \in Held[r][t] ELSE i \in Held[r][l]
         /\ \A l \in Loop : \A i \in DOMAIN stack'[l] :
              \E j \in DOMAIN stack[l] : stack'[l][i] = stack[l][j]
         /\ \A l \in Loop : l # t => stack'[l] = stack[l]
<1>1. /\ stack[t] \in Seq(Frame) /\ stack'[t] = Tail(stack[t])
      /\ \A l \in Loop : l # t => stack'[l] = stack[l]
  BY DEF TypeOK
<1>2. /\ Tail(stack[t]) \in Seq(Frame)
      /\ Head(stack[t]) \in Frame
      /\ Head(stack[t]) = stack[t][1] /\ 1 \in DOMAIN stack[t]
      /\ \A i \in Nat : i \in DOMAIN Tail(stack[t]) <=> i > 0 /\ i + 1 \in DOMAIN stack[t]
      /\ \A i \in DOMAIN Tail(stack[t]) : Tail(stack[t])[i] = stack[t][i + 1]
  BY <1>1, PopFront
<1>3. stack' \in [Loop -> Seq(Frame)]
  BY <1>1, <1>2 DEF TypeOK
<1>4. Head(stack[t]).at # "posting" => 1 \in Held[Head(stack[t]).relay][t]
  BY <1>2, Typed, QueuedDef
<1>5. ASSUME NEW r \in Relay, NEW i \in Nat
      PROVE  i \in Held'[r][t] <=> i > 0 /\ i + 1 \in Held[r][t]
  <2>1. /\ i \in Held'[r][t] <=>
             i \in DOMAIN stack'[t] /\ stack'[t][i].relay = r /\ stack'[t][i].at # "posting"
        /\ i + 1 \in Held[r][t] <=>
             /\ i + 1 \in DOMAIN stack[t] /\ stack[t][i + 1].relay = r
             /\ stack[t][i + 1].at # "posting"
    BY QueuedDef, QueuedDefNext
  <2> QED
    BY <1>1, <1>2, <2>1
<1>6. ASSUME NEW r \in Relay, NEW l \in Loop, NEW i \in Nat, l # t
      PROVE  i \in Held'[r][l] <=> i \in Held[r][l]
  BY <1>1, <1>6, QueuedDef, QueuedDefNext
<1>7. ASSUME NEW l \in Loop, NEW i \in DOMAIN stack'[l]
      PROVE  \E j \in DOMAIN stack[l] : stack'[l][i] = stack[l][j]
  <2>1. CASE l = t
    <3>1. i \in Nat
      BY <1>1, <1>2, <2>1, LenProperties
    <3> QED
      BY <1>1, <1>2, <2>1, <3>1
  <2>2. CASE l # t
    BY <1>1, <2>2
  <2> QED
    BY <2>1, <2>2
<1> QED
  BY <1>1, <1>2, <1>3, <1>4, <1>5, <1>6, <1>7

\* An entry is posted to the loop l, if its proxy accepts it.
LEMMA EntryMoves ==
  ASSUME TypeOK, NEW l \in Loop, NEW e \in Pending,
         queue' = IF Attached(l) THEN [queue EXCEPT ![l] = Append(@, e)] ELSE queue
  PROVE  /\ queue' \in [Loop -> Seq(Pending)]
         /\ Len(queue[l]) + 1 \in Nat
         /\ \A q \in Relay, m \in Loop, i \in Nat :
              i \in Queued'[q][m] <=>
                \/ i \in Queued[q][m]
                \/ Attached(l) /\ q = e.relay /\ m = l /\ i = Len(queue[l]) + 1
         /\ \A m \in Loop : \A i \in DOMAIN queue'[m] :
              \/ i \in DOMAIN queue[m] /\ queue'[m][i] = queue[m][i]
              \/ m = l /\ queue'[m][i] = e
<1>1. queue[l] \in Seq(Pending)
  BY DEF TypeOK
<1>2. /\ Append(queue[l], e) \in Seq(Pending)
      /\ Len(queue[l]) + 1 \in Nat \ {0}
      /\ Len(queue[l]) + 1 \notin DOMAIN queue[l]
      /\ \A i : i \in DOMAIN Append(queue[l], e) <=>
                 i \in DOMAIN queue[l] \/ i = Len(queue[l]) + 1
      /\ \A i \in DOMAIN queue[l] : Append(queue[l], e)[i] = queue[l][i]
      /\ Append(queue[l], e)[Len(queue[l]) + 1] = e
  BY <1>1, PushBack
<1>3. CASE Attached(l)
  <2>1. /\ queue'[l] = Append(queue[l], e)
        /\ \A m \in Loop : m # l => queue'[m] = queue[m]
        /\ queue' \in [Loop -> Seq(Pending)]
    BY <1>2, <1>3 DEF TypeOK
  <2>2. ASSUME NEW q \in Relay, NEW i \in Nat
        PROVE  i \in Queued'[q][l] <=> i \in Queued[q][l] \/ (q = e.relay /\ i = Len(queue[l]) + 1)
    <3>1. /\ i \in Queued'[q][l] <=> i \in DOMAIN queue'[l] /\ queue'[l][i].relay = q
          /\ i \in Queued[q][l] <=> i \in DOMAIN queue[l] /\ queue[l][i].relay = q
      BY QueuedDef, QueuedDefNext
    <3>2. CASE i = Len(queue[l]) + 1
      BY <1>2, <2>1, <3>1, <3>2
    <3>3. CASE i # Len(queue[l]) + 1
      BY <1>2, <2>1, <3>1, <3>3
    <3> QED
      BY <3>2, <3>3
  <2>3. ASSUME NEW q \in Relay, NEW m \in Loop, NEW i \in Nat, m # l
        PROVE  i \in Queued'[q][m] <=> i \in Queued[q][m]
    BY <2>1, <2>3, QueuedDef, QueuedDefNext
  <2>4. ASSUME NEW m \in Loop, NEW i \in DOMAIN queue'[m]
        PROVE  \/ i \in DOMAIN queue[m] /\ queue'[m][i] = queue[m][i]
               \/ m = l /\ queue'[m][i] = e
    BY <1>2, <2>1
  <2> QED
    BY <1>2, <1>3, <2>1, <2>2, <2>3, <2>4
<1>4. CASE ~Attached(l)
  <2>1. queue' = queue
    BY <1>4
  <2>2. Queued' = Queued
    BY <2>1 DEF Queued
  <2> QED
    BY <1>2, <1>4, <2>1, <2>2 DEF TypeOK
<1> QED
  BY <1>3, <1>4

\* A relay is posted to the loop l, if its proxy accepts it.
LEMMA PushMoves ==
  ASSUME TypeOK, NEW l \in Loop, NEW r \in Relay, NEW reply \in BOOLEAN, Push(l, r, reply)
  PROVE  /\ queue' \in [Loop -> Seq(Pending)]
         /\ Len(queue[l]) + 1 \in Nat
         /\ \A q \in Relay, m \in Loop, i \in Nat :
              i \in Queued'[q][m] <=>
                \/ i \in Queued[q][m]
                \/ Attached(l) /\ q = r /\ m = l /\ i = Len(queue[l]) + 1
<1> DEFINE e == [relay |-> r, reply |-> reply]
<1>1. e \in Pending /\ e.relay = r
  BY DEF Pending
<1>2. queue' = IF Attached(l) THEN [queue EXCEPT ![l] = Append(@, e)] ELSE queue
  BY DEF Push
<1> HIDE DEF e
<1> QED
  <2>1. /\ queue' \in [Loop -> Seq(Pending)]
        /\ Len(queue[l]) + 1 \in Nat
        /\ \A q \in Relay, m \in Loop, i \in Nat :
             i \in Queued'[q][m] <=>
               \/ i \in Queued[q][m]
               \/ Attached(l) /\ q = e.relay /\ m = l /\ i = Len(queue[l]) + 1
    BY <1>1, <1>2, EntryMoves
  <2> QED
    BY <1>1, <2>1

\* The queue of a loop is dropped.
LEMMA DropMoves ==
  ASSUME TypeOK, NEW l \in Loop, queue' = [queue EXCEPT ![l] = <<>>]
  PROVE  /\ queue' \in [Loop -> Seq(Pending)]
         /\ \A r \in Relay, m \in Loop, i \in Nat :
              i \in Queued'[r][m] <=> m # l /\ i \in Queued[r][m]
         /\ \A m \in Loop : \A i \in DOMAIN queue'[m] :
              i \in DOMAIN queue[m] /\ queue'[m][i] = queue[m][i]
<1>1. /\ queue' \in [Loop -> Seq(Pending)]
      /\ queue'[l] = <<>> /\ \A m \in Loop : m # l => queue'[m] = queue[m]
  BY DEF TypeOK
<1>2. DOMAIN queue'[l] = {}
  BY <1>1, EmptySequence
<1>3. ASSUME NEW r \in Relay, NEW m \in Loop, NEW i \in Nat
      PROVE  i \in Queued'[r][m] <=> m # l /\ i \in Queued[r][m]
  BY <1>1, <1>2, QueuedDef, QueuedDefNext
<1> QED
  BY <1>1, <1>2, <1>3

\* The task of a thread has returned, and its relay is being posted.
LEMMA PostingMoves ==
  ASSUME TypeOK, NEW t \in Loop, stack[t] # <<>>,
         stack' = [stack EXCEPT ![t][1].at = "posting"]
  PROVE  \A r \in Relay, l \in Loop, i \in Nat :
           i \in Held'[r][l] <=> i \in Held[r][l] /\ ~(l = t /\ i = 1)
<1>1. ASSUME NEW r \in Relay, NEW i \in Nat
      PROVE  i \in Held'[r][t] <=> i \in Held[r][t] /\ i # 1
  <2>1. /\ i \in Held'[r][t] <=>
             i \in DOMAIN stack'[t] /\ stack'[t][i].relay = r /\ stack'[t][i].at # "posting"
        /\ i \in Held[r][t] <=>
             i \in DOMAIN stack[t] /\ stack[t][i].relay = r /\ stack[t][i].at # "posting"
    BY QueuedDef, QueuedDefNext
  <2>2. /\ DOMAIN stack'[t] = DOMAIN stack[t]
        /\ stack'[t][1].at = "posting"
        /\ \A j \in DOMAIN stack[t] : j # 1 => stack'[t][j] = stack[t][j]
    BY FirstFrame
  <2> QED
    BY <2>1, <2>2
<1>2. ASSUME NEW r \in Relay, NEW l \in Loop, NEW i \in Nat, l # t
      PROVE  i \in Held'[r][l] <=> i \in Held[r][l]
  BY <1>2, FirstFrame, QueuedDef, QueuedDefNext
<1> QED
  BY <1>1, <1>2

LEMMA RunTaskOneUser ==
  ASSUME TypeOK, IInv, NEW t \in Loop, RunTask(t)
  PROVE  OneUser'
<1> DEFINE first == Head(queue[t]).relay
<1>1. origin' = origin /\ released' = released
  BY DEF RunTask
<1>2. first \in Relay /\ 1 \in Queued[first][t]
  BY RunTaskMoves, Typed
<1> HIDE DEF first
<1> SUFFICES ASSUME NEW r \in Relay, NEW l \in Loop, NEW m \in Loop, NEW i \in Nat, NEW j \in Nat
             PROVE  /\ i \in Queued'[r][l] \/ i \in Held'[r][l] => Live(r)
                    /\ i \in Queued'[r][l] /\ j \in Queued'[r][m] => l = m /\ i = j
                    /\ i \in Held'[r][l] /\ j \in Held'[r][m] => l = m /\ i = j
                    /\ ~(i \in Queued'[r][l] /\ j \in Held'[r][m])
  BY <1>1 DEF OneUser, Live
<1>3. \A k \in Loop, n \in Nat :
        /\ n \in Queued'[r][k] =>
             \/ k = t /\ n > 0 /\ n + 1 \in Nat /\ n + 1 \in Queued[r][t]
             \/ k # t /\ n \in Queued[r][k]
        /\ n \in Held'[r][k] =>
             \/ n = 1 /\ k = t /\ r = first
             \/ n > 1 /\ k = t /\ n - 1 \in Nat /\ n - 1 \in Held[r][t]
             \/ k # t /\ n \in Held[r][k]
  BY RunTaskMoves DEF first
<1>4. \A k, h \in Loop, n, o \in Nat :
        /\ n \in Queued[r][k] \/ n \in Held[r][k] => Live(r)
        /\ n \in Queued[r][k] /\ o \in Queued[r][h] => k = h /\ n = o
        /\ n \in Held[r][k] /\ o \in Held[r][h] => k = h /\ n = o
        /\ ~(n \in Queued[r][k] /\ o \in Held[r][h])
  BY DEF IInv, OneUser
<1>5. i \in Queued'[r][l] \/ i \in Held'[r][l] => Live(r)
  BY <1>2, <1>3, <1>4
<1>6. i \in Queued'[r][l] /\ j \in Queued'[r][m] => l = m /\ i = j
  BY <1>3, <1>4
<1>7. i \in Held'[r][l] /\ j \in Held'[r][m] => l = m /\ i = j
  BY <1>2, <1>3, <1>4
<1>8. ~(i \in Queued'[r][l] /\ j \in Held'[r][m])
  BY <1>2, <1>3, <1>4
<1> QED
  BY <1>5, <1>6, <1>7, <1>8

-----------------------------------------------------------------------------
(* Each action keeps the types *)

LEMMA StepTypes ==
  ASSUME TypeOK, [Next]_vars
  PROVE  TypeOK'
<1>1. ASSUME NEW t \in Loop, RunTask(t) PROVE TypeOK'
  BY <1>1, RunTaskMoves DEF TypeOK, RunTask
<1>2. ASSUME NEW t \in Loop, PostReply(t) PROVE TypeOK'
  <2> DEFINE r == Head(stack[t]).relay
  <2>1. stack[t] \in Seq(Frame) /\ stack[t] # <<>>
    BY <1>2 DEF PostReply, At, TypeOK
  <2>2. Head(stack[t]) \in Frame
    BY <2>1, PopFront
  <2>3. r \in Relay
    BY <2>2, Typed
  <2>4. lock[ReplyTo(r)] = NULL /\ Push(ReplyTo(r), r, TRUE)
        /\ lock' = [lock EXCEPT ![ReplyTo(r)] = t]
        /\ stack' = [stack EXCEPT ![t][1].at = "posting"]
        /\ UNCHANGED <<life, origin, target, released>>
    BY <1>2 DEF PostReply
  <2> HIDE DEF r
  <2>5. lock' \in [Loop -> Loop \union {NULL}] /\ stack' \in [Loop -> Seq(Frame)]
    BY <2>1, <2>4, FirstFrame DEF TypeOK
  <2>6. queue' \in [Loop -> Seq(Pending)]
    <3>1. CASE ReplyTo(r) \in Loop
      BY <2>3, <2>4, <3>1, PushTypes
    <3>2. CASE ReplyTo(r) \notin Loop
      BY <2>4, <3>2 DEF Push, TypeOK
    <3> QED
      BY <3>1, <3>2
  <2> QED
    BY <2>4, <2>5, <2>6 DEF TypeOK
<1>3. ASSUME NEW t \in Loop, PostReturns(t) PROVE TypeOK'
  <2>1. stack' \in [Loop -> Seq(Frame)]
    BY <1>3, PopMoves DEF PostReturns, At
  <2> QED
    BY <1>3, <2>1 DEF PostReturns, TypeOK
<1>4. ASSUME NEW t \in Loop, SelfDestruct(t) PROVE TypeOK'
  <2>1. stack' \in [Loop -> Seq(Frame)]
    BY <1>4, PopMoves DEF SelfDestruct, At
  <2> QED
    BY <1>4, <2>1 DEF SelfDestruct, TypeOK
<1>5. ASSUME NEW t \in Loop, WillDestroyCurrentMessageLoop(t) PROVE TypeOK'
  BY <1>5 DEF WillDestroyCurrentMessageLoop, TypeOK
<1>6. ASSUME NEW t \in Loop, DestroyMembers(t) PROVE TypeOK'
  BY <1>6, DropMoves DEF DestroyMembers, TypeOK
<1>7. ASSUME NEW t \in Loop, DeletePendingTasks(t) PROVE TypeOK'
  BY <1>7, DropMoves DEF DeletePendingTasks, TypeOK
<1>8. ASSUME NEW t \in Loop, NEW l \in Loop, NEW r \in Relay, PostTaskAndReply(t, l, r)
      PROVE  TypeOK'
  <2>1. queue' \in [Loop -> Seq(Pending)]
    BY <1>8, PushTypes DEF PostTaskAndReply
  <2> QED
    BY <1>8, <2>1 DEF PostTaskAndReply, TypeOK
<1>9. CASE UNCHANGED vars
  BY <1>9 DEF vars, TypeOK
<1> QED
  BY <1>1, <1>2, <1>3, <1>4, <1>5, <1>6, <1>7, <1>8, <1>9, Disjuncts

-----------------------------------------------------------------------------
(* Each action keeps OneUser *)

LEMMA PostReplyOneUser ==
  ASSUME TypeOK, IInv, NEW t \in Loop, PostReply(t)
  PROVE  OneUser'
<1> DEFINE f == Head(stack[t]).relay
           h == ReplyTo(f)
<1>1. /\ stack[t] \in Seq(Frame) /\ stack[t] # <<>> /\ Head(stack[t]).at = "task"
      /\ Push(h, f, TRUE)
      /\ stack' = [stack EXCEPT ![t][1].at = "posting"]
      /\ origin' = origin /\ released' = released
  BY DEF PostReply, At, TypeOK
<1>2. f \in Relay /\ 1 \in DOMAIN stack[t] /\ stack[t][1].relay = f /\ stack[t][1].at = "task"
  BY <1>1, PopFront, Typed
<1>3. 1 \in Held[f][t]
  BY <1>2, QueuedDef
<1>4. h \in Loop
  BY <1>2 DEF IInv, AtHome, ReplyTo, TypeOK
<1> HIDE DEF f, h
<1> SUFFICES ASSUME NEW r \in Relay, NEW l \in Loop, NEW m \in Loop, NEW i \in Nat, NEW j \in Nat
             PROVE  /\ i \in Queued'[r][l] \/ i \in Held'[r][l] => Live(r)'
                    /\ i \in Queued'[r][l] /\ j \in Queued'[r][m] => l = m /\ i = j
                    /\ i \in Held'[r][l] /\ j \in Held'[r][m] => l = m /\ i = j
                    /\ ~(i \in Queued'[r][l] /\ j \in Held'[r][m])
  BY DEF OneUser
<1>5. \A k \in Loop, n \in Nat :
        /\ n \in Queued'[r][k] <=>
             n \in Queued[r][k] \/ (Attached(h) /\ r = f /\ k = h /\ n = Len(queue[h]) + 1)
        /\ n \in Held'[r][k] <=> n \in Held[r][k] /\ ~(k = t /\ n = 1)
  <2>1. \A q \in Relay, k \in Loop, n \in Nat :
          n \in Queued'[q][k] <=>
            n \in Queued[q][k] \/ (Attached(h) /\ q = f /\ k = h /\ n = Len(queue[h]) + 1)
    <3>1. f \in Relay /\ TRUE \in BOOLEAN /\ Push(h, f, TRUE)
      BY <1>1, <1>2
    <3> QED
      BY <1>4, <3>1, PushMoves
  <2>2. \A q \in Relay, k \in Loop, n \in Nat :
          n \in Held'[q][k] <=> n \in Held[q][k] /\ ~(k = t /\ n = 1)
    BY <1>1, PostingMoves
  <2> QED
    BY <2>1, <2>2
<1>6. \A k, g \in Loop, n, o \in Nat :
        /\ n \in Queued[r][k] \/ n \in Held[r][k] => Live(r)
        /\ n \in Queued[r][k] /\ o \in Queued[r][g] => k = g /\ n = o
        /\ n \in Held[r][k] /\ o \in Held[r][g] => k = g /\ n = o
        /\ ~(n \in Queued[r][k] /\ o \in Held[r][g])
  BY DEF IInv, OneUser
<1>7. Live(r)' <=> Live(r)
  BY <1>1 DEF Live
<1> QED
  BY <1>3, <1>5, <1>6, <1>7

\* A thread that leaves a post or a reply, whose relay is then released.
LEMMA PopOneUser ==
  ASSUME TypeOK, IInv, NEW t \in Loop, PostReturns(t) \/ SelfDestruct(t)
  PROVE  OneUser'
<1> DEFINE f == Head(stack[t]).relay
<1>1. /\ stack[t] \in Seq(Frame) /\ stack[t] # <<>>
      /\ stack' = [stack EXCEPT ![t] = Tail(@)]
      /\ queue' = queue /\ origin' = origin
      /\ \A q \in Relay : released'[q] = released[q] \/ (q = f /\ Head(stack[t]).at = "reply")
  BY DEF PostReturns, SelfDestruct, At, TypeOK
<1>2. f \in Relay /\ (Head(stack[t]).at # "posting" => 1 \in Held[f][t])
  BY <1>1, PopMoves, Typed
<1>3. Queued' = Queued
  BY <1>1 DEF Queued
<1> HIDE DEF f
<1> SUFFICES ASSUME NEW r \in Relay, NEW l \in Loop, NEW m \in Loop, NEW i \in Nat, NEW j \in Nat
             PROVE  /\ i \in Queued'[r][l] \/ i \in Held'[r][l] => Live(r)'
                    /\ i \in Queued'[r][l] /\ j \in Queued'[r][m] => l = m /\ i = j
                    /\ i \in Held'[r][l] /\ j \in Held'[r][m] => l = m /\ i = j
                    /\ ~(i \in Queued'[r][l] /\ j \in Held'[r][m])
  BY DEF OneUser
<1>4. \A k \in Loop, n \in Nat :
        n \in Held'[r][k] =>
          \/ k = t /\ n > 0 /\ n + 1 \in Nat /\ n + 1 \in Held[r][t]
          \/ k # t /\ n \in Held[r][k]
  <2>1. \A q \in Relay, k \in Loop, n \in Nat :
          n \in Held'[q][k] <=>
            IF k = t THEN n > 0 /\ n + 1 \in Held[q][t] ELSE n \in Held[q][k]
    BY <1>1, PopMoves
  <2> QED
    BY <2>1
<1>5. \A k, h \in Loop, n, o \in Nat :
        /\ n \in Queued[r][k] \/ n \in Held[r][k] => Live(r)
        /\ n \in Queued[r][k] /\ o \in Queued[r][h] => k = h /\ n = o
        /\ n \in Held[r][k] /\ o \in Held[r][h] => k = h /\ n = o
        /\ ~(n \in Queued[r][k] /\ o \in Held[r][h])
  BY DEF IInv, OneUser
<1>6. r # f => (Live(r)' <=> Live(r))
  BY <1>1 DEF Live
<1>7. Head(stack[t]).at # "reply" => (Live(r)' <=> Live(r))
  BY <1>1 DEF Live
<1>8. i \in Queued'[r][l] \/ i \in Held'[r][l] => Live(r)'
  BY <1>2, <1>3, <1>4, <1>5, <1>6, <1>7
<1> QED
  BY <1>3, <1>4, <1>5, <1>8

\* A queue is dropped, or nothing moves.
LEMMA DropOneUser ==
  ASSUME TypeOK, IInv, NEW t \in Loop,
         \/ queue' = [queue EXCEPT ![t] = <<>>]
         \/ queue' = queue,
         UNCHANGED <<stack, origin, released>>
  PROVE  OneUser'
<1>1. Held' = Held
  BY DEF Held
<1>2. ASSUME NEW r \in Relay PROVE Live(r)' <=> Live(r)
  BY DEF Live
<1>3. CASE queue' = queue
  <2>1. Queued' = Queued
    BY <1>3 DEF Queued
  <2> QED
    BY <1>1, <1>2, <2>1 DEF OneUser, IInv
<1>4. CASE queue' = [queue EXCEPT ![t] = <<>>]
  <2>1. \A r \in Relay, m \in Loop, i \in Nat : i \in Queued'[r][m] => i \in Queued[r][m]
    BY <1>4, DropMoves
  <2> QED
    BY <1>1, <1>2, <2>1 DEF OneUser, IInv
<1> QED
  BY <1>3, <1>4

\* A relay that was not there before gets its first place.
LEMMA NewOneUser ==
  ASSUME TypeOK, IInv, NEW t \in Loop, NEW h \in Loop, NEW f \in Relay,
         PostTaskAndReply(t, h, f)
  PROVE  OneUser'
<1>1. /\ origin[f] = NULL /\ Push(h, f, FALSE) /\ stack' = stack
      /\ origin' = [origin EXCEPT ![f] = t]
      /\ released' = [released EXCEPT ![f] = IF Attached(h) THEN NULL ELSE t]
  BY DEF PostTaskAndReply
<1>2. Held' = Held
  BY <1>1 DEF Held
<1>3. \A q \in Relay, k \in Loop, n \in Nat :
        n \in Queued'[q][k] <=>
          n \in Queued[q][k] \/ (Attached(h) /\ q = f /\ k = h /\ n = Len(queue[h]) + 1)
  BY <1>1, PushMoves
<1>4. ~Live(f) /\ (Attached(h) => Live(f)')
  BY <1>1, RelayAssumption DEF Live, TypeOK
<1>5. \A q \in Relay : q # f => (Live(q)' <=> Live(q))
  BY <1>1 DEF Live, TypeOK
<1> SUFFICES ASSUME NEW r \in Relay, NEW l \in Loop, NEW m \in Loop, NEW i \in Nat, NEW j \in Nat
             PROVE  /\ i \in Queued'[r][l] \/ i \in Held'[r][l] => Live(r)'
                    /\ i \in Queued'[r][l] /\ j \in Queued'[r][m] => l = m /\ i = j
                    /\ i \in Held'[r][l] /\ j \in Held'[r][m] => l = m /\ i = j
                    /\ ~(i \in Queued'[r][l] /\ j \in Held'[r][m])
  BY DEF OneUser
<1>6. \A k, g \in Loop, n, o \in Nat :
        /\ n \in Queued[r][k] \/ n \in Held[r][k] => Live(r)
        /\ n \in Queued[r][k] /\ o \in Queued[r][g] => k = g /\ n = o
        /\ n \in Held[r][k] /\ o \in Held[r][g] => k = g /\ n = o
        /\ ~(n \in Queued[r][k] /\ o \in Held[r][g])
  BY DEF IInv, OneUser
<1>7. CASE r = f
  BY <1>2, <1>3, <1>4, <1>6, <1>7
<1>8. CASE r # f
  BY <1>2, <1>3, <1>5, <1>6, <1>8
<1> QED
  BY <1>7, <1>8

LEMMA StepOneUser ==
  ASSUME TypeOK, IInv, [Next]_vars
  PROVE  OneUser'
<1>1. ASSUME NEW t \in Loop,
             \/ WillDestroyCurrentMessageLoop(t) \/ DestroyMembers(t) \/ DeletePendingTasks(t)
      PROVE  OneUser'
  BY <1>1, DropOneUser
     DEF WillDestroyCurrentMessageLoop, DestroyMembers, DeletePendingTasks
<1>2. CASE UNCHANGED vars
  <2>1. Queued' = Queued /\ Held' = Held
    BY <1>2 DEF vars, Queued, Held
  <2>2. ASSUME NEW r \in Relay PROVE Live(r)' <=> Live(r)
    BY <1>2 DEF vars, Live
  <2> QED
    BY <2>1, <2>2 DEF OneUser, IInv
<1> QED
  BY <1>1, <1>2, Disjuncts, RunTaskOneUser, PostReplyOneUser, PopOneUser, NewOneUser

-----------------------------------------------------------------------------
(* Which relays have a place after an action *)

LEMMA RunTaskPlaced ==
  ASSUME TypeOK, NEW t \in Loop, RunTask(t)
  PROVE  Placed' = Placed
<1>1. /\ Head(queue[t]).relay \in Relay /\ 1 \in Queued[Head(queue[t]).relay][t]
      /\ \A r \in Relay, l \in Loop, i \in Nat :
           /\ i \in Queued'[r][l] <=>
                IF l = t THEN i > 0 /\ i + 1 \in Queued[r][t] ELSE i \in Queued[r][l]
           /\ i \in Held'[r][l] <=>
                \/ i = 1 /\ l = t /\ r = Head(queue[t]).relay
                \/ i > 1 /\ l = t /\ i - 1 \in Held[r][t]
                \/ l # t /\ i \in Held[r][l]
  BY RunTaskMoves, Typed
<1>2. queue[t] \in Seq(Pending) /\ queue[t] # <<>> /\ stack[t] \in Seq(Frame)
  BY DEF RunTask, TypeOK
<1>3. ASSUME NEW r \in Placed PROVE r \in Placed'
  <2>1. PICK l \in Loop, i \in Nat : i \in Queued[r][l] \/ i \in Held[r][l]
    BY DEF Placed
  <2>2. r \in Relay
    BY DEF Placed
  <2>3. CASE l # t
    BY <1>1, <2>1, <2>2, <2>3 DEF Placed
  <2>4. CASE l = t /\ i \in Held[r][t]
    <3>1. i > 0
      BY <1>2, <2>2, <2>4, QueuedDef, LenProperties
    <3>2. i + 1 \in Nat /\ i + 1 > 1 /\ (i + 1) - 1 = i
      BY <3>1
    <3>3. i + 1 \in Held'[r][t]
      BY <1>1, <2>2, <2>4, <3>2
    <3> QED
      BY <2>2, <3>2, <3>3 DEF Placed
  <2>5. CASE l = t /\ i \in Queued[r][t] /\ i = 1
    <3>1. r = Head(queue[t]).relay
      BY <1>2, <2>2, <2>5, QueuedDef, PopFront
    <3>2. 1 \in Held'[r][t] /\ 1 \in Nat
      BY <1>1, <2>2, <3>1
    <3> QED
      BY <2>2, <3>2 DEF Placed
  <2>6. CASE l = t /\ i \in Queued[r][t] /\ i # 1
    <3>1. i > 0
      BY <1>2, <2>2, <2>6, QueuedDef, LenProperties
    <3>2. i - 1 \in Nat /\ i - 1 > 0 /\ (i - 1) + 1 = i
      BY <2>6, <3>1
    <3>3. i - 1 \in Queued'[r][t]
      BY <1>1, <2>2, <2>6, <3>2
    <3> QED
      BY <2>2, <3>2, <3>3 DEF Placed
  <2> QED
    BY <2>1, <2>3, <2>4, <2>5, <2>6
<1>4. ASSUME NEW r \in Placed' PROVE r \in Placed
  <2>1. PICK l \in Loop, i \in Nat : i \in Queued'[r][l] \/ i \in Held'[r][l]
    BY DEF Placed
  <2>2. r \in Relay
    BY DEF Placed
  <2>3. \/ i \in Queued[r][l]
        \/ i + 1 \in Nat /\ i + 1 \in Queued[r][l]
        \/ i \in Held[r][l]
        \/ 1 \in Queued[r][t]
        \/ i - 1 \in Nat /\ i - 1 \in Held[r][l]
    BY <1>1, <2>1, <2>2
  <2> QED
    BY <2>2, <2>3 DEF Placed
<1> QED
  BY <1>3, <1>4

LEMMA PostReplyPlaced ==
  ASSUME TypeOK, IInv, NEW t \in Loop, PostReply(t)
  PROVE  LET f == Head(stack[t]).relay IN
         /\ f \in Placed /\ f \in Relay /\ Live(f)
         /\ f \in Placed' <=> Attached(ReplyTo(f))
         /\ \A r \in Relay : r # f => (r \in Placed' <=> r \in Placed)
<1> DEFINE f == Head(stack[t]).relay
           h == ReplyTo(f)
<1>1. /\ stack[t] \in Seq(Frame) /\ stack[t] # <<>> /\ Head(stack[t]).at = "task"
      /\ Push(h, f, TRUE)
      /\ stack' = [stack EXCEPT ![t][1].at = "posting"]
  BY DEF PostReply, At, TypeOK
<1>2. f \in Relay /\ 1 \in DOMAIN stack[t] /\ stack[t][1].relay = f /\ stack[t][1].at = "task"
  BY <1>1, PopFront, Typed
<1>3. 1 \in Held[f][t]
  BY <1>2, QueuedDef
<1>4. h \in Loop
  BY <1>2 DEF IInv, AtHome, ReplyTo, TypeOK
<1>5. TRUE \in BOOLEAN
  OBVIOUS
<1> HIDE DEF f, h
<1>6. /\ Len(queue[h]) + 1 \in Nat
      /\ \A q \in Relay, k \in Loop, n \in Nat :
           n \in Queued'[q][k] <=>
             n \in Queued[q][k] \/ (Attached(h) /\ q = f /\ k = h /\ n = Len(queue[h]) + 1)
  <2>1. f \in Relay /\ TRUE \in BOOLEAN /\ Push(h, f, TRUE)
    BY <1>1, <1>2, <1>5
  <2> QED
    BY <1>4, <2>1, PushMoves
<1>7. \A q \in Relay, k \in Loop, n \in Nat :
        n \in Held'[q][k] <=> n \in Held[q][k] /\ ~(k = t /\ n = 1)
  BY <1>1, PostingMoves
<1>8. \A q \in Relay : q # f => 1 \notin Held[q][t]
  BY <1>2, QueuedDef
<1>9. /\ Live(f)
      /\ \A k \in Loop, n \in Nat : n \notin Queued[f][k]
      /\ \A k \in Loop, n \in Nat : n \in Held[f][k] => k = t /\ n = 1
  BY <1>2, <1>3 DEF IInv, OneUser
<1>10. f \in Placed
  BY <1>2, <1>3 DEF Placed
<1>11. f \in Placed' <=> Attached(h)
  BY <1>2, <1>4, <1>6, <1>7, <1>9 DEF Placed
<1>12. ASSUME NEW r \in Relay, r # f PROVE r \in Placed' <=> r \in Placed
  BY <1>6, <1>7, <1>8, <1>12 DEF Placed
<1> QED
  BY <1>2, <1>9, <1>10, <1>11, <1>12 DEF f, h

LEMMA PopPlaced ==
  ASSUME TypeOK, IInv, NEW t \in Loop, PostReturns(t) \/ SelfDestruct(t)
  PROVE  LET f == Head(stack[t]).relay IN
         /\ At(t, "posting") \/ f \in Placed
         /\ \A r \in Relay : At(t, "posting") \/ r # f => (r \in Placed' <=> r \in Placed)
<1> DEFINE f == Head(stack[t]).relay
<1>1. /\ stack[t] \in Seq(Frame) /\ stack[t] # <<>>
      /\ stack' = [stack EXCEPT ![t] = Tail(@)]
      /\ queue' = queue
  BY DEF PostReturns, SelfDestruct, At, TypeOK
<1>2. f \in Relay /\ (Head(stack[t]).at # "posting" => 1 \in Held[f][t])
  BY <1>1, PopMoves, Typed
<1>3. Queued' = Queued
  BY <1>1 DEF Queued
<1>4. \A q \in Relay, k \in Loop, n \in Nat :
        n \in Held'[q][k] <=>
          IF k = t THEN n > 0 /\ n + 1 \in Held[q][t] ELSE n \in Held[q][k]
  BY <1>1, PopMoves
<1>5. At(t, "posting") \/ f \in Placed
  BY <1>1, <1>2 DEF Placed, At
<1>6. stack[t][1].relay = f /\ stack[t][1].at = Head(stack[t]).at
  BY <1>1, PopFront
<1> HIDE DEF f
<1>7. ASSUME NEW r \in Relay, r \in Placed' PROVE r \in Placed
  <2>1. PICK l \in Loop, i \in Nat : i \in Queued[r][l] \/ i \in Held'[r][l]
    BY <1>3, <1>7 DEF Placed
  <2>2. i \in Queued[r][l] \/ i \in Held[r][l] \/ (i + 1 \in Nat /\ i + 1 \in Held[r][l])
    BY <1>4, <2>1
  <2> QED
    BY <2>2 DEF Placed
<1>8. ASSUME NEW r \in Relay, At(t, "posting") \/ r # f, r \in Placed PROVE r \in Placed'
  <2>1. PICK l \in Loop, i \in Nat : i \in Queued[r][l] \/ i \in Held[r][l]
    BY <1>8 DEF Placed
  <2>2. CASE i \in Queued[r][l]
    BY <1>3, <2>2 DEF Placed
  <2>3. CASE i \in Held[r][l] /\ l # t
    BY <1>4, <2>3 DEF Placed
  <2>4. CASE i \in Held[r][l] /\ l = t
    <3>1. i \in DOMAIN stack[t] /\ stack[t][i].relay = r /\ stack[t][i].at # "posting"
      BY <2>4, QueuedDef
    <3>2. i # 1
      BY <1>6, <1>8, <3>1 DEF At
    <3>3. i > 0
      BY <1>1, <3>1, LenProperties
    <3>4. i - 1 \in Nat /\ i - 1 > 0 /\ (i - 1) + 1 = i
      BY <3>2, <3>3
    <3>5. i - 1 \in Held'[r][t]
      BY <1>4, <2>4, <3>4
    <3> QED
      BY <3>4, <3>5 DEF Placed
  <2> QED
    BY <2>1, <2>2, <2>3, <2>4
<1> QED
  BY <1>5, <1>7, <1>8 DEF f

\* A relay that loses its place with a queue was there: the loop is one of its two.
LEMMA DropPlaced ==
  ASSUME TypeOK, IInv, NEW t \in Loop, queue' = [queue EXCEPT ![t] = <<>>], stack' = stack
  PROVE  \A r \in Relay :
           /\ r \in Placed' => r \in Placed
           /\ r \in Placed /\ r \notin Placed' => t \in {origin[r], target[r]}
<1>1. Held' = Held
  BY DEF Held
<1>2. \A q \in Relay, m \in Loop, i \in Nat :
        i \in Queued'[q][m] <=> m # t /\ i \in Queued[q][m]
  BY DropMoves
<1>3. ASSUME NEW r \in Relay, r \in Placed' PROVE r \in Placed
  BY <1>1, <1>2, <1>3 DEF Placed
<1>4. ASSUME NEW r \in Relay, r \in Placed, r \notin Placed'
      PROVE  t \in {origin[r], target[r]}
  <2>1. PICK l \in Loop, i \in Nat : i \in Queued[r][l] \/ i \in Held[r][l]
    BY <1>4 DEF Placed
  <2>2. l = t /\ i \in Queued[r][t]
    BY <1>1, <1>2, <1>4, <2>1 DEF Placed
  <2>3. i \in DOMAIN queue[t] /\ queue[t][i].relay = r
    BY <2>2, QueuedDef
  <2> QED
    BY <2>3 DEF IInv, AtHome
<1> QED
  BY <1>3, <1>4

LEMMA NewPlaced ==
  ASSUME TypeOK, NEW t \in Loop, NEW h \in Loop, NEW f \in Relay, PostTaskAndReply(t, h, f)
  PROVE  /\ Attached(h) => f \in Placed'
         /\ \A r \in Relay : r # f => (r \in Placed' <=> r \in Placed)
<1>1. Push(h, f, FALSE) /\ stack' = stack /\ FALSE \in BOOLEAN
  BY DEF PostTaskAndReply
<1>2. Held' = Held
  BY <1>1 DEF Held
<1>3. /\ Len(queue[h]) + 1 \in Nat
      /\ \A q \in Relay, k \in Loop, n \in Nat :
           n \in Queued'[q][k] <=>
             n \in Queued[q][k] \/ (Attached(h) /\ q = f /\ k = h /\ n = Len(queue[h]) + 1)
  BY <1>1, PushMoves
<1> QED
  BY <1>2, <1>3 DEF Placed

-----------------------------------------------------------------------------
(* Each action keeps AtHome *)

\* What AtHome asks of what is in a queue and on a stack.
LEMMA AtHomeParts ==
  ASSUME TypeOK,
         \A l \in Loop : \A i \in DOMAIN queue'[l] :
           l = IF queue'[l][i].reply THEN origin'[queue'[l][i].relay]
                                     ELSE target'[queue'[l][i].relay],
         \A l \in Loop : \A i \in DOMAIN stack'[l] :
           /\ origin'[stack'[l][i].relay] # NULL
           /\ stack'[l][i].at = "task" => l = target'[stack'[l][i].relay]
           /\ stack'[l][i].at = "reply" => l = origin'[stack'[l][i].relay],
         \A r \in Relay : origin'[r] # NULL => target'[r] # NULL,
         \A r \in Relay : origin'[r] = NULL => released'[r] = NULL,
         \A l \in Loop : stack'[l] # <<>> => life'[l] = "running"
  PROVE  AtHome'
  BY DEF AtHome

LEMMA RunTaskAtHome ==
  ASSUME TypeOK, IInv, NEW t \in Loop, RunTask(t)
  PROVE  AtHome'
<1> DEFINE first == Head(queue[t])
           frame == [relay |-> first.relay, at |-> IF first.reply THEN "reply" ELSE "task"]
<1>1. /\ queue[t] \in Seq(Pending) /\ queue[t] # <<>>
      /\ queue'[t] = Tail(queue[t])
      /\ stack[t] \in Seq(Frame)
      /\ stack'[t] = <<frame>> \o stack[t]
      /\ \A l \in Loop : l # t => queue'[l] = queue[l] /\ stack'[l] = stack[l]
      /\ life[t] = "running"
      /\ UNCHANGED <<life, origin, target, released>>
  BY DEF RunTask, TypeOK
<1>2. /\ first \in Pending /\ first = queue[t][1] /\ 1 \in DOMAIN queue[t]
      /\ \A i \in Nat : i \in DOMAIN Tail(queue[t]) <=> i > 0 /\ i + 1 \in DOMAIN queue[t]
      /\ \A i \in DOMAIN Tail(queue[t]) : Tail(queue[t])[i] = queue[t][i + 1]
      /\ Tail(queue[t]) \in Seq(Pending)
  BY <1>1, PopFront
<1>3. /\ frame \in Frame /\ frame.relay = first.relay
      /\ frame.at = IF first.reply THEN "reply" ELSE "task"
  <2> HIDE DEF first
  <2> QED
    BY <1>2 DEF Pending, Frame
<1> HIDE DEF first, frame
<1>4. /\ \A i \in Nat : i \in DOMAIN (<<frame>> \o stack[t]) <=>
                         i = 1 \/ (i > 1 /\ i - 1 \in DOMAIN stack[t])
      /\ \A i \in DOMAIN stack[t] : (<<frame>> \o stack[t])[i + 1] = stack[t][i]
      /\ (<<frame>> \o stack[t])[1] = frame
      /\ <<frame>> \o stack[t] \in Seq(Frame)
  BY <1>1, <1>3, PushFront
<1>5. /\ first.relay \in Relay /\ 1 \in Queued[first.relay][t]
      /\ origin[first.relay] # NULL
  <2>1. first.relay \in Relay
    BY <1>2, Typed
  <2>2. 1 \in Queued[first.relay][t]
    BY <1>2, <2>1, QueuedDef
  <2> QED
    BY <2>1, <2>2 DEF IInv, OneUser, Live
<1>6. ASSUME NEW l \in Loop, NEW i \in DOMAIN queue'[l]
      PROVE  l = IF queue'[l][i].reply THEN origin[queue'[l][i].relay]
                                       ELSE target[queue'[l][i].relay]
  <2>1. CASE l = t
    <3>1. i \in Nat /\ i \in DOMAIN Tail(queue[t])
      <4>1. i \in DOMAIN Tail(queue[t])
        BY <1>1, <2>1
      <4>2. DOMAIN Tail(queue[t]) = 1 .. Len(Tail(queue[t])) /\ Len(Tail(queue[t])) \in Nat
        BY <1>2, LenProperties
      <4> QED
        BY <4>1, <4>2
    <3>2. i + 1 \in DOMAIN queue[t] /\ queue'[t][i] = queue[t][i + 1]
      BY <1>1, <1>2, <3>1
    <3> QED
      BY <2>1, <3>2 DEF IInv, AtHome
  <2>2. CASE l # t
    BY <1>1, <2>2 DEF IInv, AtHome
  <2> QED
    BY <2>1, <2>2
<1>7. ASSUME NEW l \in Loop, NEW i \in DOMAIN stack'[l]
      PROVE  /\ origin[stack'[l][i].relay] # NULL
             /\ stack'[l][i].at = "task" => l = target[stack'[l][i].relay]
             /\ stack'[l][i].at = "reply" => l = origin[stack'[l][i].relay]
  <2>1. CASE l = t
    <3>1. i \in Nat /\ i \in DOMAIN (<<frame>> \o stack[t])
      BY <1>1, <1>4, <2>1, LenProperties
    <3>2. CASE i = 1
      <4>1. t = IF first.reply THEN origin[first.relay] ELSE target[first.relay]
        BY <1>2 DEF IInv, AtHome
      <4>2. stack'[l][i] = frame
        BY <1>1, <1>4, <2>1, <3>2
      <4> QED
        BY <1>3, <1>5, <2>1, <4>1, <4>2
    <3>3. CASE i # 1
      <4>1. i - 1 \in DOMAIN stack[t] /\ (i - 1) + 1 = i
        BY <1>4, <3>1, <3>3
      <4>2. stack'[t][i] = stack[t][i - 1]
        BY <1>1, <1>4, <4>1
      <4> QED
        BY <2>1, <4>1, <4>2 DEF IInv, AtHome
    <3> QED
      BY <3>2, <3>3
  <2>2. CASE l # t
    BY <1>1, <2>2 DEF IInv, AtHome
  <2> QED
    BY <2>1, <2>2
<1>8. /\ \A r \in Relay : origin'[r] # NULL => target'[r] # NULL
      /\ \A r \in Relay : origin'[r] = NULL => released'[r] = NULL
      /\ \A l \in Loop : stack'[l] # <<>> => life'[l] = "running"
  BY <1>1 DEF IInv, AtHome
<1> QED
  BY <1>1, <1>6, <1>7, <1>8, AtHomeParts

LEMMA PostReplyAtHome ==
  ASSUME TypeOK, IInv, NEW t \in Loop, PostReply(t)
  PROVE  AtHome'
<1> DEFINE f == Head(stack[t]).relay
           h == ReplyTo(f)
<1>1. /\ stack[t] \in Seq(Frame) /\ stack[t] # <<>>
      /\ Push(h, f, TRUE)
      /\ stack' = [stack EXCEPT ![t][1].at = "posting"]
      /\ UNCHANGED <<life, origin, target, released>>
  BY DEF PostReply, At, TypeOK
<1>2. f \in Relay /\ 1 \in DOMAIN stack[t] /\ stack[t][1].relay = f
  BY <1>1, PopFront, Typed
<1>3. h \in Loop /\ h = origin[f]
  BY <1>2 DEF IInv, AtHome, ReplyTo, TypeOK
<1> HIDE DEF h
<1>4. \A m \in Loop : \A i \in DOMAIN queue'[m] :
        \/ i \in DOMAIN queue[m] /\ queue'[m][i] = queue[m][i]
        \/ m = h /\ queue'[m][i] = [relay |-> f, reply |-> TRUE]
  <2> HIDE DEF f
  <2> DEFINE e == [relay |-> f, reply |-> TRUE]
  <2>1. e \in Pending
    BY <1>2 DEF Pending
  <2>2. queue' = IF Attached(h) THEN [queue EXCEPT ![h] = Append(@, e)] ELSE queue
    BY <1>1 DEF Push
  <2> HIDE DEF e
  <2>3. \A m \in Loop : \A i \in DOMAIN queue'[m] :
          \/ i \in DOMAIN queue[m] /\ queue'[m][i] = queue[m][i]
          \/ m = h /\ queue'[m][i] = e
    BY <1>3, <2>1, <2>2, EntryMoves
  <2> QED
    BY <2>3 DEF e
<1>5. ASSUME NEW l \in Loop, NEW i \in DOMAIN queue'[l]
      PROVE  l = IF queue'[l][i].reply THEN origin[queue'[l][i].relay]
                                       ELSE target[queue'[l][i].relay]
  <2> HIDE DEF f
  <2> QED
    BY <1>3, <1>4 DEF IInv, AtHome
<1>6. /\ DOMAIN stack'[t] = DOMAIN stack[t]
      /\ stack'[t][1].relay = f /\ stack'[t][1].at = "posting"
      /\ \A i \in DOMAIN stack[t] : i # 1 => stack'[t][i] = stack[t][i]
      /\ \A l \in Loop : l # t => stack'[l] = stack[l]
  BY <1>1, FirstFrame
<1> HIDE DEF f
<1>7. ASSUME NEW l \in Loop, NEW i \in DOMAIN stack'[l]
      PROVE  /\ origin[stack'[l][i].relay] # NULL
             /\ stack'[l][i].at = "task" => l = target[stack'[l][i].relay]
             /\ stack'[l][i].at = "reply" => l = origin[stack'[l][i].relay]
  <2>1. CASE l = t /\ i = 1
    BY <1>2, <1>6, <2>1 DEF IInv, AtHome
  <2>2. CASE l # t \/ i # 1
    BY <1>6, <2>2 DEF IInv, AtHome
  <2> QED
    BY <2>1, <2>2
<1>8. /\ \A r \in Relay : origin'[r] # NULL => target'[r] # NULL
      /\ \A r \in Relay : origin'[r] = NULL => released'[r] = NULL
      /\ \A l \in Loop : stack'[l] # <<>> => life'[l] = "running"
  <2>1. \A l \in Loop : stack'[l] # <<>> => stack[l] # <<>>
    BY <1>1, <1>6
  <2> QED
    BY <1>1, <2>1 DEF IInv, AtHome
<1> QED
  BY <1>1, <1>5, <1>7, <1>8, AtHomeParts

LEMMA PopAtHome ==
  ASSUME TypeOK, IInv, NEW t \in Loop, PostReturns(t) \/ SelfDestruct(t)
  PROVE  AtHome'
<1>1. /\ stack[t] # <<>> /\ stack' = [stack EXCEPT ![t] = Tail(@)]
      /\ UNCHANGED <<life, queue, origin, target>>
  BY DEF PostReturns, SelfDestruct, At
<1>2. /\ \A l \in Loop : \A i \in DOMAIN stack'[l] :
           \E j \in DOMAIN stack[l] : stack'[l][i] = stack[l][j]
      /\ \A l \in Loop : l # t => stack'[l] = stack[l]
  BY <1>1, PopMoves
<1>3. ASSUME NEW l \in Loop, NEW i \in DOMAIN stack'[l]
      PROVE  /\ origin[stack'[l][i].relay] # NULL
             /\ stack'[l][i].at = "task" => l = target[stack'[l][i].relay]
             /\ stack'[l][i].at = "reply" => l = origin[stack'[l][i].relay]
  BY <1>2 DEF IInv, AtHome
<1>4. \A l \in Loop : stack'[l] # <<>> => life'[l] = "running"
  BY <1>1, <1>2 DEF IInv, AtHome
<1>5. \A r \in Relay : origin[r] = NULL => released'[r] = NULL
  <2>1. stack[t] \in Seq(Frame) /\ Head(stack[t]) = stack[t][1] /\ 1 \in DOMAIN stack[t]
    BY <1>1, PopFront DEF TypeOK
  <2>2. origin[Head(stack[t]).relay] # NULL
    BY <2>1 DEF IInv, AtHome
  <2> QED
    BY <2>2 DEF IInv, AtHome, PostReturns, SelfDestruct, TypeOK
<1> QED
  BY <1>1, <1>3, <1>4, <1>5, AtHomeParts DEF IInv, AtHome

LEMMA DropAtHome ==
  ASSUME TypeOK, IInv, NEW t \in Loop,
         \/ WillDestroyCurrentMessageLoop(t) \/ DestroyMembers(t) \/ DeletePendingTasks(t)
  PROVE  AtHome'
<1>1. /\ queue' = queue \/ queue' = [queue EXCEPT ![t] = <<>>]
      /\ UNCHANGED <<stack, origin, target, released>>
      /\ life[t] # "running" \/ stack[t] = <<>>
      /\ \A l \in Loop : l # t => life'[l] = life[l]
  BY DEF WillDestroyCurrentMessageLoop, DestroyMembers, DeletePendingTasks, TypeOK
<1>2. \A m \in Loop : \A i \in DOMAIN queue'[m] :
        i \in DOMAIN queue[m] /\ queue'[m][i] = queue[m][i]
  BY <1>1, DropMoves
<1>3. ASSUME NEW l \in Loop, NEW i \in DOMAIN queue'[l]
      PROVE  l = IF queue'[l][i].reply THEN origin[queue'[l][i].relay]
                                       ELSE target[queue'[l][i].relay]
  BY <1>2 DEF IInv, AtHome
<1>4. \A l \in Loop : stack'[l] # <<>> => life'[l] = "running"
  BY <1>1 DEF IInv, AtHome
<1> QED
  BY <1>1, <1>3, <1>4, AtHomeParts DEF IInv, AtHome

LEMMA NewAtHome ==
  ASSUME TypeOK, IInv, NEW t \in Loop, NEW h \in Loop, NEW f \in Relay,
         PostTaskAndReply(t, h, f)
  PROVE  AtHome'
<1>1. /\ origin[f] = NULL /\ Push(h, f, FALSE) /\ FALSE \in BOOLEAN
      /\ UNCHANGED <<life, stack>>
      /\ origin' = [origin EXCEPT ![f] = t] /\ target' = [target EXCEPT ![f] = h]
      /\ \A r \in Relay : r # f => released'[r] = released[r]
  BY DEF PostTaskAndReply, TypeOK
<1>2. /\ origin'[f] = t /\ target'[f] = h
      /\ \A r \in Relay : r # f => origin'[r] = origin[r] /\ target'[r] = target[r]
  BY <1>1 DEF TypeOK
<1>3. \A m \in Loop : \A i \in DOMAIN queue'[m] :
        \/ i \in DOMAIN queue[m] /\ queue'[m][i] = queue[m][i]
        \/ m = h /\ queue'[m][i] = [relay |-> f, reply |-> FALSE]
  <2> DEFINE e == [relay |-> f, reply |-> FALSE]
  <2>1. e \in Pending
    BY DEF Pending
  <2>2. queue' = IF Attached(h) THEN [queue EXCEPT ![h] = Append(@, e)] ELSE queue
    BY <1>1 DEF Push
  <2> HIDE DEF e
  <2>3. \A m \in Loop : \A i \in DOMAIN queue'[m] :
          \/ i \in DOMAIN queue[m] /\ queue'[m][i] = queue[m][i]
          \/ m = h /\ queue'[m][i] = e
    BY <2>1, <2>2, EntryMoves
  <2> QED
    BY <2>3 DEF e
<1>4. ASSUME NEW m \in Loop, NEW i \in DOMAIN queue[m]
      PROVE  queue[m][i].relay \in Relay \ {f}
  <2>1. queue[m] \in Seq(Pending) /\ i \in Nat
    BY LenProperties DEF TypeOK
  <2>2. queue[m][i] \in Pending
    BY <2>1, ElementOfSeq, LenProperties
  <2>3. queue[m][i].relay \in Relay /\ i \in Queued[queue[m][i].relay][m]
    BY <2>1, <2>2, Typed, QueuedDef
  <2> QED
    BY <1>1, <2>1, <2>3 DEF IInv, OneUser, Live
<1>5. ASSUME NEW m \in Loop, NEW i \in DOMAIN stack[m]
      PROVE  stack[m][i].relay \in Relay \ {f}
  <2>1. stack[m] \in Seq(Frame)
    BY DEF TypeOK
  <2>2. stack[m][i] \in Frame
    BY <2>1, ElementOfSeq, LenProperties
  <2> QED
    BY <1>1, <2>2, Typed DEF IInv, AtHome
<1>6. ASSUME NEW l \in Loop, NEW i \in DOMAIN queue'[l]
      PROVE  l = IF queue'[l][i].reply THEN origin'[queue'[l][i].relay]
                                       ELSE target'[queue'[l][i].relay]
  <2>1. CASE i \in DOMAIN queue[l] /\ queue'[l][i] = queue[l][i]
    <3>1. queue[l][i].relay \in Relay \ {f}
      BY <1>4, <2>1
    <3> QED
      BY <1>2, <2>1, <3>1 DEF IInv, AtHome
  <2>2. CASE l = h /\ queue'[l][i] = [relay |-> f, reply |-> FALSE]
    BY <1>2, <2>2
  <2> QED
    BY <1>3, <2>1, <2>2
<1>7. ASSUME NEW l \in Loop, NEW i \in DOMAIN stack'[l]
      PROVE  /\ origin'[stack'[l][i].relay] # NULL
             /\ stack'[l][i].at = "task" => l = target'[stack'[l][i].relay]
             /\ stack'[l][i].at = "reply" => l = origin'[stack'[l][i].relay]
  BY <1>1, <1>2, <1>5 DEF IInv, AtHome
<1>8. /\ \A r \in Relay : origin'[r] # NULL => target'[r] # NULL
      /\ \A r \in Relay : origin'[r] = NULL => released'[r] = NULL
      /\ \A l \in Loop : stack'[l] # <<>> => life'[l] = "running"
  BY <1>1, <1>2, RelayAssumption DEF IInv, AtHome
<1> QED
  BY <1>6, <1>7, <1>8, AtHomeParts

-----------------------------------------------------------------------------
(* Each action keeps LocksHeld *)

\* What holds for a lock goes on to hold if its thread stays in the post, the
\* relay does not move, and the loop does not go.
LEMMA LockKept ==
  ASSUME TypeOK, IInv, NEW l \in Loop, lock[l] # NULL,
         stack'[lock[l]] = stack[lock[l]], origin' = origin \/ origin'[Head(stack[lock[l]]).relay] = l,
         lock'[l] = lock[l],
         Attached(l) => Attached(l)',
         LET r == Head(stack[lock[l]]).relay IN
           r \in Alive \ Placed => r \in Alive' \ Placed'
  PROVE  LET t == lock'[l]
             r == Head(stack'[t]).relay IN
           /\ stack'[t] # <<>> /\ Head(stack'[t]).at = "posting"
           /\ origin'[r] = l
           /\ Attached(l)' \/ r \in Alive' \ Placed'
  BY DEF IInv, LocksHeld, At

\* LocksHeld in the next state, spelled out.
LEMMA LocksHeldNext ==
  ASSUME \A l \in Loop : lock'[l] # NULL =>
           LET t == lock'[l]
               r == Head(stack'[t]).relay IN
             /\ stack'[t] # <<>> /\ Head(stack'[t]).at = "posting"
             /\ origin'[r] = l
             /\ Attached(l)' \/ r \in Alive' \ Placed'
  PROVE  LocksHeld'
  BY DEF LocksHeld, At

\* The thread that holds a lock, and the relay it posts.
LEMMA Holder ==
  ASSUME TypeOK, IInv, NEW l \in Loop, lock[l] # NULL
  PROVE  /\ lock[l] \in Loop
         /\ stack[lock[l]] # <<>> /\ Head(stack[lock[l]]).at = "posting"
         /\ Head(stack[lock[l]]).relay \in Relay
         /\ origin[Head(stack[lock[l]]).relay] = l
<1>1. lock[l] \in Loop /\ stack[lock[l]] \in Seq(Frame)
  BY DEF TypeOK
<1>2. stack[lock[l]] # <<>> /\ Head(stack[lock[l]]).at = "posting"
  BY DEF IInv, LocksHeld, At
<1>3. Head(stack[lock[l]]) \in Frame
  BY <1>1, <1>2, PopFront
<1> QED
  BY <1>1, <1>2, <1>3, Typed DEF IInv, LocksHeld

LEMMA RunTaskLocks ==
  ASSUME TypeOK, IInv, NEW t \in Loop, RunTask(t)
  PROVE  LocksHeld'
<1>1. /\ UNCHANGED <<life, lock, origin, released>>
      /\ \A l \in Loop : l # t => stack'[l] = stack[l]
      /\ stack[t] # <<>> => Head(stack[t]).at \in {"task", "reply"}
  BY DEF RunTask, InClientCode, TypeOK
<1>2. Placed' = Placed
  BY RunTaskPlaced
<1>3. ASSUME NEW l \in Loop, lock'[l] # NULL
      PROVE  LET u == lock'[l]
                 r == Head(stack'[u]).relay IN
               /\ stack'[u] # <<>> /\ Head(stack'[u]).at = "posting"
               /\ origin'[r] = l
               /\ Attached(l)' \/ r \in Alive' \ Placed'
  <2>1. lock[l] # t /\ lock[l] \in Loop
    BY <1>1, <1>3, Holder
  <2>2. Attached(l) => Attached(l)'
    BY <1>1 DEF Attached
  <2>3. Head(stack[lock[l]]).relay \in Alive => Head(stack[lock[l]]).relay \in Alive'
    BY <1>1, <2>1 DEF Alive, Live
  <2> QED
    BY <1>1, <1>2, <1>3, <2>1, <2>2, <2>3, LockKept
<1> QED
  BY <1>3, LocksHeldNext

LEMMA PostReplyLocks ==
  ASSUME TypeOK, IInv, NEW t \in Loop, PostReply(t)
  PROVE  LocksHeld'
<1> DEFINE f == Head(stack[t]).relay
           h == ReplyTo(f)
<1>1. /\ UNCHANGED <<life, origin, released>>
      /\ stack[t] # <<>> /\ Head(stack[t]).at = "task"
      /\ stack' = [stack EXCEPT ![t][1].at = "posting"]
      /\ lock[h] = NULL /\ lock' = [lock EXCEPT ![h] = t]
      /\ h = origin[f]
  BY DEF PostReply, At, ReplyTo
<1>2. /\ f \in Placed /\ f \in Relay /\ Live(f)
      /\ f \in Placed' <=> Attached(h)
      /\ \A r \in Relay : r # f => (r \in Placed' <=> r \in Placed)
  BY PostReplyPlaced
<1>3. /\ Head(stack'[t]).relay = f /\ Head(stack'[t]).at = "posting" /\ stack'[t] # <<>>
      /\ \A l \in Loop : l # t => stack'[l] = stack[l]
  BY <1>1, FirstFrame
<1>4. f \in Alive'
  BY <1>1, <1>2 DEF Alive, Live
<1> HIDE DEF f, h
<1>5. ASSUME NEW l \in Loop, lock'[l] # NULL
      PROVE  LET u == lock'[l]
                 r == Head(stack'[u]).relay IN
               /\ stack'[u] # <<>> /\ Head(stack'[u]).at = "posting"
               /\ origin'[r] = l
               /\ Attached(l)' \/ r \in Alive' \ Placed'
  <2>1. Attached(l)' <=> Attached(l)
    BY <1>1 DEF Attached
  <2>2. CASE l = h
    <3>1. lock'[l] = t
      BY <1>1, <2>2 DEF TypeOK
    <3> QED
      BY <1>1, <1>2, <1>3, <1>4, <2>1, <2>2, <3>1
  <2>3. CASE l # h
    <3>1. lock'[l] = lock[l]
      BY <1>1, <2>3 DEF TypeOK
    <3>2. /\ lock[l] \in Loop /\ lock[l] # t
          /\ Head(stack[lock[l]]).relay \in Relay
          /\ origin[Head(stack[lock[l]]).relay] = l
      BY <1>1, <1>5, <3>1, Holder
    <3>3. Head(stack[lock[l]]).relay # f
      BY <1>1, <2>3, <3>2
    <3>4. Head(stack[lock[l]]).relay \in Alive => Head(stack[lock[l]]).relay \in Alive'
      BY <1>1, <3>2 DEF Alive, Live
    <3> QED
      BY <1>1, <1>2, <1>3, <1>5, <2>1, <3>1, <3>2, <3>3, <3>4, LockKept
  <2> QED
    BY <2>2, <2>3
<1> QED
  BY <1>5, LocksHeldNext

LEMMA PostReturnsLocks ==
  ASSUME TypeOK, IInv, NEW t \in Loop, PostReturns(t)
  PROVE  LocksHeld'
<1> DEFINE f == Head(stack[t]).relay
           h == ReplyTo(f)
<1>1. /\ UNCHANGED <<life, origin, released>>
      /\ At(t, "posting")
      /\ stack' = [stack EXCEPT ![t] = Tail(@)]
      /\ lock' = [lock EXCEPT ![h] = NULL]
      /\ h = origin[f]
  BY DEF PostReturns, ReplyTo
<1>2. \A r \in Relay : r \in Placed' <=> r \in Placed
  BY <1>1, PopPlaced
<1>3. \A l \in Loop : l # t => stack'[l] = stack[l]
  BY <1>1 DEF TypeOK
<1> HIDE DEF f, h
<1>4. ASSUME NEW l \in Loop, lock'[l] # NULL
      PROVE  LET u == lock'[l]
                 r == Head(stack'[u]).relay IN
               /\ stack'[u] # <<>> /\ Head(stack'[u]).at = "posting"
               /\ origin'[r] = l
               /\ Attached(l)' \/ r \in Alive' \ Placed'
  <2>1. l # h /\ lock'[l] = lock[l]
    BY <1>1, <1>4 DEF TypeOK
  <2>2. /\ lock[l] \in Loop
        /\ Head(stack[lock[l]]).relay \in Relay
        /\ origin[Head(stack[lock[l]]).relay] = l
    BY <1>4, <2>1, Holder
  <2>3. lock[l] # t
    BY <1>1, <2>1, <2>2 DEF f
  <2>4. Attached(l)' <=> Attached(l)
    BY <1>1 DEF Attached
  <2>5. Head(stack[lock[l]]).relay \in Alive => Head(stack[lock[l]]).relay \in Alive'
    BY <1>1, <2>2 DEF Alive, Live
  <2> QED
    BY <1>1, <1>2, <1>3, <1>4, <2>1, <2>2, <2>3, <2>4, <2>5, LockKept
<1> QED
  BY <1>4, LocksHeldNext

LEMMA SelfDestructLocks ==
  ASSUME TypeOK, IInv, NEW t \in Loop, SelfDestruct(t)
  PROVE  LocksHeld'
<1> DEFINE f == Head(stack[t]).relay
<1>1. /\ UNCHANGED <<life, lock, origin>>
      /\ stack[t] # <<>> /\ Head(stack[t]).at = "reply"
      /\ stack' = [stack EXCEPT ![t] = Tail(@)]
      /\ \A r \in Relay : r # f => released'[r] = released[r]
  BY DEF SelfDestruct, At, TypeOK
<1>2. f \in Placed /\ \A r \in Relay : r # f => (r \in Placed' <=> r \in Placed)
  BY <1>1, PopPlaced DEF At
<1>3. \A l \in Loop : l # t => stack'[l] = stack[l]
  BY <1>1 DEF TypeOK
<1> HIDE DEF f
<1>4. ASSUME NEW l \in Loop, lock'[l] # NULL
      PROVE  LET u == lock'[l]
                 r == Head(stack'[u]).relay IN
               /\ stack'[u] # <<>> /\ Head(stack'[u]).at = "posting"
               /\ origin'[r] = l
               /\ Attached(l)' \/ r \in Alive' \ Placed'
  <2>1. /\ lock[l] \in Loop /\ lock[l] # t /\ lock[l] # NULL
        /\ Head(stack[lock[l]]).relay \in Relay
    BY <1>1, <1>4, Holder
  <2>2. Attached(l)' <=> Attached(l)
    BY <1>1 DEF Attached
  <2>3. ASSUME Head(stack[lock[l]]).relay \notin Placed
        PROVE  /\ Head(stack[lock[l]]).relay \notin Placed'
               /\ Head(stack[lock[l]]).relay \in Alive => Head(stack[lock[l]]).relay \in Alive'
    <3>1. Head(stack[lock[l]]).relay # f
      BY <1>2, <2>3
    <3> QED
      BY <1>1, <1>2, <2>1, <2>3, <3>1 DEF Alive, Live
  <2> QED
    BY <1>1, <1>3, <2>1, <2>2, <2>3, LockKept
<1> QED
  BY <1>4, LocksHeldNext

LEMMA DropLocks ==
  ASSUME TypeOK, IInv, NEW t \in Loop,
         \/ WillDestroyCurrentMessageLoop(t) \/ DestroyMembers(t) \/ DeletePendingTasks(t)
  PROVE  LocksHeld'
<1>1. /\ queue' = queue \/ queue' = [queue EXCEPT ![t] = <<>>]
      /\ UNCHANGED <<stack, lock, origin, released>>
      /\ \A l \in Loop : lock[l] # NULL => (Attached(l) => Attached(l)')
  BY DEF WillDestroyCurrentMessageLoop, DestroyMembers, DeletePendingTasks, Attached, TypeOK
<1>2. \A r \in Relay : r \notin Placed => r \notin Placed'
  <2>1. CASE queue' = queue
    BY <1>1, <2>1 DEF Placed, Queued, Held
  <2>2. CASE queue' = [queue EXCEPT ![t] = <<>>]
    BY <1>1, <2>2, DropPlaced
  <2> QED
    BY <1>1, <2>1, <2>2
<1>3. ASSUME NEW l \in Loop, lock'[l] # NULL
      PROVE  LET u == lock'[l]
                 r == Head(stack'[u]).relay IN
               /\ stack'[u] # <<>> /\ Head(stack'[u]).at = "posting"
               /\ origin'[r] = l
               /\ Attached(l)' \/ r \in Alive' \ Placed'
  <2>1. lock[l] # NULL /\ Head(stack[lock[l]]).relay \in Relay
    BY <1>1, <1>3, Holder
  <2>2. Head(stack[lock[l]]).relay \in Alive => Head(stack[lock[l]]).relay \in Alive'
    BY <1>1 DEF Alive, Live
  <2> QED
    BY <1>1, <1>2, <2>1, <2>2, LockKept
<1> QED
  BY <1>3, LocksHeldNext

LEMMA NewLocks ==
  ASSUME TypeOK, IInv, NEW t \in Loop, NEW h \in Loop, NEW f \in Relay,
         PostTaskAndReply(t, h, f)
  PROVE  LocksHeld'
<1>1. /\ origin[f] = NULL /\ UNCHANGED <<life, lock, stack>>
      /\ \A r \in Relay : r # f => origin'[r] = origin[r] /\ released'[r] = released[r]
  BY DEF PostTaskAndReply, TypeOK
<1>2. \A r \in Relay : r # f => (r \in Placed' <=> r \in Placed)
  BY NewPlaced
<1>3. ASSUME NEW l \in Loop, lock'[l] # NULL
      PROVE  LET u == lock'[l]
                 r == Head(stack'[u]).relay IN
               /\ stack'[u] # <<>> /\ Head(stack'[u]).at = "posting"
               /\ origin'[r] = l
               /\ Attached(l)' \/ r \in Alive' \ Placed'
  <2>1. /\ lock[l] # NULL /\ Head(stack[lock[l]]).relay \in Relay
        /\ origin[Head(stack[lock[l]]).relay] = l
    BY <1>1, <1>3, Holder
  <2>2. Head(stack[lock[l]]).relay # f
    BY <1>1, <2>1, RelayAssumption
  <2>3. Head(stack[lock[l]]).relay \in Alive => Head(stack[lock[l]]).relay \in Alive'
    BY <1>1, <2>1, <2>2 DEF Alive, Live
  <2>4. Attached(l) => Attached(l)'
    BY <1>1 DEF Attached
  <2>5. origin'[Head(stack[lock[l]]).relay] = l
    BY <1>1, <2>1, <2>2
  <2> QED
    BY <1>1, <1>2, <2>1, <2>2, <2>3, <2>4, <2>5, LockKept
<1> QED
  BY <1>3, LocksHeldNext

-----------------------------------------------------------------------------
(* Each action keeps Explained *)

\* The relays that live on without a place are as they were, or new ones for
\* which one of the two loops has begun to go.
LEMMA ExplainedParts ==
  ASSUME TypeOK, IInv,
         \A l \in Loop : life'[l] = "running" => life[l] = "running",
         \A r \in Relay : origin'[r] # NULL /\ released'[r] = NULL /\ r \notin Placed' =>
           \/ /\ Live(r) /\ r \notin Placed
              /\ origin'[r] = origin[r] /\ target'[r] = target[r]
           \/ life'[origin'[r]] # "running" \/ life'[target'[r]] # "running"
  PROVE  Explained'
<1> SUFFICES ASSUME NEW r \in Relay, origin'[r] # NULL, released'[r] = NULL, r \notin Placed'
             PROVE  life'[origin'[r]] # "running" \/ life'[target'[r]] # "running"
  BY DEF Explained, Live
<1>1. CASE life'[origin'[r]] # "running" \/ life'[target'[r]] # "running"
  BY <1>1
<1>2. CASE /\ Live(r) /\ r \notin Placed
           /\ origin'[r] = origin[r] /\ target'[r] = target[r]
  <2>1. origin[r] \in Loop /\ target[r] \in Loop
    BY <1>2 DEF IInv, AtHome, Live, TypeOK
  <2>2. life[origin[r]] # "running" \/ life[target[r]] # "running"
    BY <1>2 DEF IInv, Explained
  <2> QED
    BY <1>2, <2>1, <2>2
<1> QED
  BY <1>1, <1>2

LEMMA StepExplained ==
  ASSUME TypeOK, IInv, [Next]_vars
  PROVE  Explained'
<1>1. ASSUME NEW t \in Loop, RunTask(t) PROVE Explained'
  <2>1. Placed' = Placed /\ UNCHANGED <<life, origin, target, released>>
    BY <1>1, RunTaskPlaced DEF RunTask
  <2> QED
    BY <2>1, ExplainedParts DEF Live
<1>2. ASSUME NEW t \in Loop, PostReply(t) PROVE Explained'
  <2> DEFINE f == Head(stack[t]).relay
  <2>1. UNCHANGED <<life, origin, target, released>>
    BY <1>2 DEF PostReply
  <2>2. /\ f \in Placed' <=> Attached(origin[f])
        /\ \A r \in Relay : r # f => (r \in Placed' <=> r \in Placed)
    BY <1>2, PostReplyPlaced DEF ReplyTo
  <2> HIDE DEF f
  <2>3. ~Attached(origin[f]) => life[origin[f]] # "running"
    BY DEF Attached
  <2> QED
    BY <2>1, <2>2, <2>3, ExplainedParts DEF Live
<1>3. ASSUME NEW t \in Loop, PostReturns(t) PROVE Explained'
  <2>1. UNCHANGED <<life, origin, target, released>> /\ At(t, "posting")
    BY <1>3 DEF PostReturns
  <2>2. \A r \in Relay : r \in Placed' <=> r \in Placed
    BY <1>3, <2>1, PopPlaced
  <2> QED
    BY <2>1, <2>2, ExplainedParts DEF Live
<1>4. ASSUME NEW t \in Loop, SelfDestruct(t) PROVE Explained'
  <2> DEFINE f == Head(stack[t]).relay
  <2>1. /\ UNCHANGED <<life, origin, target>>
        /\ released' = [released EXCEPT ![f] = t]
    BY <1>4 DEF SelfDestruct
  <2>2. \A r \in Relay : r # f => (r \in Placed' <=> r \in Placed)
    BY <1>4, PopPlaced
  <2> HIDE DEF f
  <2>3. t # NULL
    BY RelayAssumption
  <2> QED
    BY <2>1, <2>2, <2>3, ExplainedParts DEF Live, TypeOK
<1>5. ASSUME NEW t \in Loop, WillDestroyCurrentMessageLoop(t) PROVE Explained'
  <2>1. /\ UNCHANGED <<queue, stack, origin, target, released>>
        /\ \A l \in Loop : life'[l] = "running" => life[l] = "running"
    BY <1>5 DEF WillDestroyCurrentMessageLoop, TypeOK
  <2>2. Placed' = Placed
    BY <2>1 DEF Placed, Queued, Held
  <2> QED
    BY <2>1, <2>2, ExplainedParts DEF Live
<1>6. ASSUME NEW t \in Loop, DestroyMembers(t) \/ DeletePendingTasks(t) PROVE Explained'
  <2>1. /\ UNCHANGED <<stack, origin, target, released>>
        /\ queue' = [queue EXCEPT ![t] = <<>>]
        /\ life'[t] # "running"
        /\ \A l \in Loop : life'[l] = "running" => life[l] = "running"
    BY <1>6 DEF DestroyMembers, DeletePendingTasks, TypeOK
  <2>2. \A r \in Relay : r \in Placed /\ r \notin Placed' => t \in {origin[r], target[r]}
    BY <2>1, DropPlaced
  <2> QED
    BY <2>1, <2>2, ExplainedParts DEF Live
<1>7. ASSUME NEW t \in Loop, NEW h \in Loop, NEW f \in Relay, PostTaskAndReply(t, h, f)
      PROVE  Explained'
  <2>1. /\ UNCHANGED life
        /\ released'[f] = IF Attached(h) THEN NULL ELSE t
        /\ \A r \in Relay : r # f => /\ origin'[r] = origin[r] /\ target'[r] = target[r]
                                     /\ released'[r] = released[r]
    BY <1>7 DEF PostTaskAndReply, TypeOK
  <2>2. /\ Attached(h) => f \in Placed'
        /\ \A r \in Relay : r # f => (r \in Placed' <=> r \in Placed)
    BY <1>7, NewPlaced
  <2> QED
    BY <2>1, <2>2, RelayAssumption, ExplainedParts DEF Live
<1>8. CASE UNCHANGED vars
  <2>1. Placed' = Placed /\ UNCHANGED <<life, origin, target, released>>
    BY <1>8 DEF vars, Placed, Queued, Held
  <2> QED
    BY <2>1, ExplainedParts DEF Live
<1> QED
  BY <1>1, <1>2, <1>3, <1>4, <1>5, <1>6, <1>7, <1>8, Disjuncts

-----------------------------------------------------------------------------
(* The theorems *)

LEMMA InitInv == Init => IInv
<1> SUFFICES ASSUME Init PROVE IInv
  OBVIOUS
<1>1. \A r \in Relay, l \in Loop, i \in Nat : i \notin Queued[r][l] /\ i \notin Held[r][l]
  BY EmptySequence, QueuedDef DEF Init
<1>2. OneUser
  BY <1>1 DEF OneUser
<1>3. AtHome
  BY EmptySequence DEF Init, AtHome
<1>4. LocksHeld
  BY DEF Init, LocksHeld
<1>5. Explained
  BY DEF Init, Explained, Live
<1> QED
  BY <1>2, <1>3, <1>4, <1>5 DEF IInv

LEMMA StepInv ==
  ASSUME TypeOK, IInv, [Next]_vars
  PROVE  IInv'
<1>1. OneUser'
  BY StepOneUser
<1>2. AtHome'
  <2>1. CASE UNCHANGED vars
    BY <2>1 DEF vars, IInv, AtHome
  <2> QED
    BY <2>1, Disjuncts, RunTaskAtHome, PostReplyAtHome, PopAtHome, DropAtHome, NewAtHome
<1>3. LocksHeld'
  <2>1. CASE UNCHANGED vars
    <3>1. Placed' = Placed /\ Alive' = Alive
      BY <2>1 DEF vars, Placed, Queued, Held, Alive, Live
    <3> QED
      BY <2>1, <3>1 DEF vars, IInv, LocksHeld, At, Attached
  <2> QED
    BY <2>1, Disjuncts, RunTaskLocks, PostReplyLocks, PostReturnsLocks, SelfDestructLocks,
       DropLocks, NewLocks
<1>4. Explained'
  BY StepExplained
<1> QED
  BY <1>1, <1>2, <1>3, <1>4 DEF IInv

LEMMA Inductive == Spec => [](TypeOK /\ IInv)
<1>1. Init => TypeOK /\ IInv
  BY InitTypes, InitInv
<1>2. TypeOK /\ IInv /\ [Next]_vars => (TypeOK /\ IInv)'
  BY StepTypes, StepInv
<1> QED
  BY <1>1, <1>2, PTL DEF Spec

\* The set of places and the positions say the same.
LEMMA PlacesAre ==
  ASSUME TypeOK, NEW r \in Relay
  PROVE  /\ \A p \in Places(r) : \E l \in Loop : \E i \in Nat :
              \/ p = <<"queue", l, i>> /\ i \in Queued[r][l]
              \/ p = <<"stack", l, i>> /\ i \in Held[r][l]
         /\ \A l \in Loop : \A i \in Nat :
              /\ i \in Queued[r][l] => <<"queue", l, i>> \in Places(r)
              /\ i \in Held[r][l] => <<"stack", l, i>> \in Places(r)
<1>1. \A l \in Loop : \A i \in DOMAIN queue[l] : i \in Nat
  BY LenProperties DEF TypeOK
<1>2. \A l \in Loop : \A i \in DOMAIN stack[l] : i \in Nat
  BY LenProperties DEF TypeOK
<1> DEFINE Q(l) == {<<"queue", l, i>> : i \in {j \in DOMAIN queue[l] : queue[l][j].relay = r}}
           S(l) == {<<"stack", l, i>> : i \in {j \in DOMAIN stack[l] :
                       stack[l][j].relay = r /\ stack[l][j].at # "posting"}}
<1>3. \A p : p \in Places(r) <=> \E l \in Loop : p \in Q(l) \/ p \in S(l)
  <2>1. Places(r) = (UNION {Q(l) : l \in Loop}) \union (UNION {S(l) : l \in Loop})
    BY DEF Places
  <2> HIDE DEF Q, S
  <2>2. \A p : p \in UNION {Q(l) : l \in Loop} <=> \E l \in Loop : p \in Q(l)
    BY Zenon
  <2>3. \A p : p \in UNION {S(l) : l \in Loop} <=> \E l \in Loop : p \in S(l)
    BY Zenon
  <2> DEFINE A == UNION {Q(l) : l \in Loop}
             B == UNION {S(l) : l \in Loop}
  <2>4. Places(r) = A \union B
    BY <2>1
  <2>5. ASSUME NEW p PROVE /\ p \in A <=> \E l \in Loop : p \in Q(l)
                           /\ p \in B <=> \E l \in Loop : p \in S(l)
    BY <2>2, <2>3, Zenon
  <2> HIDE DEF A, B
  <2>6. ASSUME NEW p PROVE p \in Places(r) <=> p \in A \/ p \in B
    BY <2>4
  <2> QED
    BY <2>5, <2>6, Zenon
<1>4. ASSUME NEW p \in Places(r)
      PROVE  \E l \in Loop : \E i \in Nat :
              \/ p = <<"queue", l, i>> /\ i \in Queued[r][l]
              \/ p = <<"stack", l, i>> /\ i \in Held[r][l]
  <2>1. PICK l \in Loop : p \in Q(l) \/ p \in S(l)
    BY <1>3
  <2>2. CASE p \in Q(l)
    <3>1. PICK i \in DOMAIN queue[l] : queue[l][i].relay = r /\ p = <<"queue", l, i>>
      BY <2>2
    <3> QED
      BY <1>1, <3>1, QueuedDef
  <2>3. CASE p \in S(l)
    <3>1. PICK i \in DOMAIN stack[l] :
            /\ stack[l][i].relay = r /\ stack[l][i].at # "posting"
            /\ p = <<"stack", l, i>>
      BY <2>3
    <3> QED
      BY <1>2, <3>1, QueuedDef
  <2> QED
    BY <2>1, <2>2, <2>3
<1>5. ASSUME NEW l \in Loop, NEW i \in Nat, i \in Queued[r][l]
      PROVE  <<"queue", l, i>> \in Places(r)
  <2>1. <<"queue", l, i>> \in Q(l)
    BY <1>5, QueuedDef
  <2> QED
    BY <1>3, <2>1
<1>6. ASSUME NEW l \in Loop, NEW i \in Nat, i \in Held[r][l]
      PROVE  <<"stack", l, i>> \in Places(r)
  <2>1. <<"stack", l, i>> \in S(l)
    BY <1>6, QueuedDef
  <2> QED
    BY <1>3, <2>1
<1> QED
  BY <1>4, <1>5, <1>6

\* A relay has no place exactly if it is not placed.
LEMMA NoPlaces ==
  ASSUME TypeOK, NEW r \in Relay
  PROVE  Places(r) = {} <=> r \notin Placed
  BY PlacesAre DEF Placed

\* Every variable has its type, for any number of loops and relays.
THEOREM TypeCorrect == Spec => []TypeOK
  BY Inductive, PTL

\* A relay that will be touched again is alive, and one thread or one queue has
\* it (PostTaskAndReplyRelay is owned by whoever runs it).
THEOREM OneUserAtATime == Spec => []RelayHasOneUser
<1>1. TypeOK /\ IInv => RelayHasOneUser
  BY PlacesAre DEF IInv, OneUser, RelayHasOneUser
<1> QED
  BY Inductive, <1>1, PTL

\* The proxy whose lock a thread holds is referred to by its loop or by a relay
\* nobody will delete: PostTaskHelper unlocks a lock that is there.
THEOREM ProxiesOutlivePosts == Spec => []ProxyOutlivesPost
<1>1. TypeOK /\ IInv => ProxyOutlivesPost
  <2> SUFFICES ASSUME TypeOK, IInv, NEW l \in Loop, lock[l] # NULL, ~Attached(l)
               PROVE  \E r \in Relay : origin[r] = l /\ Live(r) /\ Places(r) = {}
    BY DEF ProxyOutlivesPost
  <2>1. PICK r \in Relay : origin[r] = l /\ r \in Alive \ Placed
    BY Holder DEF IInv, LocksHeld
  <2> QED
    BY <2>1, NoPlaces DEF Alive
<1> QED
  BY Inductive, <1>1, PTL

\* A relay and its closures leak only when one of its two loops goes.
THEOREM LeaksAreExplained == Spec => []LeakExplained
<1>1. TypeOK /\ IInv => LeakExplained
  BY NoPlaces DEF IInv, Explained, LeakExplained
<1> QED
  BY Inductive, <1>1, PTL

\* Relays, tasks and replies are deleted on the thread that made them, while its
\* loop is there: the DCHECKs in PostTaskAndReplyRelay hold.
THEOREM DeletedAtHome == Spec => ReleasedAtHome
<1> DEFINE Home == \A r \in Relay : released'[r] # released[r] =>
                     /\ released'[r] = origin'[r]
                     /\ Attached(origin'[r])
<1>1. ASSUME TypeOK, IInv, [Next]_vars
      PROVE  [Home]_vars
  <2>1. ASSUME NEW t \in Loop, SelfDestruct(t) PROVE Home
    <3> DEFINE f == Head(stack[t]).relay
    <3>1. /\ stack[t] \in Seq(Frame) /\ stack[t] # <<>> /\ Head(stack[t]).at = "reply"
          /\ released' = [released EXCEPT ![f] = t] /\ origin' = origin
      BY <1>1, <2>1 DEF SelfDestruct, At, TypeOK
    <3>2. 1 \in DOMAIN stack[t] /\ Head(stack[t]) = stack[t][1] /\ f \in Relay
      BY <3>1, PopFront, Typed
    <3>3. t = origin[f] /\ life[t] = "running"
      BY <1>1, <3>1, <3>2 DEF IInv, AtHome
    <3> HIDE DEF f
    <3> QED
      BY <1>1, <3>1, <3>2, <3>3 DEF Attached, TypeOK
  <2>2. ASSUME NEW t \in Loop, NEW h \in Loop, NEW f \in Relay, PostTaskAndReply(t, h, f)
        PROVE  Home
    <3>1. /\ Attached(t) /\ origin[f] = NULL
          /\ origin' = [origin EXCEPT ![f] = t]
          /\ released' = [released EXCEPT ![f] = IF Attached(h) THEN NULL ELSE t]
      BY <2>2 DEF PostTaskAndReply, InClientCode
    <3>2. origin'[f] = t /\ (released'[f] = t \/ (released'[f] = NULL /\ Attached(h)))
      BY <1>1, <3>1 DEF TypeOK
    <3>3. released[f] = NULL
      BY <1>1, <3>1 DEF IInv, AtHome
    <3> QED
      BY <1>1, <3>1, <3>2, <3>3 DEF TypeOK
  <2>3. CASE released' = released
    BY <2>3
  <2> QED
    BY <1>1, <2>1, <2>2, <2>3, Disjuncts
       DEF RunTask, PostReply, PostReturns, WillDestroyCurrentMessageLoop, DestroyMembers,
           DeletePendingTasks, vars
<1> QED
  BY Inductive, <1>1, PTL DEF Spec, ReleasedAtHome

-----------------------------------------------------------------------------
(* Nobody waits for a lock in a circle *)

\* Thread t is in the middle of something that has to come to an end.
Busy(t) == stack[t] # <<>> \/ life[t] \in {"deleting", "detached"}

\* To go on, t takes the lock of the proxy of l: to post a relay back, to delete
\* one, or to detach its loop.
NeedsLock(t, l) ==
  \/ At(t, "task") /\ l = ReplyTo(Head(stack[t]).relay)
  \/ At(t, "reply") /\ l = origin[Head(stack[t]).relay]
  \/ stack[t] = <<>> /\ life[t] = "deleting" /\ l = t

\* The guards of what Step(t) may do, but for RunTask: a loop that takes its next
\* task in a nested run is up to the client.
CanFinish(t) ==
  \/ At(t, "posting")
  \/ life[t] = "detached"
  \/ \E l \in Loop : NeedsLock(t, l) /\ lock[l] = NULL

\* Who holds a lock needs no other, so a thread that needs one waits for another
\* thread, and for one only.
LocksAreReleased ==
  /\ \A l \in Loop : lock[l] # NULL => lock[l] \in Loop /\ CanFinish(lock[l])
  /\ \A t \in Loop : Busy(t) =>
       \/ CanFinish(t)
       \/ \E l \in Loop : NeedsLock(t, l) /\ lock[l] \in Loop \ {t} /\ CanFinish(lock[l])

\* Threads that post relays back to each other, or to themselves, delete them or
\* destroy their loops, never wait for each other's message_loop_lock_ in a
\* circle: a thread that waits for one waits for a thread that releases it.
THEOREM NoLockCircle == Spec => []LocksAreReleased
<1>1. ASSUME TypeOK, IInv, NEW l \in Loop, lock[l] # NULL
      PROVE  /\ lock[l] \in Loop /\ CanFinish(lock[l])
             /\ stack[lock[l]] # <<>> /\ Head(stack[lock[l]]).at = "posting"
  BY <1>1, Holder DEF CanFinish, At
<1>2. ASSUME TypeOK, IInv, NEW t \in Loop, Busy(t), ~CanFinish(t)
      PROVE  \E l \in Loop : NeedsLock(t, l) /\ lock[l] \in Loop \ {t} /\ CanFinish(lock[l])
  <2>1. \E l \in Loop : NeedsLock(t, l)
    <3>1. CASE stack[t] = <<>>
      BY <1>2, <3>1 DEF Busy, CanFinish, NeedsLock
    <3>2. CASE stack[t] # <<>>
      <4>1. /\ 1 \in DOMAIN stack[t] /\ Head(stack[t]) = stack[t][1]
            /\ Head(stack[t]) \in Frame
        BY <1>2, <3>2, PopFront DEF TypeOK
      <4>2. /\ Head(stack[t]).relay \in Relay
            /\ Head(stack[t]).at \in {"task", "posting", "reply"}
        BY <4>1 DEF Frame
      <4>3. origin[Head(stack[t]).relay] \in Loop
        BY <1>2, <4>1, <4>2 DEF IInv, AtHome, TypeOK
      <4> QED
        BY <1>2, <3>2, <4>2, <4>3 DEF CanFinish, NeedsLock, At, ReplyTo
    <3> QED
      BY <3>1, <3>2
  <2>2. PICK l \in Loop : NeedsLock(t, l)
    BY <2>1
  <2>3. lock[l] # NULL
    BY <1>2, <2>2 DEF CanFinish
  <2>4. lock[l] # t
    BY <1>1, <1>2, <2>3 DEF CanFinish, At
  <2> QED
    BY <1>1, <1>2, <2>2, <2>3, <2>4
<1>3. TypeOK /\ IInv => LocksAreReleased
  BY <1>1, <1>2 DEF LocksAreReleased
<1> QED
  BY Inductive, <1>3, PTL

=============================================================================
