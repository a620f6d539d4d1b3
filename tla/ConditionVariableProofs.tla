----------------------- MODULE ConditionVariableProofs -----------------------
(***************************************************************************)
(* For any number of threads: the condition variable leaks no event, loses *)
(* no signal, makes none up until a time-out and a signal have met, step   *)
(* by step does what CondVar says, and a wait that is over waits only for  *)
(* the user's lock.                                                        *)
(***************************************************************************)
EXTENDS ConditionVariable, SequenceTheorems, FiniteSetTheorems, TLAPS

\* The threads that have been selected and have not come out of their wait.
Selected ==
  {th \in Thread : /\ pc[th] \in {"entered", "blocked"}
                   /\ waiting_event[th] \notin Range(waiting_list)}

\* Until a time-out and a signal meet no SetEvent comes late: the events that are signaled or
\* about to be are those of the selected threads, and each is in the hands of
\* one thread, once, or already signaled.
NoLateSetEvent ==
  /\ \A e \in signaled : \E th \in Selected : waiting_event[th] = e
  /\ \A other \in Thread : \A e \in Range(handles[other]) :
       /\ e \notin signaled
       /\ \E th \in Selected : waiting_event[th] = e
  /\ \A th, other \in Thread : \A e \in Range(handles[th]) :
       e \in Range(handles[other]) => th = other
  /\ \A th \in Thread : IsInjective(handles[th])
  /\ \A th \in Thread :
       pc[th] = "awake" => waiting_event[th] \notin Range(waiting_list)

IInv == EventsAccounted /\ NoLostSignal

-----------------------------------------------------------------------------
(* Lists of events, each at most once in a list *)

LEMMA SmallLists ==
  /\ Range(<<>>) = {} /\ IsInjective(<<>>)
  /\ \A x : Range(<<x>>) = {x} /\ IsInjective(<<x>>)
BY DEF Range, IsInjective

LEMMA UpTo ==
  \A n \in Nat : \A i \in 1..n :
    /\ i # n => i \in 1..(n - 1)
    /\ i # 1 => i - 1 \in 1..(n - 1)
OBVIOUS

LEMMA AppendList ==
  ASSUME NEW S, NEW q \in Seq(S), NEW x \in S
  PROVE  /\ Append(q, x) \in Seq(S)
         /\ Range(Append(q, x)) = Range(q) \union {x}
         /\ IsInjective(q) /\ x \notin Range(q) => IsInjective(Append(q, x))
<1>1. /\ DOMAIN q = 1..Len(q)
      /\ DOMAIN Append(q, x) = 1..(Len(q) + 1)
      /\ Len(q) \in Nat
      /\ \A i \in 1..Len(q) : Append(q, x)[i] = q[i]
      /\ Append(q, x)[Len(q) + 1] = x
      /\ Append(q, x) \in Seq(S)
  OBVIOUS
<1>2. Range(Append(q, x)) = Range(q) \union {x}
  BY <1>1 DEF Range
<1>3. IsInjective(q) /\ x \notin Range(q) => IsInjective(Append(q, x))
  BY <1>1 DEF Range, IsInjective
<1> QED BY <1>1, <1>2, <1>3

LEMMA TailList ==
  ASSUME NEW S, NEW q \in Seq(S), q # <<>>
  PROVE  /\ Head(q) \in S /\ Tail(q) \in Seq(S)
         /\ Head(q) \in Range(q)
         /\ Range(q) = Range(Tail(q)) \union {Head(q)}
         /\ IsInjective(q) => IsInjective(Tail(q)) /\ Head(q) \notin Range(Tail(q))
<1>1. /\ DOMAIN q = 1..Len(q)
      /\ DOMAIN Tail(q) = 1..(Len(q) - 1)
      /\ Len(q) \in Nat /\ Len(q) > 0
      /\ \A i \in 1..(Len(q) - 1) : Tail(q)[i] = q[i + 1]
      /\ Head(q) = q[1]
      /\ Head(q) \in S /\ Tail(q) \in Seq(S)
  OBVIOUS
<1>2. Head(q) \in Range(q)
  BY <1>1 DEF Range
<1>3. Range(q) = Range(Tail(q)) \union {Head(q)}
  <2>1. ASSUME NEW y \in Range(q)
        PROVE  y \in Range(Tail(q)) \union {Head(q)}
    <3>1. PICK i \in 1..Len(q) : q[i] = y
      BY <1>1 DEF Range
    <3>2. CASE i = 1
      BY <1>1, <3>1, <3>2
    <3>3. CASE i # 1
      <4>1. i - 1 \in 1..(Len(q) - 1)
        BY <1>1, <3>3, UpTo
      <4>2. Tail(q)[i - 1] = y
        BY <1>1, <3>1, <4>1
      <4> QED BY <1>1, <4>1, <4>2 DEF Range
    <3> QED BY <3>2, <3>3
  <2>2. \A y : y \in Range(Tail(q)) => y \in Range(q)
    BY <1>1 DEF Range
  <2> QED BY <1>2, <2>1, <2>2
<1>4. IsInjective(q) => IsInjective(Tail(q)) /\ Head(q) \notin Range(Tail(q))
  BY <1>1 DEF Range, IsInjective
<1> QED BY <1>1, <1>2, <1>3, <1>4

LEMMA PopBackList ==
  ASSUME NEW S, NEW q \in Seq(S), q # <<>>
  PROVE  /\ PopBack(q) \in Seq(S)
         /\ q[Len(q)] \in S
         /\ Range(q) = Range(PopBack(q)) \union {q[Len(q)]}
         /\ IsInjective(q) =>
              IsInjective(PopBack(q)) /\ q[Len(q)] \notin Range(PopBack(q))
<1>1. /\ DOMAIN q = 1..Len(q)
      /\ Len(q) \in Nat /\ Len(q) > 0
      /\ \A i \in 1..Len(q) : q[i] \in S
  OBVIOUS
<1>2. /\ PopBack(q) \in Seq(S)
      /\ DOMAIN PopBack(q) = 1..(Len(q) - 1)
      /\ \A i \in 1..(Len(q) - 1) : PopBack(q)[i] = q[i]
  BY <1>1 DEF PopBack
<1>3. Range(q) = Range(PopBack(q)) \union {q[Len(q)]}
  <2>1. ASSUME NEW y \in Range(q)
        PROVE  y \in Range(PopBack(q)) \union {q[Len(q)]}
    <3>1. PICK i \in 1..Len(q) : q[i] = y
      BY <1>1 DEF Range
    <3>2. CASE i = Len(q)
      BY <3>1, <3>2
    <3>3. CASE i # Len(q)
      <4>1. i \in 1..(Len(q) - 1)
        BY <1>1, <3>3, UpTo
      <4> QED BY <1>2, <3>1, <4>1 DEF Range
    <3> QED BY <3>2, <3>3
  <2>2. \A y : y \in Range(PopBack(q)) => y \in Range(q)
    BY <1>1, <1>2 DEF Range
  <2>3. q[Len(q)] \in Range(q)
    BY <1>1 DEF Range
  <2> QED BY <2>1, <2>2, <2>3
<1>4. IsInjective(q) =>
        IsInjective(PopBack(q)) /\ q[Len(q)] \notin Range(PopBack(q))
  BY <1>1, <1>2 DEF Range, IsInjective
<1> QED BY <1>1, <1>2, <1>3, <1>4

LEMMA ExtractList ==
  ASSUME NEW S, NEW q \in Seq(S), NEW e
  PROVE  /\ Extract(q, e) \in Seq(S)
         /\ IsInjective(q) => /\ Range(Extract(q, e)) = Range(q) \ {e}
                              /\ IsInjective(Extract(q, e))
<1>1. CASE e \notin Range(q)
  BY <1>1 DEF Extract
<1>2. CASE e \in Range(q)
  <2> DEFINE at == CHOOSE i \in DOMAIN q : q[i] = e
             x == Extract(q, e)
  <2>1. /\ DOMAIN q = 1..Len(q)
        /\ Len(q) \in Nat
        /\ \A i \in 1..Len(q) : q[i] \in S
    OBVIOUS
  <2>2. at \in 1..Len(q) /\ q[at] = e
    BY <1>2, <2>1 DEF Range
  <2>3. x = [i \in 1..(Len(q) - 1) |-> IF i < at THEN q[i] ELSE q[i + 1]]
    BY <1>2 DEF Extract
  <2> HIDE DEF at, x
  <2>4. /\ DOMAIN x = 1..(Len(q) - 1)
        /\ \A i \in 1..(Len(q) - 1) : i < at => x[i] = q[i]
        /\ \A i \in 1..(Len(q) - 1) : ~(i < at) => x[i] = q[i + 1]
    BY <2>3
  <2>5. x \in Seq(S)
    <3>1. Len(q) - 1 \in Nat
      BY <2>1, <2>2
    <3>2. \A i \in 1..(Len(q) - 1) : x[i] \in S
      BY <2>1, <2>2, <2>4
    <3> QED BY <2>3, <3>1, <3>2
  <2>6. ASSUME IsInjective(q)
        PROVE  IsInjective(x) /\ e \notin Range(x)
    <3>1. \A i, j \in 1..Len(q) : q[i] = q[j] => i = j
      BY <2>1, <2>6 DEF IsInjective
    <3>2. \A i \in 1..(Len(q) - 1) : x[i] # e
      BY <2>1, <2>2, <2>4, <3>1
    <3>3. ASSUME NEW i \in 1..(Len(q) - 1), NEW j \in 1..(Len(q) - 1),
                 x[i] = x[j]
          PROVE  i = j
      <4>1. CASE i < at /\ j < at
        BY <2>1, <2>2, <2>4, <3>1, <3>3, <4>1
      <4>2. CASE i < at /\ ~(j < at)
        BY <2>1, <2>2, <2>4, <3>1, <3>3, <4>2
      <4>3. CASE ~(i < at) /\ j < at
        BY <2>1, <2>2, <2>4, <3>1, <3>3, <4>3
      <4>4. CASE ~(i < at) /\ ~(j < at)
        BY <2>1, <2>2, <2>4, <3>1, <3>3, <4>4
      <4> QED BY <4>1, <4>2, <4>3, <4>4
    <3> QED BY <2>4, <3>2, <3>3 DEF Range, IsInjective
  <2>7. \A y : y \in Range(x) => y \in Range(q)
    BY <2>1, <2>2, <2>4 DEF Range
  <2>8. ASSUME NEW y \in Range(q), y # e PROVE y \in Range(x)
    <3>1. PICK i \in 1..Len(q) : q[i] = y
      BY <2>1 DEF Range
    <3>2. i # at
      BY <2>2, <2>8, <3>1
    <3>3. CASE i < at
      BY <2>1, <2>2, <2>4, <3>1, <3>3 DEF Range
    <3>4. CASE i > at
      <4>1. i - 1 \in 1..(Len(q) - 1) /\ ~(i - 1 < at) /\ x[i - 1] = q[i]
        BY <2>1, <2>2, <2>4, <3>1, <3>4
      <4> QED BY <2>4, <3>1, <4>1 DEF Range
    <3> QED BY <2>2, <3>1, <3>2, <3>3, <3>4
  <2> QED BY <2>5, <2>6, <2>7, <2>8 DEF x
<1> QED BY <1>1, <1>2

-----------------------------------------------------------------------------
(* Type correctness *)

LEMMA TypeInductive == TypeOK /\ EventsAccounted /\ [Next]_vars => TypeOK'
<1> SUFFICES ASSUME TypeOK, EventsAccounted, [Next]_vars PROVE TypeOK'
  OBVIOUS
<1>1. raced' \in BOOLEAN
  BY DEF Next, Recorded, Race, vars, TypeOK
<1> USE <1>1 DEF Event, Station
<1>2. ASSUME NEW th \in Thread, Acquire(th) PROVE TypeOK'
  BY <1>2 DEF Acquire, TypeOK
<1>3. ASSUME NEW th \in Thread, Release(th) PROVE TypeOK'
  BY <1>3 DEF Release, TypeOK
<1>4. ASSUME NEW th \in Thread, GetEventForWaiting(th) PROVE TypeOK'
  <2>1. /\ EventForWaiting \in Event
        /\ recycling_list' \in Seq(Event)
        /\ allocation_counter' \in Nat
    <3>1. CASE recycling_list = <<>>
      BY <1>4, <3>1 DEF GetEventForWaiting, EventForWaiting, TypeOK
    <3>2. CASE recycling_list # <<>>
      <4>1. /\ Head(recycling_list) \in Event
            /\ Tail(recycling_list) \in Seq(Event)
        BY <3>2, TailList DEF TypeOK
      <4> QED BY <1>4, <3>2, <4>1 DEF GetEventForWaiting, EventForWaiting, TypeOK
    <3> QED BY <3>1, <3>2
  <2> QED BY <1>4, <2>1, AppendList DEF GetEventForWaiting, TypeOK
<1>5. ASSUME NEW th \in Thread, ReleaseUserLock(th) PROVE TypeOK'
  BY <1>5 DEF ReleaseUserLock, TypeOK
<1>6. ASSUME NEW th \in Thread, WakeUp(th) PROVE TypeOK'
  BY <1>6 DEF WakeUp, TypeOK
<1>7. ASSUME NEW th \in Thread, TimeOut(th) PROVE TypeOK'
  BY <1>7 DEF TimeOut, TypeOK
<1>8. ASSUME NEW th \in Thread, RecycleEvent(th) PROVE TypeOK'
  <2>1. waiting_event[th] \in Event
    BY <1>8 DEF RecycleEvent, EventsAccounted, Waiting, TypeOK
  <2>2. /\ waiting_list' \in Seq(Event)
        /\ recycling_list' \in Seq(Event)
    BY <1>8, <2>1, ExtractList, AppendList DEF RecycleEvent, TypeOK
  <2> QED BY <1>8, <2>2 DEF RecycleEvent, NoEvent, TypeOK
<1>9. ASSUME NEW th \in Thread, ReacquireUserLock(th) PROVE TypeOK'
  BY <1>9 DEF ReacquireUserLock, TypeOK
<1>10. ASSUME NEW th \in Thread, Signal(th) PROVE TypeOK'
  <2>1. /\ waiting_list' \in Seq(Event)
        /\ waiting_list[Len(waiting_list)] \in Event
    BY <1>10, PopBackList DEF Signal, MaySignal, TypeOK
  <2> QED BY <1>10, <2>1 DEF Signal, TypeOK
<1>11. ASSUME NEW th \in Thread, Broadcast(th) PROVE TypeOK'
  BY <1>11 DEF Broadcast, TypeOK
<1>12. ASSUME NEW th \in Thread, SetEvent(th) PROVE TypeOK'
  <2>1. Head(handles[th]) \in Event /\ Tail(handles[th]) \in Seq(Event)
    BY <1>12, TailList DEF SetEvent, TypeOK
  <2> QED BY <1>12, <2>1 DEF SetEvent, TypeOK
<1>13. CASE UNCHANGED vars
  BY <1>13 DEF vars, TypeOK
<1> QED BY <1>2, <1>3, <1>4, <1>5, <1>6, <1>7, <1>8, <1>9, <1>10, <1>11,
           <1>12, <1>13 DEF Next, Step

-----------------------------------------------------------------------------
(* No event is leaked *)

LEMMA SameStation ==
  ASSUME EventsAccounted, \A th \in Thread : Waiting(th)' <=> Waiting(th),
         UNCHANGED <<waiting_list, recycling_list, allocation_counter,
                     waiting_event>>
  PROVE  EventsAccounted'
BY DEF EventsAccounted

LEMMA GetEventAccounted ==
  ASSUME TypeOK, EventsAccounted, NEW th \in Thread, GetEventForWaiting(th)
  PROVE  EventsAccounted'
<1> DEFINE e == EventForWaiting
<1>1. /\ waiting_event[th] = NoEvent
      /\ \A other \in Thread : waiting_event[other] # e
      /\ e \in 1..allocation_counter'
      /\ allocation_counter' \in Nat /\ allocation_counter <= allocation_counter'
      /\ Range(recycling_list') = Range(recycling_list) \ {e}
      /\ IsInjective(recycling_list')
      /\ \A x \in 1..allocation_counter' : x = e \/ x \in 1..allocation_counter
  <2>1. waiting_event[th] = NoEvent
    BY DEF GetEventForWaiting, EventsAccounted, Waiting
  <2>2. CASE recycling_list = <<>>
    <3>1. ASSUME NEW other \in Thread
          PROVE  waiting_event[other] # allocation_counter + 1
      <4>1. waiting_event[other] = NoEvent \/ waiting_event[other] \in 1..allocation_counter
        BY DEF EventsAccounted
      <4>2. allocation_counter \in Nat
        BY DEF TypeOK
      <4> QED BY <4>1, <4>2 DEF NoEvent
    <3>2. /\ e = allocation_counter + 1
          /\ allocation_counter' = allocation_counter + 1
          /\ recycling_list' = <<>>
      BY <2>2 DEF GetEventForWaiting, EventForWaiting
    <3> QED BY <2>1, <2>2, <3>1, <3>2, SmallLists DEF TypeOK
  <2>3. CASE recycling_list # <<>>
    <3>1. /\ e = Head(recycling_list)
          /\ allocation_counter' = allocation_counter
          /\ recycling_list' = Tail(recycling_list)
      BY <2>3 DEF GetEventForWaiting, EventForWaiting
    <3>2. /\ e \in Range(recycling_list)
          /\ Range(recycling_list) = Range(recycling_list') \union {e}
          /\ IsInjective(recycling_list') /\ e \notin Range(recycling_list')
      BY <2>3, <3>1, TailList DEF EventsAccounted, TypeOK
    <3> QED BY <2>1, <3>1, <3>2 DEF EventsAccounted, TypeOK
  <2> QED BY <2>2, <2>3
<1>2. /\ waiting_event' = [waiting_event EXCEPT ![th] = e]
      /\ \A other \in Thread : (Waiting(other)' <=> other = th \/ Waiting(other))
  BY DEF GetEventForWaiting, Waiting, TypeOK
<1>3. e \in Event
  BY <1>1 DEF Event
<1>4. e \notin Range(waiting_list)
  BY <1>1 DEF EventsAccounted
<1>5. /\ Range(waiting_list') = Range(waiting_list) \union {e}
      /\ IsInjective(waiting_list')
  BY <1>3, <1>4, AppendList DEF GetEventForWaiting, EventsAccounted, TypeOK
<1> HIDE DEF e
<1>6. /\ waiting_event'[th] = e
      /\ \A other \in Thread : other # th => waiting_event'[other] = waiting_event[other]
  BY <1>2 DEF TypeOK
<1>7. ASSUME NEW other \in Thread
      PROVE  IF Waiting(other)' THEN waiting_event'[other] \in 1..allocation_counter'
                                ELSE waiting_event'[other] = NoEvent
  <2>1. CASE other = th
    BY <1>1, <1>2, <1>6, <2>1
  <2>2. CASE other # th
    <3>1. (Waiting(other)' <=> Waiting(other)) /\ waiting_event'[other] = waiting_event[other]
      BY <1>2, <1>6, <2>2
    <3>2. CASE Waiting(other)
      <4>1. waiting_event[other] \in 1..allocation_counter
        BY <3>2 DEF EventsAccounted
      <4> QED BY <1>1, <3>1, <3>2, <4>1 DEF TypeOK
    <3>3. CASE ~Waiting(other)
      BY <3>1, <3>3 DEF EventsAccounted
    <3> QED BY <3>2, <3>3
  <2> QED BY <2>1, <2>2
<1>8. ASSUME NEW one \in Thread, NEW other \in Thread,
             waiting_event'[one] = waiting_event'[other], Waiting(one)'
      PROVE  one = other
  <2>1. CASE one = th \/ other = th
    BY <1>1, <1>6, <1>8, <2>1
  <2>2. CASE one # th /\ other # th
    BY <1>2, <1>6, <1>8, <2>2 DEF EventsAccounted
  <2> QED BY <2>1, <2>2
<1>9. ASSUME NEW x \in 1..allocation_counter'
      PROVE  x \in Range(recycling_list') <=>
               \A other \in Thread : waiting_event'[other] # x
  <2>1. CASE x = e
    BY <1>1, <1>6, <2>1
  <2>2. CASE x # e
    <3>1. x \in 1..allocation_counter
      BY <1>1, <2>2
    <3>2. (\A other \in Thread : waiting_event'[other] # x)
            <=> (\A other \in Thread : waiting_event[other] # x)
      <4>1. waiting_event[th] # x /\ waiting_event'[th] # x
        BY <1>1, <1>6, <2>2, <3>1 DEF NoEvent, TypeOK
      <4> QED BY <1>6, <4>1
    <3> QED BY <1>1, <2>2, <3>1, <3>2 DEF EventsAccounted
  <2> QED BY <2>1, <2>2
<1>10. Range(recycling_list') \subseteq 1..allocation_counter'
  BY <1>1 DEF EventsAccounted, TypeOK
<1>11. ASSUME NEW x \in Range(waiting_list')
       PROVE  \E other \in Thread : waiting_event'[other] = x
  <2>1. CASE x = e
    BY <1>6, <2>1
  <2>2. CASE x # e
    <3>1. PICK other \in Thread : waiting_event[other] = x
      BY <1>5, <1>11, <2>2 DEF EventsAccounted
    <3>2. x # NoEvent
      <4>1. x \in Range(waiting_list) /\ waiting_list \in Seq(Event)
        BY <1>5, <2>2 DEF TypeOK
      <4> QED BY <4>1 DEF Range, Event, NoEvent
    <3> QED BY <1>1, <1>6, <3>1, <3>2
  <2> QED BY <2>1, <2>2
<1> QED BY <1>1, <1>5, <1>7, <1>8, <1>9, <1>10, <1>11 DEF EventsAccounted

LEMMA RecycleAccounted ==
  ASSUME TypeOK, EventsAccounted, NEW th \in Thread, RecycleEvent(th)
  PROVE  EventsAccounted'
<1> DEFINE e == waiting_event[th]
<1>1. /\ e \in 1..allocation_counter /\ e \in Event
      /\ \A other \in Thread : waiting_event[other] = e => other = th
      /\ e \notin Range(recycling_list)
  BY DEF RecycleEvent, EventsAccounted, Waiting, TypeOK, Event
<1>2. /\ waiting_event' = [waiting_event EXCEPT ![th] = NoEvent]
      /\ waiting_event'[th] = NoEvent
      /\ \A other \in Thread : other # th => waiting_event'[other] = waiting_event[other]
      /\ allocation_counter' = allocation_counter
      /\ \A other \in Thread : (Waiting(other)' <=> other # th /\ Waiting(other))
  BY DEF RecycleEvent, Waiting, TypeOK
<1>3. /\ Range(waiting_list') = Range(waiting_list) \ {e}
      /\ IsInjective(waiting_list')
  BY ExtractList DEF RecycleEvent, EventsAccounted, TypeOK
<1>4. /\ Range(recycling_list') = Range(recycling_list) \union {e}
      /\ IsInjective(recycling_list')
  BY <1>1, AppendList DEF RecycleEvent, EventsAccounted, TypeOK
<1> HIDE DEF e
<1>5. ASSUME NEW other \in Thread
      PROVE  IF Waiting(other)' THEN waiting_event'[other] \in 1..allocation_counter'
                                ELSE waiting_event'[other] = NoEvent
  BY <1>2 DEF EventsAccounted
<1>6. ASSUME NEW one \in Thread, NEW other \in Thread,
             waiting_event'[one] = waiting_event'[other], Waiting(one)'
      PROVE  one = other
  <2>1. one # th /\ Waiting(one)
    BY <1>2, <1>6
  <2>2. CASE other = th
    BY <1>2, <1>6, <2>1, <2>2 DEF EventsAccounted, NoEvent, TypeOK
  <2>3. CASE other # th
    BY <1>2, <1>6, <2>1, <2>3 DEF EventsAccounted
  <2> QED BY <2>2, <2>3
<1>7. ASSUME NEW x \in 1..allocation_counter'
      PROVE  x \in Range(recycling_list') <=>
               \A other \in Thread : waiting_event'[other] # x
  <2>1. x \in 1..allocation_counter /\ x # NoEvent
    BY <1>2 DEF NoEvent, TypeOK
  <2>2. CASE x = e
    BY <1>1, <1>2, <1>4, <2>1, <2>2 
  <2>3. CASE x # e
    <3>1. (\A other \in Thread : waiting_event'[other] # x)
            <=> (\A other \in Thread : waiting_event[other] # x)
      BY <1>2, <2>1, <2>3 DEF e
    <3> QED BY <1>4, <2>1, <2>3, <3>1 DEF EventsAccounted
  <2> QED BY <2>2, <2>3
<1>8. Range(recycling_list') \subseteq 1..allocation_counter'
  BY <1>1, <1>2, <1>4 DEF EventsAccounted
<1>9. ASSUME NEW x \in Range(waiting_list')
      PROVE  \E other \in Thread : waiting_event'[other] = x
  <2>1. PICK other \in Thread : waiting_event[other] = x
    BY <1>3 DEF EventsAccounted
  <2> QED BY <1>2, <1>3, <2>1 DEF e
<1> QED BY <1>3, <1>4, <1>5, <1>6, <1>7, <1>8, <1>9 DEF EventsAccounted

\* Signal and Broadcast only shorten the waiting list.
LEMMA ShorterList ==
  ASSUME EventsAccounted,
         Range(waiting_list') \subseteq Range(waiting_list),
         IsInjective(waiting_list'),
         UNCHANGED <<recycling_list, allocation_counter, waiting_event, pc>>
  PROVE  EventsAccounted'
<1>1. \A th \in Thread : Waiting(th)' <=> Waiting(th)
  BY DEF Waiting
<1> QED BY <1>1 DEF EventsAccounted

LEMMA EventsInductive == TypeOK /\ EventsAccounted /\ [Next]_vars => EventsAccounted'
<1> SUFFICES ASSUME TypeOK, EventsAccounted, [Next]_vars PROVE EventsAccounted'
  OBVIOUS
<1>1. ASSUME NEW th \in Thread,
             \/ Acquire(th) \/ Release(th) \/ ReleaseUserLock(th) \/ WakeUp(th)
             \/ TimeOut(th) \/ ReacquireUserLock(th) \/ SetEvent(th)
      PROVE  EventsAccounted'
  <2>1. \A other \in Thread : Waiting(other)' <=> Waiting(other)
    BY <1>1 DEF Acquire, Release, ReleaseUserLock, WakeUp, TimeOut,
                ReacquireUserLock, SetEvent, Waiting, TypeOK
  <2>2. UNCHANGED <<waiting_list, recycling_list, allocation_counter, waiting_event>>
    BY <1>1 DEF Acquire, Release, ReleaseUserLock, WakeUp, TimeOut,
                ReacquireUserLock, SetEvent
  <2> QED BY <2>1, <2>2, SameStation
<1>2. ASSUME NEW th \in Thread, GetEventForWaiting(th) PROVE EventsAccounted'
  BY <1>2, GetEventAccounted
<1>3. ASSUME NEW th \in Thread, RecycleEvent(th) PROVE EventsAccounted'
  BY <1>3, RecycleAccounted
<1>4. ASSUME NEW th \in Thread, Signal(th) PROVE EventsAccounted'
  <2>1. /\ Range(waiting_list') \subseteq Range(waiting_list)
        /\ IsInjective(waiting_list')
    BY <1>4, PopBackList DEF Signal, MaySignal, EventsAccounted, TypeOK
  <2> QED BY <1>4, <2>1, ShorterList DEF Signal
<1>5. ASSUME NEW th \in Thread, Broadcast(th) PROVE EventsAccounted'
  <2>1. /\ Range(waiting_list') \subseteq Range(waiting_list)
        /\ IsInjective(waiting_list')
    BY <1>5, SmallLists DEF Broadcast
  <2> QED BY <1>5, <2>1, ShorterList DEF Broadcast
<1>6. CASE UNCHANGED vars
  <2>1. \A th \in Thread : Waiting(th)' <=> Waiting(th)
    BY <1>6 DEF vars, Waiting
  <2> QED BY <1>6, <2>1, SameStation DEF vars
<1> QED BY <1>1, <1>2, <1>3, <1>4, <1>5, <1>6 DEF Next, Step

-----------------------------------------------------------------------------
(* No signal is lost *)

LEMMA SignalsInductive ==
  TypeOK /\ EventsAccounted /\ NoLostSignal /\ [Next]_vars => NoLostSignal'
<1> SUFFICES ASSUME TypeOK, EventsAccounted, NoLostSignal, [Next]_vars,
                    NEW me \in Thread,
                    (pc[me] \in {"entered", "blocked"})',
                    (waiting_event[me] \notin Range(waiting_list))'
             PROVE  (waiting_event[me] \in signaled \/ InHandles(waiting_event[me]))'
  BY DEF NoLostSignal
<1> DEFINE e == waiting_event[me]
<1>1. SUFFICES ASSUME NEW th \in Thread,
                      \/ Acquire(th) \/ Release(th) \/ GetEventForWaiting(th)
                      \/ ReleaseUserLock(th) \/ WakeUp(th) \/ TimeOut(th)
                      \/ RecycleEvent(th) \/ ReacquireUserLock(th)
                      \/ Signal(th) \/ Broadcast(th) \/ SetEvent(th)
               PROVE  (e \in signaled \/ InHandles(e))'
  <2>1. CASE UNCHANGED vars
    BY <2>1 DEF vars, NoLostSignal, InHandles
  <2> QED BY <1>1, <2>1 DEF Next, Step
\* Another thread's event is not the one th handles.
<1>2. \A other \in Thread : Waiting(other) /\ other # me => waiting_event[other] # e
  BY DEF EventsAccounted
\* No step of th but SetEvent takes an event out of anybody's hands.
<1>3. ASSUME \A other \in Thread : handles'[other] = handles[other] \/ handles[other] = <<>>,
             InHandles(e), UNCHANGED waiting_event
      PROVE  InHandles(e)'
  BY <1>3, SmallLists DEF InHandles
<1>4. CASE Acquire(th) \/ Release(th) \/ ReacquireUserLock(th) \/ TimeOut(th)
  BY <1>4 DEF Acquire, Release, ReacquireUserLock, TimeOut, NoLostSignal,
              InHandles, TypeOK
<1>5. CASE ReleaseUserLock(th)
  BY <1>5 DEF ReleaseUserLock, NoLostSignal, InHandles, TypeOK
<1>6. CASE GetEventForWaiting(th)
  <2>1. EventForWaiting \in Event
    <3>1. CASE recycling_list = <<>>
      BY <3>1 DEF EventForWaiting, Event, TypeOK
    <3>2. CASE recycling_list # <<>>
      BY <3>2, TailList DEF EventForWaiting, TypeOK
    <3> QED BY <3>1, <3>2
  <2>2. Range(waiting_list') = Range(waiting_list) \union {EventForWaiting}
    BY <1>6, <2>1, AppendList DEF GetEventForWaiting, TypeOK
  <2>3. me # th
    BY <1>6, <2>2 DEF GetEventForWaiting, TypeOK
  <2>4. e' = e /\ pc'[me] = pc[me]
    BY <1>6, <2>3 DEF GetEventForWaiting, TypeOK
  <2> QED BY <1>6, <2>2, <2>4 DEF GetEventForWaiting, NoLostSignal, InHandles
<1>7. CASE WakeUp(th)
  <2>1. me # th
    BY <1>7 DEF WakeUp, TypeOK
  <2>2. waiting_event[th] # e
    BY <1>2, <1>7, <2>1 DEF WakeUp, Waiting
  <2> QED BY <1>7, <2>1, <2>2 DEF WakeUp, NoLostSignal, InHandles, TypeOK
<1>8. CASE RecycleEvent(th)
  <2>1. me # th
    BY <1>8 DEF RecycleEvent, TypeOK
  <2>2. waiting_event[th] # e
    BY <1>2, <1>8, <2>1 DEF RecycleEvent, Waiting
  <2>3. e' = e /\ pc'[me] = pc[me]
    BY <1>8, <2>1 DEF RecycleEvent, TypeOK
  <2>4. Range(waiting_list') = Range(waiting_list) \ {waiting_event[th]}
    BY <1>8, ExtractList DEF RecycleEvent, EventsAccounted, TypeOK
  <2> QED BY <1>8, <2>2, <2>3, <2>4 DEF RecycleEvent, NoLostSignal, InHandles
<1>9. CASE Signal(th)
  <2>1. /\ handles[th] = <<>>
        /\ handles'[th] = <<waiting_list[Len(waiting_list)]>>
        /\ \A other \in Thread : other # th => handles'[other] = handles[other]
        /\ UNCHANGED <<waiting_event, pc, signaled>>
    BY <1>9 DEF Signal, MaySignal, TypeOK
  <2>2. Range(waiting_list) =
          Range(waiting_list') \union {waiting_list[Len(waiting_list)]}
    BY <1>9, PopBackList DEF Signal, MaySignal, TypeOK
  <2>3. CASE e = waiting_list[Len(waiting_list)]
    BY <2>1, <2>3, SmallLists DEF InHandles
  <2>4. CASE e # waiting_list[Len(waiting_list)]
    BY <1>3, <2>1, <2>2, <2>4 DEF NoLostSignal
  <2> QED BY <2>3, <2>4
<1>10. CASE Broadcast(th)
  <2>1. /\ handles[th] = <<>>
        /\ handles'[th] = waiting_list
        /\ \A other \in Thread : other # th => handles'[other] = handles[other]
        /\ UNCHANGED <<waiting_event, pc, signaled>>
    BY <1>10 DEF Broadcast, MaySignal, TypeOK
  <2>2. CASE e \in Range(waiting_list)
    BY <2>1, <2>2 DEF InHandles
  <2>3. CASE e \notin Range(waiting_list)
    BY <1>3, <2>1, <2>3 DEF NoLostSignal
  <2> QED BY <2>2, <2>3
<1>11. CASE SetEvent(th)
  <2>1. /\ Range(handles[th]) = Range(handles'[th]) \union {Head(handles[th])}
        /\ \A other \in Thread : other # th => handles'[other] = handles[other]
        /\ signaled' = signaled \union {Head(handles[th])}
        /\ UNCHANGED <<waiting_event, pc, waiting_list>>
    BY <1>11, TailList DEF SetEvent, TypeOK
  <2>2. e \in signaled \/ InHandles(e)
    BY <2>1 DEF NoLostSignal
  <2> QED BY <2>1, <2>2 DEF InHandles
<1> QED BY <1>1, <1>4, <1>5, <1>6, <1>7, <1>8, <1>9, <1>10, <1>11

-----------------------------------------------------------------------------

LEMMA InitInvariant == Init => TypeOK /\ IInv
<1> SUFFICES ASSUME Init PROVE TypeOK /\ IInv
  OBVIOUS
<1>1. TypeOK
  <2>1. raced \in BOOLEAN
    BY Zenon DEF Init
  <2> QED BY <2>1 DEF Init, TypeOK, Event, Station, NoEvent
<1>2. EventsAccounted
  BY SmallLists DEF Init, EventsAccounted, Waiting
<1>3. NoLostSignal
  BY DEF Init, NoLostSignal
<1> QED BY <1>1, <1>2, <1>3 DEF IInv

LEMMA Invariance == Spec => [](TypeOK /\ IInv)
<1>1. TypeOK /\ IInv /\ [Next]_vars => (TypeOK /\ IInv)'
  BY TypeInductive, EventsInductive, SignalsInductive DEF IInv
<1> QED BY InitInvariant, <1>1, PTL DEF Spec

\* Every variable keeps its type, the events in the lists included.
THEOREM TypeCorrect == Spec => []TypeOK
BY Invariance, PTL

\* FAQ 12: TimedWait, Signal and Broadcast, interleaved in any way and timing
\* out or not, leak no event and never hand one to two threads.
THEOREM NoEventLeaks == Spec => []EventsAccounted
<1>1. IInv => EventsAccounted
  BY DEF IInv
<1> QED BY Invariance, <1>1, PTL

\* A thread selected by Signal or Broadcast has its event signaled or about to
\* be, whatever timeouts and SetEvents of earlier waits do.
THEOREM SignalsArrive == Spec => []NoLostSignal
<1>1. IInv => NoLostSignal
  BY DEF IInv
<1> QED BY Invariance, <1>1, PTL

-----------------------------------------------------------------------------
(* Until a time-out and a signal meet no signal is made up *)

\* The steps that move no event between the list, the hands and the event.
LEMMA SameSelected ==
  ASSUME NoLateSetEvent, UNCHANGED <<waiting_list, signaled, waiting_event, handles>>,
         \A th \in Thread : th \in Selected => th \in Selected',
         \A th \in Thread : pc'[th] = "awake" => pc[th] = "awake"
  PROVE  NoLateSetEvent'
BY DEF NoLateSetEvent, Selected

LEMMA SelectedNotListed ==
  ASSUME TypeOK, EventsAccounted, NoLateSetEvent, NEW e \in Range(waiting_list)
  PROVE  /\ \E th \in Thread :
              pc[th] \in {"entered", "blocked", "expired"} /\ waiting_event[th] = e
         /\ e \notin signaled
         /\ \A other \in Thread : e \notin Range(handles[other])
<1>1. PICK th \in Thread : waiting_event[th] = e
  BY DEF EventsAccounted
<1>2. e # NoEvent
  BY DEF Range, Event, NoEvent, TypeOK
<1>3. Waiting(th) /\ pc[th] # "awake"
  BY <1>1, <1>2 DEF EventsAccounted, NoLateSetEvent
<1>4. \A other \in Selected : waiting_event[other] # e
  BY DEF Selected
<1> QED BY <1>1, <1>3, <1>4 DEF Waiting, NoLateSetEvent

\* Signal and Broadcast move events from the list into th's hands.
LEMMA TakenInHand ==
  ASSUME TypeOK, EventsAccounted, NoLateSetEvent, NEW th \in Thread,
         handles[th] = <<>>, NEW new,
         handles' = [handles EXCEPT ![th] = new], IsInjective(new),
         UNCHANGED <<signaled, waiting_event, pc>>,
         Range(new) \subseteq Range(waiting_list),
         Range(waiting_list') = Range(waiting_list) \ Range(new),
         ~Race'
  PROVE  NoLateSetEvent'
<1>1. /\ handles'[th] = new
      /\ \A other \in Thread : other # th => handles'[other] = handles[other]
  BY DEF TypeOK
<1>2. \A other \in Thread : other \in Selected => other \in Selected'
  BY DEF Selected
<1>3. ASSUME NEW e \in Range(new)
      PROVE  /\ e \notin signaled
             /\ \A other \in Thread : e \notin Range(handles[other])
             /\ \E other \in Thread : other \in Selected' /\ waiting_event[other] = e
  BY <1>3, SelectedNotListed DEF Selected, Race
<1>4. \A e \in signaled' : \E other \in Selected' : waiting_event'[other] = e
  BY <1>2 DEF NoLateSetEvent, Selected
<1>5. ASSUME NEW other \in Thread, NEW e \in Range(handles'[other])
      PROVE  e \notin signaled' /\ \E one \in Selected' : waiting_event'[one] = e
  <2>1. CASE other = th
    BY <1>1, <1>3, <1>5, <2>1
  <2>2. CASE other # th
    BY <1>1, <1>2, <1>5, <2>2 DEF NoLateSetEvent, Selected
  <2> QED BY <2>1, <2>2
<1>6. ASSUME NEW one \in Thread, NEW other \in Thread,
             NEW e \in Range(handles'[one]), e \in Range(handles'[other])
      PROVE  one = other
  BY <1>1, <1>3, <1>6 DEF NoLateSetEvent
<1>7. \A one \in Thread : IsInjective(handles'[one])
  BY <1>1 DEF NoLateSetEvent
<1>8. \A one \in Thread : pc'[one] = "awake" => waiting_event'[one] \notin Range(waiting_list')
  BY DEF NoLateSetEvent
<1> QED BY <1>4, <1>5, <1>6, <1>7, <1>8 DEF NoLateSetEvent

LEMMA NoLateInductive ==
  ASSUME ~raced', TypeOK, EventsAccounted, NoLateSetEvent, [Next]_vars
  PROVE  NoLateSetEvent'
<1>1. SUFFICES ASSUME ~Race', NEW th \in Thread,
                      \/ Acquire(th) \/ Release(th) \/ GetEventForWaiting(th)
                      \/ ReleaseUserLock(th) \/ WakeUp(th) \/ TimeOut(th)
                      \/ RecycleEvent(th) \/ ReacquireUserLock(th)
                      \/ Signal(th) \/ Broadcast(th) \/ SetEvent(th)
               PROVE  NoLateSetEvent'
  <2>1. CASE UNCHANGED vars
    BY <2>1 DEF vars, NoLateSetEvent, Selected
  <2> QED BY <1>1, <2>1 DEF Next, Step, Recorded
<1>2. CASE Acquire(th) \/ Release(th) \/ ReleaseUserLock(th) \/ ReacquireUserLock(th)
  BY <1>2, SameSelected DEF Acquire, Release, ReleaseUserLock,
                            ReacquireUserLock, Selected, TypeOK
<1>3. CASE GetEventForWaiting(th)
  <2> DEFINE e == EventForWaiting
  <2>1. EventsAccounted' /\ TypeOK'
    BY EventsInductive, TypeInductive
  <2>2. e = waiting_event'[th] /\ waiting_event[th] = NoEvent /\ Waiting(th)'
    <3>1. ~Waiting(th)
      BY <1>3 DEF GetEventForWaiting, Waiting
    <3>2. waiting_event[th] = NoEvent
      BY <3>1 DEF EventsAccounted
    <3> QED BY <1>3, <3>2 DEF GetEventForWaiting, Waiting, TypeOK
  <2>3. \A other \in Thread : other # th =>
          waiting_event'[other] = waiting_event[other] /\ pc'[other] = pc[other]
    BY <1>3 DEF GetEventForWaiting, TypeOK
  <2>4. \A other \in Thread : other # th => waiting_event[other] # e
    BY <2>1, <2>2, <2>3 DEF EventsAccounted
  <2>5. Range(waiting_list') = Range(waiting_list) \union {e}
    <3>1. e \in Event
      BY <2>1, <2>2 DEF EventsAccounted, TypeOK, Event
    <3> QED BY <1>3, <3>1, AppendList DEF GetEventForWaiting, TypeOK
  <2> HIDE DEF e
  <2>6. \A other \in Selected : other \in Selected' /\ waiting_event'[other] = waiting_event[other]
    BY <1>3, <2>3, <2>4, <2>5 DEF Selected, GetEventForWaiting
  <2>7. \A other \in Thread : pc'[other] = "awake" => other # th /\ pc[other] = "awake"
    BY <1>3, <2>3 DEF GetEventForWaiting, TypeOK
  <2>8. UNCHANGED <<signaled, handles>>
    BY <1>3 DEF GetEventForWaiting
  <2>9. \A other \in Thread :
          pc'[other] = "awake" => waiting_event'[other] \notin Range(waiting_list')
    BY <2>3, <2>4, <2>5, <2>7 DEF NoLateSetEvent
  <2>10. \A x \in signaled' : \E one \in Selected' : waiting_event'[one] = x
    BY <2>6, <2>8 DEF NoLateSetEvent
  <2>11. ASSUME NEW other \in Thread, NEW x \in Range(handles'[other])
         PROVE  x \notin signaled' /\ \E one \in Selected' : waiting_event'[one] = x
    BY <2>6, <2>8, <2>11 DEF NoLateSetEvent
  <2> QED BY <2>8, <2>9, <2>10, <2>11 DEF NoLateSetEvent
<1>4. CASE WakeUp(th)
  <2>1. th \in Selected
    BY <1>4 DEF WakeUp, NoLateSetEvent, Selected, EventsAccounted, Waiting
  <2>2. /\ \A other \in Selected : other # th => other \in Selected'
        /\ \A other \in Thread : pc'[other] = "awake" => other = th \/ pc[other] = "awake"
        /\ UNCHANGED <<waiting_list, handles, waiting_event>>
        /\ signaled' = signaled \ {waiting_event[th]}
        /\ waiting_event[th] \in signaled
    BY <1>4 DEF WakeUp, Selected, TypeOK
  <2>3. \A x \in signaled' : \E one \in Selected' : waiting_event'[one] = x
    BY <2>2 DEF NoLateSetEvent
  <2>4. ASSUME NEW other \in Thread, NEW x \in Range(handles'[other])
        PROVE  x \notin signaled' /\ \E one \in Selected' : waiting_event'[one] = x
    BY <2>2, <2>4 DEF NoLateSetEvent
  <2>5. \A other \in Thread :
          pc'[other] = "awake" => waiting_event'[other] \notin Range(waiting_list')
    BY <2>1, <2>2 DEF NoLateSetEvent, Selected
  <2> QED BY <2>2, <2>3, <2>4, <2>5 DEF NoLateSetEvent
<1>5. CASE TimeOut(th)
  <2>1. /\ pc'[th] = "expired"
        /\ \A other \in Thread : other # th => pc'[other] = pc[other]
        /\ UNCHANGED <<waiting_list, signaled, waiting_event, handles>>
    BY <1>5 DEF TimeOut, TypeOK
  <2>2. th \notin Selected
    BY <1>1, <2>1 DEF Selected, Race
  <2> QED BY <2>1, <2>2, SameSelected DEF Selected
<1>6. CASE RecycleEvent(th)
  <2>1. /\ UNCHANGED <<signaled, handles>>
        /\ th \notin Selected
        /\ \A other \in Thread : other # th =>
             waiting_event'[other] = waiting_event[other] /\ pc'[other] = pc[other]
        /\ pc'[th] = "locking"
    BY <1>6 DEF RecycleEvent, Selected, TypeOK
  <2>2. Range(waiting_list') \subseteq Range(waiting_list)
    BY <1>6, ExtractList DEF RecycleEvent, EventsAccounted, TypeOK
  <2>3. \A other \in Selected : other \in Selected' /\ waiting_event'[other] = waiting_event[other]
    BY <2>1, <2>2 DEF Selected
  <2>4. \A x \in signaled' : \E one \in Selected' : waiting_event'[one] = x
    BY <2>1, <2>3 DEF NoLateSetEvent
  <2>5. ASSUME NEW other \in Thread, NEW x \in Range(handles'[other])
        PROVE  x \notin signaled' /\ \E one \in Selected' : waiting_event'[one] = x
    BY <2>1, <2>3, <2>5 DEF NoLateSetEvent
  <2>6. \A other \in Thread :
          pc'[other] = "awake" => waiting_event'[other] \notin Range(waiting_list')
    BY <2>1, <2>2 DEF NoLateSetEvent
  <2> QED BY <2>1, <2>4, <2>5, <2>6 DEF NoLateSetEvent
<1>7. CASE Signal(th)
  <2> DEFINE last == waiting_list[Len(waiting_list)]
  <2>1. /\ Range(waiting_list) = Range(waiting_list') \union {last}
        /\ last \notin Range(waiting_list')
    BY <1>7, PopBackList DEF Signal, MaySignal, EventsAccounted, TypeOK
  <2>2. Range(<<last>>) = {last} /\ IsInjective(<<last>>)
    BY SmallLists
  <2>3. /\ handles[th] = <<>>
        /\ handles' = [handles EXCEPT ![th] = <<last>>]
        /\ UNCHANGED <<signaled, waiting_event, pc>>
    BY <1>7 DEF Signal, MaySignal
  <2> QED BY <1>1, <2>1, <2>2, <2>3, TakenInHand
<1>8. CASE Broadcast(th)
  <2>1. /\ handles[th] = <<>>
        /\ handles' = [handles EXCEPT ![th] = waiting_list]
        /\ waiting_list' = <<>>
        /\ UNCHANGED <<signaled, waiting_event, pc>>
    BY <1>8 DEF Broadcast, MaySignal
  <2>2. Range(waiting_list') = Range(waiting_list) \ Range(waiting_list)
    BY <2>1, SmallLists
  <2> QED BY <1>1, <2>1, <2>2, TakenInHand DEF EventsAccounted
<1>9. CASE SetEvent(th)
  <2> DEFINE e == Head(handles[th])
  <2>1. /\ Range(handles[th]) = Range(handles'[th]) \union {e}
        /\ e \in Range(handles[th]) /\ e \notin Range(handles'[th])
        /\ IsInjective(handles'[th])
        /\ \A other \in Thread : other # th => handles'[other] = handles[other]
        /\ signaled' = signaled \union {e}
        /\ UNCHANGED <<waiting_event, pc, waiting_list>>
    BY <1>9, TailList DEF SetEvent, NoLateSetEvent, TypeOK
  <2>2. Selected' = Selected
    BY <2>1 DEF Selected
  <2> HIDE DEF e
  <2>3. \A x \in signaled' : \E one \in Selected' : waiting_event'[one] = x
    BY <2>1, <2>2 DEF NoLateSetEvent
  <2>4. ASSUME NEW other \in Thread, NEW x \in Range(handles'[other])
        PROVE  x \notin signaled' /\ \E one \in Selected' : waiting_event'[one] = x
    <3>1. x \in Range(handles[other]) /\ x # e
      BY <2>1, <2>4 DEF NoLateSetEvent
    <3> QED BY <2>1, <2>2, <3>1 DEF NoLateSetEvent
  <2>5. ASSUME NEW one \in Thread, NEW other \in Thread,
               NEW x \in Range(handles'[one]), x \in Range(handles'[other])
        PROVE  one = other
    <3>1. x \in Range(handles[one]) /\ x \in Range(handles[other])
      BY <2>1, <2>5
    <3> QED BY <3>1 DEF NoLateSetEvent
  <2>6. \A one \in Thread : IsInjective(handles'[one])
    BY <2>1 DEF NoLateSetEvent
  <2> QED BY <2>1, <2>3, <2>4, <2>5, <2>6 DEF NoLateSetEvent
<1> QED BY <1>1, <1>2, <1>3, <1>4, <1>6, <1>7, <1>8, <1>9, <1>5

\* The author's doubt in FAQ 4, settled: until a time-out and a signal meet, no wait
\* is signaled unless a Signal or Broadcast selected that very thread.
THEOREM NoSignalMadeUp == Spec => NoSpuriousSignal
<1> DEFINE Late == raced \/ NoLateSetEvent
<1>1. Init => Late
  BY SmallLists DEF Init, NoLateSetEvent
<1>2. TypeOK /\ IInv /\ Late /\ [Next]_vars => Late'
  <2>1. [Next]_vars => (raced => raced')
    BY DEF Next, Recorded, vars
  <2> QED BY <2>1, NoLateInductive DEF IInv
<1>3. TypeOK /\ IInv /\ Late /\ [Next]_vars =>
        [\A th \in Thread : WakeUp(th) =>
           raced \/ waiting_event[th] \notin Range(waiting_list)]_vars
  <2> SUFFICES ASSUME TypeOK, IInv, Late, NEW th \in Thread, WakeUp(th)
               PROVE  raced \/ waiting_event[th] \notin Range(waiting_list)
    OBVIOUS
  <2> QED BY SelectedNotListed DEF WakeUp, IInv
<1> QED BY Invariance, <1>1, <1>2, <1>3, PTL DEF Spec, NoSpuriousSignal

-----------------------------------------------------------------------------
(* The events are bounded by the threads *)

\* An event is allocated only when the others all belong to other threads.
LEMMA BoundInductive ==
  TypeOK /\ EventsAccounted /\ EventsBounded /\ [Next]_vars => EventsBounded'
<1> SUFFICES ASSUME TypeOK, EventsAccounted, EventsBounded, [Next]_vars,
                    allocation_counter' # allocation_counter
             PROVE  allocation_counter' <= Cardinality(Thread)
  BY DEF EventsBounded
<1> DEFINE n == allocation_counter
<1>1. PICK th \in Thread : GetEventForWaiting(th)
  BY DEF Next, Step, vars, Acquire, Release, ReleaseUserLock, WakeUp, TimeOut,
         RecycleEvent, ReacquireUserLock, Signal, Broadcast, SetEvent
<1>2. /\ recycling_list = <<>> /\ allocation_counter' = n + 1 /\ n \in Nat
      /\ waiting_event[th] = NoEvent
  BY <1>1 DEF GetEventForWaiting, EventsAccounted, Waiting, TypeOK
<1>3. \A e \in 1..n : \E other \in Thread \ {th} : waiting_event[other] = e
  BY <1>2, SmallLists DEF EventsAccounted, NoEvent
<1> DEFINE f == [e \in 1..n |-> CHOOSE other \in Thread \ {th} : waiting_event[other] = e]
<1>4. f \in Injection(1..n, Thread \ {th})
  <2>1. \A e \in 1..n : f[e] \in Thread \ {th} /\ waiting_event[f[e]] = e
    BY <1>3
  <2> HIDE DEF f
  <2>2. f \in [1..n -> Thread \ {th}]
    <3>1. f = [e \in 1..n |-> f[e]]
      BY DEF f
    <3> QED BY <2>1, <3>1
  <2> QED BY <2>1, <2>2 DEF Injection, IsInjective
<1>5. /\ IsFiniteSet(Thread \ {th})
      /\ Cardinality(Thread \ {th}) = Cardinality(Thread) - 1
      /\ Cardinality(Thread) \in Nat
  BY ConditionVariableAssumption, FS_RemoveElement, FS_CardinalityType
<1>6. Cardinality(1..n) = n
  BY <1>2, FS_Interval
<1>7. Cardinality(1..n) <= Cardinality(Thread \ {th})
  BY <1>4, <1>5, FS_Injection
<1> QED BY <1>2, <1>5, <1>6, <1>7

\* The recycling list and the waiting list together never hold more events
\* than there are threads.
THEOREM EventsAreBounded == Spec => []EventsBounded
<1>1. Init => EventsBounded
  BY ConditionVariableAssumption, FS_CardinalityType DEF Init, EventsBounded
<1>2. TypeOK /\ IInv /\ EventsBounded /\ [Next]_vars => EventsBounded'
  BY BoundInductive DEF IInv
<1> QED BY Invariance, <1>1, <1>2, PTL DEF Spec

-----------------------------------------------------------------------------
(* What the waiting threads see *)

\* CondVar's variables.
Sleepers == [i \in DOMAIN waiting_list |-> Owner(waiting_list[i])]
Woken == {th \in Thread :
            Waiting(th) /\ waiting_event[th] \notin Range(waiting_list)}

\* The safety of ImplementsCondVar.
StepsAreAbstract == Abstract!Init /\ [][Abstract!Next]_(Abstract!vars)

\* Each event in the waiting list is that of one thread, which waits.
LEMMA OwnersWait ==
  ASSUME TypeOK, EventsAccounted, NEW i \in DOMAIN waiting_list
  PROVE  /\ Sleepers[i] \in Thread
         /\ waiting_event[Sleepers[i]] = waiting_list[i]
         /\ Waiting(Sleepers[i])
         /\ \A th \in Thread :
              waiting_event[th] = waiting_list[i] => th = Sleepers[i]
<1>1. waiting_list[i] \in Range(waiting_list) /\ waiting_list[i] # NoEvent
  BY DEF TypeOK, Range, Event, NoEvent
<1>2. \E th \in Thread : waiting_event[th] = waiting_list[i]
  BY <1>1 DEF EventsAccounted
<1>3. /\ Owner(waiting_list[i]) \in Thread
      /\ waiting_event[Owner(waiting_list[i])] = waiting_list[i]
  BY <1>2 DEF Owner
<1>4. Sleepers[i] = Owner(waiting_list[i])
  BY DEF Sleepers
<1> QED BY <1>1, <1>3, <1>4 DEF EventsAccounted

LEMMA SleepersSequence ==
  ASSUME TypeOK, EventsAccounted
  PROVE  /\ Sleepers \in Seq(Thread)
         /\ Len(Sleepers) = Len(waiting_list)
         /\ DOMAIN waiting_list = 1 .. Len(waiting_list)
         /\ Len(waiting_list) \in Nat
<1>1. DOMAIN waiting_list = 1 .. Len(waiting_list) /\ Len(waiting_list) \in Nat
  BY DEF TypeOK
<1>2. \A i \in 1 .. Len(waiting_list) : Sleepers[i] \in Thread
  BY <1>1, OwnersWait
<1> QED BY <1>1, <1>2 DEF Sleepers

LEMMA SleepersPrimed ==
  ASSUME TypeOK', EventsAccounted', NEW j \in DOMAIN waiting_list',
         NEW th \in Thread, waiting_event'[th] = waiting_list'[j]
  PROVE  Sleepers'[j] = th
<1>1. /\ waiting_list'[j] # NoEvent
      /\ \A one, other \in Thread :
           waiting_event'[one] = waiting_event'[other] /\ waiting_event'[one] # NoEvent
             => one = other
  <2>1. waiting_list' \in Seq(Event)
    BY DEF TypeOK
  <2>2. waiting_list'[j] # NoEvent
    BY <2>1 DEF Event, NoEvent
  <2> QED BY <2>2 DEF EventsAccounted
<1>2. /\ Owner(waiting_list[j])' \in Thread
      /\ waiting_event'[Owner(waiting_list[j])'] = waiting_list'[j]
  BY DEF Owner
<1>3. Sleepers'[j] = Owner(waiting_list[j])'
  BY DEF Sleepers
<1> QED BY <1>1, <1>2, <1>3

\* The steps that leave the list, the events of the waiting threads and who
\* waits alone.
LEMMA SleepOn ==
  ASSUME UNCHANGED <<waiting_list, waiting_event>>,
         \A th \in Thread : Waiting(th)' = Waiting(th)
  PROVE  UNCHANGED Abstract!vars
<1>1. Sleepers' = Sleepers
  BY DEF Sleepers, Owner
<1>2. Woken' = Woken
  BY DEF Woken
<1> QED BY <1>1, <1>2 DEF Abstract!vars, Sleepers, Woken

\* Extract takes out the one place an event has in the waiting list.
LEMMA ExtractPlace ==
  ASSUME NEW q \in Seq(Event), IsInjective(q), NEW at \in DOMAIN q
  PROVE  /\ Extract(q, q[at]) \in Seq(Event)
         /\ Len(Extract(q, q[at])) = Len(q) - 1
         /\ \A i \in 1 .. Len(q) - 1 :
              Extract(q, q[at])[i] = IF i < at THEN q[i] ELSE q[i + 1]
<1>1. /\ DOMAIN q = 1 .. Len(q) /\ Len(q) \in Nat /\ Len(q) > 0
      /\ q[at] \in Range(q)
  BY DEF Range
<1>2. (CHOOSE i \in DOMAIN q : q[i] = q[at]) = at
  BY DEF IsInjective
<1>3. Extract(q, q[at]) =
        [i \in 1 .. Len(q) - 1 |-> IF i < at THEN q[i] ELSE q[i + 1]]
  BY <1>1, <1>2 DEF Extract
<1>4. \A i \in 1 .. Len(q) - 1 : (IF i < at THEN q[i] ELSE q[i + 1]) \in Event
  BY <1>1
<1> QED BY <1>1, <1>3, <1>4

\* A sequence without its i-th element.
LEMMA WithoutPlace ==
  ASSUME NEW S, NEW q \in Seq(S), NEW at \in DOMAIN q, NEW r \in Seq(S),
         Len(r) = Len(q) - 1,
         \A i \in 1 .. Len(q) - 1 : r[i] = IF i < at THEN q[i] ELSE q[i + 1]
  PROVE  r = SubSeq(q, 1, at - 1) \o SubSeq(q, at + 1, Len(q))
<1> DEFINE a == SubSeq(q, 1, at - 1)
           b == SubSeq(q, at + 1, Len(q))
<1>1. DOMAIN q = 1 .. Len(q) /\ Len(q) \in Nat /\ at \in 1 .. Len(q)
  OBVIOUS
<1>2. /\ a \in Seq(S) /\ Len(a) = at - 1
      /\ \A i \in 1 .. at - 1 : a[i] = q[i]
  BY <1>1
<1>3. /\ b \in Seq(S) /\ Len(b) = Len(q) - at
      /\ \A i \in 1 .. Len(q) - at : b[i] = q[at + i]
  <2>1. PICK n \in Nat : n = Len(q)
    BY <1>1
  <2>2. at \in 1 .. n /\ \A i \in at + 1 .. n : q[i] \in S
    BY <1>1, <2>1
  <2>3. /\ at + 1 \in Int /\ n \in Int
        /\ (IF at + 1 <= n THEN n - (at + 1) + 1 ELSE 0) = n - at
        /\ n - (at + 1) + 1 = n - at
    BY <2>2
  <2>4. /\ SubSeq(q, at + 1, n) \in Seq(S)
        /\ Len(SubSeq(q, at + 1, n)) = n - at
        /\ \A i \in 1 .. n - at : SubSeq(q, at + 1, n)[i] = q[(at + 1) + i - 1]
    BY <2>2, <2>3, SubSeqProperties
  <2>5. \A i \in 1 .. n - at : (at + 1) + i - 1 = at + i
    BY <2>2
  <2> QED BY <2>1, <2>4, <2>5
<1> HIDE DEF a, b
<1>4. /\ a \o b \in Seq(S) /\ Len(a \o b) = Len(q) - 1
      /\ \A i \in 1 .. at - 1 : (a \o b)[i] = a[i]
      /\ \A i \in at .. Len(q) - 1 : (a \o b)[i] = b[i - at + 1]
  <2>1. PICK n \in Nat : n = Len(q)
    BY <1>1
  <2>2. at \in 1 .. n /\ Len(a) = at - 1 /\ Len(b) = n - at
    BY <1>1, <1>2, <1>3, <2>1
  <2>3. /\ a \o b \in Seq(S) /\ Len(a \o b) = Len(a) + Len(b)
        /\ \A i \in 1 .. Len(a) + Len(b) :
             (a \o b)[i] = IF i <= Len(a) THEN a[i] ELSE b[i - Len(a)]
    <3>1. a \in Seq(S) /\ b \in Seq(S)
      BY <1>2, <1>3
    <3> QED BY <3>1, ConcatProperties
  <2>4. Len(a \o b) = n - 1
    BY <2>2, <2>3
  <2>5. \A i \in 1 .. n - 1 :
          (a \o b)[i] = IF i <= at - 1 THEN a[i] ELSE b[i - (at - 1)]
    <3>1. Len(a) + Len(b) = n - 1
      BY <2>2
    <3> QED BY <2>2, <2>3, <3>1, Zenon
  <2>6. \A i \in 1 .. at - 1 : (a \o b)[i] = a[i]
    BY <2>2, <2>5
  <2>7. ASSUME NEW i \in at .. n - 1 PROVE (a \o b)[i] = b[i - at + 1]
    <3>1. i \in 1 .. n - 1 /\ ~(i <= at - 1) /\ i - (at - 1) = i - at + 1
      BY <2>2
    <3> QED BY <2>5, <3>1
  <2> QED BY <2>1, <2>3, <2>4, <2>6, <2>7
<1>5. ASSUME NEW i \in 1 .. Len(q) - 1 PROVE r[i] = (a \o b)[i]
  <2>1. CASE i < at
    BY <1>1, <1>2, <1>4, <2>1
  <2>2. CASE i >= at
    <3>1. i - at + 1 \in 1 .. Len(q) - at /\ at + (i - at + 1) = i + 1
      BY <1>1, <2>2
    <3>2. (a \o b)[i] = b[i - at + 1]
      BY <1>1, <1>4, <2>2
    <3>3. b[i - at + 1] = q[i + 1]
      BY <1>3, <3>1
    <3>4. r[i] = q[i + 1]
      BY <1>1, <2>2
    <3> QED BY <3>2, <3>3, <3>4
  <2>3. i < at \/ i >= at
    BY <1>1
  <2> QED BY <2>1, <2>2, <2>3
<1>6. r = a \o b
  <2>1. Len(r) = Len(a \o b) /\ a \o b \in Seq(S)
    BY <1>4
  <2> QED BY <1>5, <2>1, SeqEqual
<1> QED BY <1>6 DEF a, b

\* Each place of the new list, once it is known who sleeps there.
LEMMA SleepersAre ==
  ASSUME TypeOK', NEW q \in Seq(Thread), Len(q) = Len(waiting_list'),
         \A i \in 1 .. Len(q) : Sleepers'[i] = q[i]
  PROVE  Sleepers' = q
<1>1. DOMAIN waiting_list' = 1 .. Len(waiting_list')
  BY DEF TypeOK
<1>2. Sleepers' = [i \in 1 .. Len(q) |-> Sleepers'[i]]
  BY <1>1 DEF Sleepers
<1>3. q = [i \in 1 .. Len(q) |-> q[i]]
  OBVIOUS
<1> QED BY <1>2, <1>3

LEMMA WaitRefines ==
  ASSUME TypeOK, TypeOK', EventsAccounted, EventsAccounted',
         NEW th \in Thread, GetEventForWaiting(th)
  PROVE  Abstract!Wait(th)
<1> DEFINE n == Len(waiting_list)
<1>1. PICK e : e = EventForWaiting
  OBVIOUS
<1>2. /\ waiting_list' = Append(waiting_list, e)
      /\ waiting_event' = [waiting_event EXCEPT ![th] = e]
      /\ pc' = [pc EXCEPT ![th] = "entered"]
      /\ ~Waiting(th)
  BY <1>1 DEF GetEventForWaiting, Waiting
<1>3. /\ n \in Nat /\ DOMAIN waiting_list = 1 .. n
      /\ Len(waiting_list') = n + 1 /\ DOMAIN waiting_list' = 1 .. n + 1
      /\ \A i \in 1 .. n : waiting_list'[i] = waiting_list[i]
      /\ waiting_list'[n + 1] = e
      /\ Range(waiting_list') = Range(waiting_list) \union {e}
  <2>1. waiting_list \in Seq(Event) /\ waiting_list' \in Seq(Event)
    BY DEF TypeOK
  <2>2. e \in Event
    <3>1. waiting_list'[Len(waiting_list')] \in Event
      BY <1>2, <2>1
    <3> QED BY <1>2, <2>1, <3>1
  <2> QED BY <1>2, <2>1, <2>2, AppendList
<1>4. /\ \A other \in Thread : other # th => waiting_event'[other] = waiting_event[other]
      /\ waiting_event'[th] = e
      /\ \A other \in Thread : Waiting(other)' <=> other = th \/ Waiting(other)
  BY <1>2 DEF TypeOK, Waiting
<1>5. \A i \in 1 .. n : Sleepers[i] \in Thread /\ Sleepers[i] # th
  BY <1>2, <1>3, OwnersWait
<1>6. \A i \in 1 .. n : Sleepers'[i] = Sleepers[i]
  <2> TAKE i \in 1 .. n
  <2>1. waiting_event'[Sleepers[i]] = waiting_list'[i]
    BY <1>3, <1>4, <1>5, OwnersWait
  <2> QED BY <1>3, <1>5, <2>1, SleepersPrimed
<1>7. Sleepers'[n + 1] = th
  BY <1>3, <1>4, SleepersPrimed
<1>8. Sleepers \in Seq(Thread) /\ Len(Sleepers) = n
  BY SleepersSequence
<1>9. Sleepers' = Append(Sleepers, th)
  <2>1. /\ Append(Sleepers, th) \in Seq(Thread) /\ Len(Append(Sleepers, th)) = n + 1
        /\ \A i \in 1 .. n : Append(Sleepers, th)[i] = Sleepers[i]
        /\ Append(Sleepers, th)[n + 1] = th
    BY <1>8
  <2>2. \A i \in 1 .. n + 1 : Sleepers'[i] = Append(Sleepers, th)[i]
    BY <1>3, <1>6, <1>7, <2>1
  <2> QED BY <1>3, <2>1, <2>2, SleepersAre
<1>10. Woken' = Woken /\ th \notin Woken
  BY <1>2, <1>3, <1>4 DEF Woken, EventsAccounted
<1>11. ~Abstract!Asleep(th)
  <2>1. th \notin Range(Sleepers)
    BY <1>5, <1>8 DEF Range
  <2> QED BY <2>1 DEF Abstract!Asleep, Abstract!Range, Range, Sleepers
<1> QED BY <1>9, <1>10, <1>11 DEF Abstract!Wait, Sleepers, Woken

LEMMA Sleeping ==
  ASSUME TypeOK, EventsAccounted, NEW n \in Nat, n = Len(waiting_list)
  PROVE  /\ DOMAIN waiting_list = 1 .. n /\ waiting_list \in Seq(Event)
         /\ IsInjective(waiting_list)
         /\ Sleepers \in Seq(Thread) /\ Len(Sleepers) = n
         /\ \A i \in 1 .. n : Sleepers[i] \in Thread
         /\ \A i \in 1 .. n : waiting_event[Sleepers[i]] = waiting_list[i]
         /\ \A i \in 1 .. n : Waiting(Sleepers[i])
<1>1. DOMAIN waiting_list = 1 .. n /\ waiting_list \in Seq(Event)
  BY DEF TypeOK
<1>2. \A i \in 1 .. n : /\ Sleepers[i] \in Thread
                        /\ waiting_event[Sleepers[i]] = waiting_list[i]
                        /\ Waiting(Sleepers[i])
  <2> TAKE i \in 1 .. n
  <2> QED BY <1>1, OwnersWait
<1> QED BY <1>1, <1>2, SleepersSequence DEF EventsAccounted

\* A thread that comes out of its wait was woken, or gives up.
LEMMA RecycleRefines ==
  ASSUME TypeOK, TypeOK', EventsAccounted, EventsAccounted',
         NEW th \in Thread, RecycleEvent(th)
  PROVE  Abstract!Return(th) \/ Abstract!GiveUp(th)
<1>1. PICK e : e = waiting_event[th]
  OBVIOUS
<1>2. /\ waiting_list' = Extract(waiting_list, e)
      /\ waiting_event' = [waiting_event EXCEPT ![th] = NoEvent]
      /\ pc' = [pc EXCEPT ![th] = "locking"]
      /\ Waiting(th) /\ e # NoEvent
  BY <1>1 DEF RecycleEvent, Waiting, EventsAccounted, NoEvent
<1>3. PICK n \in Nat : n = Len(waiting_list)
  BY DEF TypeOK
<1>4. /\ DOMAIN waiting_list = 1 .. n /\ waiting_list \in Seq(Event)
      /\ IsInjective(waiting_list)
      /\ Sleepers \in Seq(Thread) /\ Len(Sleepers) = n
      /\ \A i \in 1 .. n : Sleepers[i] \in Thread
      /\ \A i \in 1 .. n : waiting_event[Sleepers[i]] = waiting_list[i]
  BY <1>3, Sleeping
<1>5. /\ \A other \in Thread : other # th => waiting_event'[other] = waiting_event[other]
      /\ \A other \in Thread : Waiting(other)' <=> other # th /\ Waiting(other)
      /\ \A other \in Thread : other # th => waiting_event[other] # e
  BY <1>1, <1>2 DEF TypeOK, Waiting, EventsAccounted
<1>6. CASE e \notin Range(waiting_list)
  <2>1. UNCHANGED waiting_list
    BY <1>2, <1>6 DEF Extract
  <2>2. ASSUME NEW i \in 1 .. n PROVE Sleepers'[i] = Sleepers[i]
    <3>1. waiting_list[i] # e
      BY <1>4, <1>6 DEF Range
    <3>2. waiting_event'[Sleepers[i]] = waiting_list'[i]
      BY <1>1, <1>4, <1>5, <2>1, <3>1
    <3> QED BY <1>4, <2>1, <3>2, SleepersPrimed
  <2>3. Sleepers' = Sleepers
    BY <1>3, <1>4, <2>1, <2>2, SleepersAre
  <2>4. th \in Woken /\ Woken' = Woken \ {th}
    BY <1>1, <1>2, <1>5, <1>6, <2>1 DEF Woken
  <2> QED BY <2>3, <2>4 DEF Abstract!Return, Sleepers, Woken
<1>7. CASE e \in Range(waiting_list)
  <2>1. PICK at \in 1 .. n : waiting_list[at] = e
    BY <1>4, <1>7 DEF Range
  <2>2. Sleepers[at] = th
    BY <1>4, <1>5, <2>1
  <2>3. /\ waiting_list' \in Seq(Event) /\ Len(waiting_list') = n - 1
        /\ \A i \in 1 .. n - 1 : waiting_list'[i] =
             IF i < at THEN waiting_list[i] ELSE waiting_list[i + 1]
    <3>1. at \in DOMAIN waiting_list /\ waiting_list' = Extract(waiting_list, waiting_list[at])
      BY <1>2, <1>4, <2>1
    <3> QED BY <1>3, <1>4, <3>1, ExtractPlace
  <2>4. DOMAIN waiting_list' = 1 .. n - 1
    BY <2>3
  <2>5. ASSUME NEW i \in 1 .. n - 1
        PROVE  Sleepers'[i] = IF i < at THEN Sleepers[i] ELSE Sleepers[i + 1]
    <3>1. PICK j \in 1 .. n : j # at /\ j = IF i < at THEN i ELSE i + 1
      <4>1. CASE i < at
        BY <4>1
      <4>2. CASE ~(i < at)
        BY <4>2
      <4> QED BY <4>1, <4>2
    <3>2. waiting_list'[i] = waiting_list[j] /\ waiting_list[j] # e
      BY <1>4, <2>1, <2>3, <3>1 DEF IsInjective
    <3>3. waiting_event'[Sleepers[j]] = waiting_list'[i]
      BY <1>1, <1>4, <1>5, <3>2
    <3>4. Sleepers'[i] = Sleepers[j]
      BY <1>4, <2>4, <3>3, SleepersPrimed
    <3> QED BY <3>1, <3>4
  <2>6. PICK r : r = Sleepers'
    OBVIOUS
  <2>7. r \in Seq(Thread) /\ Len(r) = n - 1
    <3>1. Sleepers' = [i \in 1 .. n - 1 |-> Sleepers'[i]]
      BY <2>4 DEF Sleepers
    <3>2. \A i \in 1 .. n - 1 : Sleepers'[i] \in Thread
      <4> TAKE i \in 1 .. n - 1
      <4>1. CASE i < at
        BY <1>4, <2>5, <4>1
      <4>2. CASE ~(i < at)
        <5>1. i + 1 \in 1 .. n
          OBVIOUS
        <5> QED BY <1>4, <2>5, <4>2, <5>1
      <4> QED BY <4>1, <4>2
    <3>3. r = [i \in 1 .. n - 1 |-> r[i]] /\ \A i \in 1 .. n - 1 : r[i] \in Thread
      BY <2>6, <3>1, <3>2
    <3>4. n - 1 \in Nat
      BY <2>1
    <3> QED BY <3>3, <3>4
  <2>8. \A i \in 1 .. n - 1 : r[i] = IF i < at THEN Sleepers[i] ELSE Sleepers[i + 1]
    BY <2>5, <2>6
  <2>9. at \in DOMAIN Sleepers
    BY <1>4
  <2>10. Sleepers' = SubSeq(Sleepers, 1, at - 1) \o SubSeq(Sleepers, at + 1, Len(Sleepers))
    BY <1>4, <2>6, <2>7, <2>8, <2>9, WithoutPlace
  <2>11. Woken' = Woken
    <3>1. Range(waiting_list') = Range(waiting_list) \ {e}
      BY <1>2, <1>4, ExtractList
    <3> QED BY <1>1, <1>5, <1>7, <3>1 DEF Woken
  <2> QED BY <2>2, <2>9, <2>10, <2>11 DEF Abstract!GiveUp, Sleepers, Woken
<1> QED BY <1>6, <1>7

LEMMA SignalRefines ==
  ASSUME TypeOK, TypeOK', EventsAccounted, EventsAccounted',
         NEW th \in Thread, Signal(th)
  PROVE  Abstract!Signal
<1>1. PICK n \in Nat : n = Len(waiting_list)
  BY DEF TypeOK
<1>2. /\ DOMAIN waiting_list = 1 .. n /\ waiting_list \in Seq(Event)
      /\ IsInjective(waiting_list) /\ n > 0
      /\ Sleepers \in Seq(Thread) /\ Len(Sleepers) = n
      /\ \A i \in 1 .. n : Sleepers[i] \in Thread
      /\ \A i \in 1 .. n : waiting_event[Sleepers[i]] = waiting_list[i]
      /\ \A i \in 1 .. n : Waiting(Sleepers[i])
  <2>1. waiting_list # <<>>
    BY DEF Signal, MaySignal
  <2>2. n > 0
    BY <1>1, <2>1 DEF TypeOK
  <2> QED BY <1>1, <2>2, Sleeping
<1>3. /\ waiting_list' = PopBack(waiting_list)
      /\ UNCHANGED <<waiting_event, pc>>
  BY DEF Signal
<1>4. /\ Len(waiting_list') = n - 1 /\ DOMAIN waiting_list' = 1 .. n - 1
      /\ \A i \in 1 .. n - 1 : waiting_list'[i] = waiting_list[i]
  BY <1>1, <1>2, <1>3 DEF PopBack
<1>5. \A i \in 1 .. n - 1 : Sleepers'[i] = Sleepers[i]
  BY <1>2, <1>3, <1>4, SleepersPrimed
<1>6. Sleepers' = SubSeq(Sleepers, 1, Len(Sleepers) - 1)
  <2>1. PICK r : r = SubSeq(Sleepers, 1, n - 1)
    OBVIOUS
  <2>2. /\ r \in Seq(Thread) /\ Len(r) = n - 1
        /\ \A i \in 1 .. n - 1 : r[i] = Sleepers[i]
    BY <1>2, <2>1
  <2> QED BY <1>2, <1>4, <1>5, <2>1, <2>2, SleepersAre
<1>7. Woken' = Woken \union {Sleepers[n]}
  <2>1. /\ Range(waiting_list) = Range(waiting_list') \union {waiting_list[n]}
        /\ waiting_list[n] \notin Range(waiting_list')
    BY <1>1, <1>2, <1>3, PopBackList
  <2>2. \A other \in Thread : waiting_event[other] = waiting_list[n] <=> other = Sleepers[n]
    BY <1>1, <1>2, OwnersWait
  <2>3. \A other \in Thread : Waiting(other)' <=> Waiting(other)
    BY <1>3 DEF Waiting
  <2> QED BY <1>2, <1>3, <2>1, <2>2, <2>3 DEF Woken
<1>8. Sleepers # <<>>
  BY <1>2
<1> QED BY <1>2, <1>6, <1>7, <1>8 DEF Abstract!Signal, Sleepers, Woken

LEMMA BroadcastRefines ==
  ASSUME TypeOK, TypeOK', EventsAccounted, EventsAccounted',
         NEW th \in Thread, Broadcast(th)
  PROVE  Abstract!Broadcast
<1>1. PICK n \in Nat : n = Len(waiting_list)
  BY DEF TypeOK
<1>2. /\ DOMAIN waiting_list = 1 .. n /\ n > 0
      /\ Sleepers \in Seq(Thread) /\ Len(Sleepers) = n /\ DOMAIN Sleepers = 1 .. n
      /\ \A i \in 1 .. n : /\ Sleepers[i] \in Thread
                           /\ waiting_event[Sleepers[i]] = waiting_list[i]
                           /\ Waiting(Sleepers[i])
  <2>1. waiting_list # <<>>
    BY DEF Broadcast, MaySignal
  <2>2. n > 0
    BY <1>1, <2>1 DEF TypeOK
  <2>3. Sleepers \in Seq(Thread) /\ Len(Sleepers) = n
    BY <1>1, Sleeping
  <2> QED BY <1>1, <2>2, <2>3, Sleeping
<1>3. waiting_list' = <<>> /\ UNCHANGED <<waiting_event, pc>>
  BY DEF Broadcast
<1>4. Sleepers' = <<>>
  <2>1. <<>> \in Seq(Thread) /\ Len(<<>>) = Len(waiting_list')
    BY <1>3
  <2>2. \A i \in 1 .. Len(<<>>) : Sleepers'[i] = <<>>[i]
    OBVIOUS
  <2> QED BY <2>1, <2>2, SleepersAre
<1>5. Woken' = Woken \union Range(Sleepers)
  <2>1. \A other \in Thread : Waiting(other)' <=> Waiting(other)
    BY <1>3 DEF Waiting
  <2>2. ASSUME NEW other \in Thread, Waiting(other)
        PROVE  waiting_event[other] \in Range(waiting_list) <=> other \in Range(Sleepers)
    <3>1. \A i \in 1 .. n : waiting_event[other] = waiting_list[i] => other = Sleepers[i]
      BY <1>2, OwnersWait
    <3> QED BY <1>2, <3>1 DEF Range
  <2>3. Range(waiting_list') = {} /\ Range(Sleepers) \subseteq Thread
    BY <1>2, <1>3, SmallLists DEF Range
  <2>4. \A other \in Range(Sleepers) : Waiting(other)
    BY <1>2 DEF Range
  <2> QED BY <1>3, <2>1, <2>2, <2>3, <2>4 DEF Woken
<1>6. Sleepers # <<>>
  BY <1>2
<1> QED BY <1>4, <1>5, <1>6
        DEF Abstract!Broadcast, Abstract!Range, Range, Sleepers, Woken

LEMMA RefinesStep ==
  ASSUME TypeOK, EventsAccounted, [Next]_vars
  PROVE  [Abstract!Next]_(Abstract!vars)
<1>1. TypeOK' /\ EventsAccounted'
  BY TypeInductive, EventsInductive
<1>2. ASSUME NEW th \in Thread,
             \/ Acquire(th) \/ Release(th) \/ TimeOut(th) \/ ReacquireUserLock(th)
             \/ ReleaseUserLock(th) \/ WakeUp(th) \/ SetEvent(th)
      PROVE  UNCHANGED Abstract!vars
  BY <1>2, SleepOn
     DEF Acquire, Release, TimeOut, ReacquireUserLock, ReleaseUserLock, WakeUp,
         SetEvent, Waiting, TypeOK
<1>3. CASE UNCHANGED vars
  BY <1>3, SleepOn DEF vars, Waiting
<1>4. ASSUME NEW th \in Thread, GetEventForWaiting(th) PROVE Abstract!Next
  BY <1>1, <1>4, WaitRefines DEF Abstract!Next
<1>5. ASSUME NEW th \in Thread, RecycleEvent(th) PROVE Abstract!Next
  BY <1>1, <1>5, RecycleRefines DEF Abstract!Next
<1>6. ASSUME NEW th \in Thread, Signal(th) \/ Broadcast(th) PROVE Abstract!Next
  BY <1>1, <1>6, SignalRefines, BroadcastRefines DEF Abstract!Next
<1> QED BY <1>2, <1>3, <1>4, <1>5, <1>6 DEF Next, Step

\* For any number of threads: Signal wakes the thread that went to sleep last,
\* Broadcast every thread that was asleep, and a thread comes out of its wait
\* woken or by giving up. What ImplementsCondVar asks beyond it, that a woken
\* thread returns, is liveness.
THEOREM WaitsAsPromised == Spec => StepsAreAbstract
<1>1. Init => Abstract!Init
  <2> SUFFICES ASSUME Init PROVE Abstract!Init
    OBVIOUS
  <2>1. Sleepers = <<>> /\ Woken = {}
    BY DEF Init, Sleepers, Woken, Waiting
  <2> QED BY <2>1 DEF Abstract!Init, Sleepers, Woken
<1>2. TypeOK /\ IInv /\ [Next]_vars => [Abstract!Next]_(Abstract!vars)
  BY RefinesStep DEF IInv
<1> QED BY <1>1, <1>2, Invariance, PTL DEF Spec, StepsAreAbstract

-----------------------------------------------------------------------------
(* A wait that is over ends *)

\* The user's lock is held outside of the calls and while a wait is entered, by
\* one thread: not by one that waits for its event or for the lock.
HoldersAreIn ==
  \A th \in Thread : user_lock = th <=> pc[th] \in {"in", "entered"}

\* The guards of what Step may do.
CanStep(th) ==
  \/ pc[th] \in {"entered", "awake", "expired"}
  \/ pc[th] = "blocked" /\ waiting_event[th] \in signaled
  \/ handles[th] # <<>>

\* A thread in TimedWait can go on, or nobody selected it yet, or whoever is to
\* set its event can; one that takes the user's lock back waits only for a
\* client that has it or for a thread that is about to give it up.
WaitIsServed ==
  \A th \in Thread :
    /\ Waiting(th) =>
         \/ CanStep(th)
         \/ waiting_event[th] \in Range(waiting_list)
         \/ \E other \in Thread :
              waiting_event[th] \in Range(handles[other]) /\ CanStep(other)
    /\ pc[th] = "locking" =>
         \/ user_lock = NoThread
         \/ pc[user_lock] = "in"
         \/ pc[user_lock] = "entered" /\ CanStep(user_lock)

LEMMA HoldersInductive == TypeOK /\ HoldersAreIn /\ [Next]_vars => HoldersAreIn'
<1> SUFFICES ASSUME TypeOK, HoldersAreIn, [Next]_vars PROVE HoldersAreIn'
  OBVIOUS
<1>1. /\ pc \in [Thread -> Station] /\ user_lock \in Thread \union {NoThread}
      /\ NoThread \notin Thread
  BY ConditionVariableAssumption DEF TypeOK
<1>2. ASSUME NEW th \in Thread, Acquire(th) \/ ReacquireUserLock(th)
      PROVE  HoldersAreIn'
  BY <1>1, <1>2 DEF HoldersAreIn, Acquire, ReacquireUserLock
<1>3. ASSUME NEW th \in Thread, Release(th) \/ ReleaseUserLock(th)
      PROVE  HoldersAreIn'
  BY <1>1, <1>3 DEF HoldersAreIn, Release, ReleaseUserLock
<1>4. ASSUME NEW th \in Thread,
             \/ GetEventForWaiting(th) \/ WakeUp(th) \/ TimeOut(th) \/ RecycleEvent(th)
      PROVE  HoldersAreIn'
  BY <1>1, <1>4 DEF HoldersAreIn, GetEventForWaiting, WakeUp, TimeOut, RecycleEvent
<1>5. ASSUME NEW th \in Thread, Signal(th) \/ Broadcast(th) \/ SetEvent(th)
      PROVE  HoldersAreIn'
  BY <1>5 DEF HoldersAreIn, Signal, Broadcast, SetEvent
<1>6. CASE UNCHANGED vars
  BY <1>6 DEF HoldersAreIn, vars
<1> QED BY <1>2, <1>3, <1>4, <1>5, <1>6 DEF Next, Step

\* For any number of threads: no wait hangs that a Signal or Broadcast ended.
\* The thread itself or the one that is to set its event can go on, and for the
\* user's lock it waits only while a client has it.
THEOREM WaitsAreServed == Spec => [](HoldersAreIn /\ WaitIsServed)
<1>1. Init => HoldersAreIn
  BY ConditionVariableAssumption DEF Init, HoldersAreIn
<1>2. TypeOK /\ NoLostSignal /\ HoldersAreIn => WaitIsServed
  <2> SUFFICES ASSUME TypeOK, NoLostSignal, HoldersAreIn, NEW th \in Thread
               PROVE  /\ Waiting(th) =>
                           \/ CanStep(th)
                           \/ waiting_event[th] \in Range(waiting_list)
                           \/ \E other \in Thread :
                                /\ waiting_event[th] \in Range(handles[other])
                                /\ CanStep(other)
                      /\ pc[th] = "locking" =>
                           \/ user_lock = NoThread
                           \/ pc[user_lock] = "in"
                           \/ pc[user_lock] = "entered" /\ CanStep(user_lock)
    BY DEF WaitIsServed
  <2>1. ASSUME NEW other \in Thread, waiting_event[th] \in Range(handles[other])
        PROVE  CanStep(other)
    BY <2>1, SmallLists DEF CanStep
  <2>2. ASSUME pc[th] = "blocked", waiting_event[th] \notin Range(waiting_list)
        PROVE  \/ CanStep(th)
               \/ \E other \in Thread :
                    /\ waiting_event[th] \in Range(handles[other])
                    /\ CanStep(other)
    BY <2>1, <2>2 DEF NoLostSignal, InHandles, CanStep
  <2>3. Waiting(th) /\ pc[th] # "blocked" => CanStep(th)
    BY DEF Waiting, CanStep
  <2>4. user_lock # NoThread => pc[user_lock] \in {"in", "entered"}
    BY DEF TypeOK, HoldersAreIn
  <2> QED BY <2>2, <2>3, <2>4 DEF CanStep
<1>3. IInv => NoLostSignal
  BY DEF IInv
<1> QED BY Invariance, HoldersInductive, <1>1, <1>2, <1>3, PTL DEF Spec

=============================================================================
