-------------------------- MODULE LazyInstanceProofs --------------------------
(***************************************************************************)
(* For any number of threads and globals, of any kinds, that need each     *)
(* other in any way: an instance is created by one thread and destroyed    *)
(* once, a constructor keeps what it was given, and unless it was given    *)
(* something too early, it is destroyed before what it was given; and if   *)
(* what globals need is no circle, no threads wait for each other in one.  *)
(* And for the table of PathService, an instance with variables of its     *)
(* own: what is cached is what Get has to answer.                          *)
(***************************************************************************)
EXTENDS LazyInstance, SequenceTheorems, TLAPS

\* A thread waits, or is about to register, in its innermost call only.
OnlyInnermost ==
  \A t \in Thread : \A n \in DOMAIN calls[t] :
    n > 1 => calls[t][n].at = "constructing"

\* The destructors run when no thread is in a call.
ExitsAlone == exiting => \A t \in Thread : calls[t] = <<>>

DeadAreStatic == \A i \in dead : Kind[i] = "static"

\* What is being created has a creator,
HasCreator ==
  \A i \in Instance : state[i] = "creating" =>
    \E t \in Thread : \E n \in DOMAIN calls[t] :
      calls[t][n].inst = i /\ calls[t][n].at = "constructing"

\* which has set its state
CreatorIsSeen ==
  \A t \in Thread : \A n \in DOMAIN calls[t] :
    calls[t][n].at = "constructing" => state[calls[t][n].inst] = "creating"

\* and is alone.
OneCreator ==
  \A t, u \in Thread : \A n \in DOMAIN calls[t] : \A m \in DOMAIN calls[u] :
    /\ calls[t][n].at = "constructing"
    /\ calls[u][m].at = "constructing"
    /\ calls[t][n].inst = calls[u][m].inst
    => t = u /\ n = m

InStack(i) == \E n \in DOMAIN stack : stack[n] = i

Registering(t, i) ==
  \E n \in DOMAIN calls[t] : calls[t][n].inst = i /\ calls[t][n].at = "registering"

\* What exists and is not leaky is on the stack, or a thread is about to put it
\* there,
CreatedIsRegistered ==
  \A i \in Instance : state[i] = "created" /\ Kind[i] # "leaky" =>
    InStack(i) \/ \E t \in Thread : Registering(t, i)

\* and nothing else is,
StackIsCreated ==
  \A i \in Instance : InStack(i) => state[i] = "created" /\ Kind[i] # "leaky"

RegisteringIsCreated ==
  \A i \in Instance : \A t \in Thread : Registering(t, i) =>
    state[i] = "created" /\ Kind[i] # "leaky" /\ ~InStack(i)

\* and only once.
StackedOnce == \A n, m \in DOMAIN stack : stack[n] = stack[m] => n = m

OneRegistering ==
  \A i \in Instance : \A t, u \in Thread :
    Registering(t, i) /\ Registering(u, i) => t = u

\* A thread waits for what is being created, was created or cannot be.
WaitsForSome ==
  \A t \in Thread : \A n \in DOMAIN calls[t] :
    calls[t][n].at = "spinning" =>
      state[calls[t][n].inst] # "empty" \/ calls[t][n].inst \in dead

\* A destructor is registered when the constructor has what it needs.
RegistersComplete ==
  \A t \in Thread : \A n \in DOMAIN calls[t] :
    calls[t][n].at = "registering" =>
      \A i \in Needs[calls[t][n].inst] : i \in calls[t][n].got

\* Until a constructor is given something too early, what it is given is on the
\* stack before itself.
GivenIsStacked ==
  ~raced =>
    \A t \in Thread : \A n \in DOMAIN calls[t] : \A i \in calls[t][n].got :
      Kind[i] = "leaky" \/ InStack(i)

StackInOrder ==
  ~raced =>
    \A n \in DOMAIN stack : \A i \in Needs[stack[n]] :
      Kind[i] = "leaky" \/ \E m \in DOMAIN stack : m > n /\ stack[m] = i

\* One thread creates an instance.
Creators == HasCreator /\ CreatorIsSeen /\ OneCreator

\* What has to be destroyed is registered once.
Registered ==
  /\ CreatedIsRegistered /\ StackIsCreated /\ RegisteringIsCreated
  /\ StackedOnce /\ OneRegistering

\* Constructors and their threads have or wait for what there is.
Provided == WaitsForSome /\ GivenIsThere /\ RegistersComplete

InOrder == GivenIsStacked /\ StackInOrder

IInv ==
  /\ OnlyInnermost /\ ExitsAlone /\ DeadAreStatic
  /\ Creators /\ Registered /\ Provided /\ InOrder

-----------------------------------------------------------------------------
(* Sequences *)

\* An element in front of a sequence.
LEMMA PushFront ==
  ASSUME NEW S, NEW s \in Seq(S), NEW e \in S
  PROVE  /\ <<e>> \o s \in Seq(S)
         /\ <<e>> \o s # <<>>
         /\ Len(<<e>> \o s) = Len(s) + 1
         /\ Head(<<e>> \o s) = e
         /\ (<<e>> \o s)[1] = e
         /\ \A i \in Nat : i \in DOMAIN (<<e>> \o s) <=> i = 1 \/ (i > 1 /\ i - 1 \in DOMAIN s)
         /\ \A i \in DOMAIN s : (<<e>> \o s)[i + 1] = s[i]
<1>1. <<e>> \in Seq(S) /\ Len(<<e>>) = 1 /\ <<e>>[1] = e
  OBVIOUS
<1>2. /\ <<e>> \o s \in Seq(S)
      /\ Len(<<e>> \o s) = 1 + Len(s)
      /\ \A i \in 1 .. 1 + Len(s) :
           (<<e>> \o s)[i] = IF i <= 1 THEN <<e>>[i] ELSE s[i - 1]
  BY <1>1, ConcatProperties
<1>3. DOMAIN (<<e>> \o s) = 1 .. 1 + Len(s) /\ DOMAIN s = 1 .. Len(s) /\ Len(s) \in Nat
  BY <1>2, LenProperties
<1>4. <<e>> \o s # <<>>
  BY <1>2, <1>3
<1>5. (<<e>> \o s)[1] = e
  BY <1>1, <1>2, <1>3
<1>6. Head(<<e>> \o s) = e
  BY <1>2, <1>4, <1>5
<1>7. ASSUME NEW i \in DOMAIN s PROVE (<<e>> \o s)[i + 1] = s[i]
  BY <1>2, <1>3
<1> QED
  BY <1>2, <1>3, <1>4, <1>5, <1>6, <1>7

\* A sequence without its head.
LEMMA PopFront ==
  ASSUME NEW S, NEW s \in Seq(S), s # <<>>
  PROVE  /\ Tail(s) \in Seq(S)
         /\ Head(s) \in S
         /\ Head(s) = s[1] /\ 1 \in DOMAIN s
         /\ \A i \in Nat : i \in DOMAIN Tail(s) <=> i > 0 /\ i + 1 \in DOMAIN s
         /\ \A i \in DOMAIN Tail(s) : Tail(s)[i] = s[i + 1]
<1>1. /\ Tail(s) \in Seq(S) /\ Head(s) \in S
      /\ Len(Tail(s)) = Len(s) - 1
      /\ \A i \in 1 .. Len(Tail(s)) : Tail(s)[i] = s[i + 1]
  BY HeadTailProperties
<1>2. DOMAIN Tail(s) = 1 .. Len(s) - 1 /\ DOMAIN s = 1 .. Len(s) /\ Len(s) \in Nat \ {0}
  BY <1>1, LenProperties, EmptySeq
<1> QED
  BY <1>1, <1>2

LEMMA EmptySequence ==
  ASSUME NEW S
  PROVE  <<>> \in Seq(S) /\ DOMAIN <<>> = {}
  OBVIOUS

\* A sequence that is not empty has a first element.
LEMMA First ==
  ASSUME NEW S, NEW s \in Seq(S)
  PROVE  /\ s # <<>> <=> 1 \in DOMAIN s
         /\ \A n \in DOMAIN s : n \in Nat /\ n >= 1 /\ s[n] \in S
<1>1. DOMAIN s = 1 .. Len(s) /\ Len(s) \in Nat
  BY LenProperties
<1>2. s = <<>> <=> Len(s) = 0
  BY EmptySeq
<1>3. \A n \in 1 .. Len(s) : s[n] \in S
  BY ElementOfSeq
<1> QED
  BY <1>1, <1>2, <1>3

-----------------------------------------------------------------------------
(* The calls of a thread *)

LEMMA Fields ==
  ASSUME NEW f \in Call
  PROVE  /\ f.inst \in Instance
         /\ f.at \in {"spinning", "constructing", "registering"}
         /\ f.got \in SUBSET Instance
  BY DEF Call

\* The calls in rest when one of them receives i.
LEMMA ReceiveMoves ==
  ASSUME NEW i \in Instance, NEW rest \in Seq(Call)
  PROVE  /\ Receive(i, rest) \in Seq(Call)
         /\ DOMAIN Receive(i, rest) = DOMAIN rest
         /\ \A n \in DOMAIN rest :
              /\ Receive(i, rest)[n].inst = rest[n].inst
              /\ Receive(i, rest)[n].at = rest[n].at
              /\ \A j : j \in Receive(i, rest)[n].got
                   <=> j \in rest[n].got \/ (n = 1 /\ j = i)
<1>1. CASE rest = <<>>
  BY <1>1, EmptySequence DEF Receive
<1>2. CASE rest # <<>>
  <2> DEFINE h == Head(rest)
             f == [h EXCEPT !.got = @ \union {i}]
  <2>1. /\ Tail(rest) \in Seq(Call) /\ h \in Call
        /\ h = rest[1] /\ 1 \in DOMAIN rest
        /\ \A n \in Nat : n \in DOMAIN Tail(rest) <=> n > 0 /\ n + 1 \in DOMAIN rest
        /\ \A n \in DOMAIN Tail(rest) : Tail(rest)[n] = rest[n + 1]
    BY <1>2, PopFront
  <2>2. f \in Call /\ f.inst = h.inst /\ f.at = h.at /\ f.got = h.got \union {i}
    BY <2>1 DEF Call
  <2>3. Receive(i, rest) = <<f>> \o Tail(rest)
    BY <1>2 DEF Receive
  <2> HIDE DEF f, h
  <2>4. /\ <<f>> \o Tail(rest) \in Seq(Call)
        /\ (<<f>> \o Tail(rest))[1] = f
        /\ \A n \in Nat : n \in DOMAIN (<<f>> \o Tail(rest))
             <=> n = 1 \/ (n > 1 /\ n - 1 \in DOMAIN Tail(rest))
        /\ \A n \in DOMAIN Tail(rest) : (<<f>> \o Tail(rest))[n + 1] = Tail(rest)[n]
    BY <2>1, <2>2, PushFront
  <2>5. /\ \A n \in DOMAIN rest : n \in Nat /\ n >= 1
        /\ \A n \in DOMAIN Receive(i, rest) : n \in Nat /\ n >= 1
    BY <2>3, <2>4, First
  <2>6. \A n \in Nat : n \in DOMAIN rest <=> n \in DOMAIN Receive(i, rest)
    <3> TAKE n \in Nat
    <3>1. CASE n > 1
      <4>1. n - 1 \in Nat /\ n - 1 > 0 /\ (n - 1) + 1 = n
        BY <3>1
      <4> QED
        BY <2>1, <2>3, <2>4, <3>1, <4>1
    <3>2. CASE n = 1
      BY <2>1, <2>3, <2>4, <3>2
    <3>3. CASE n = 0
      BY <2>5, <3>3
    <3> QED
      BY <3>1, <3>2, <3>3
  <2>7. DOMAIN Receive(i, rest) = DOMAIN rest
    BY <2>5, <2>6
  <2>8. ASSUME NEW n \in DOMAIN rest, n # 1 PROVE Receive(i, rest)[n] = rest[n]
    <3>1. n - 1 \in Nat /\ n - 1 > 0 /\ (n - 1) + 1 = n
      BY <2>5, <2>8
    <3> QED
      BY <2>1, <2>3, <2>4, <2>8, <3>1
  <2> QED
    BY <2>1, <2>2, <2>3, <2>4, <2>7, <2>8
<1> QED
  BY <1>1, <1>2

\* The call of u that is one further out, or in, in the stack of t.
Outer(t, u, n) == IF u = t THEN n + 1 ELSE n

Inner(t, u, n) == IF u = t THEN n - 1 ELSE n

\* The innermost call of t returns.
LEMMA ReturnMoves ==
  ASSUME TypeOK, NEW t \in Thread, calls[t] # <<>>, Return(t)
  PROVE  /\ calls' \in [Thread -> Seq(Call)]
         /\ \A u \in Thread : \A n \in DOMAIN calls'[u] :
              /\ Outer(t, u, n) \in DOMAIN calls[u]
              /\ u = t => Outer(t, u, n) # 1
              /\ calls'[u][n].inst = calls[u][Outer(t, u, n)].inst
              /\ calls'[u][n].at = calls[u][Outer(t, u, n)].at
              /\ \A j : j \in calls'[u][n].got
                   <=> \/ j \in calls[u][Outer(t, u, n)].got
                       \/ u = t /\ n = 1 /\ j = calls[t][1].inst
         /\ \A u \in Thread : \A n \in DOMAIN calls[u] :
              u # t \/ n # 1 =>
                /\ Inner(t, u, n) \in DOMAIN calls'[u]
                /\ Outer(t, u, Inner(t, u, n)) = n
<1>1. calls[t] \in Seq(Call)
  BY DEF TypeOK
<1>2. /\ Tail(calls[t]) \in Seq(Call)
      /\ Head(calls[t]) \in Call
      /\ Head(calls[t]) = calls[t][1] /\ 1 \in DOMAIN calls[t]
      /\ \A n \in Nat : n \in DOMAIN Tail(calls[t]) <=> n > 0 /\ n + 1 \in DOMAIN calls[t]
      /\ \A n \in DOMAIN Tail(calls[t]) : Tail(calls[t])[n] = calls[t][n + 1]
  BY <1>1, PopFront
<1> DEFINE i == Head(calls[t]).inst
<1>3. i \in Instance /\ i = calls[t][1].inst
  BY <1>2, Fields
<1>4. calls' = [calls EXCEPT ![t] = Receive(i, Tail(calls[t]))]
  BY DEF Return
<1> HIDE DEF i
<1>5. /\ Receive(i, Tail(calls[t])) \in Seq(Call)
      /\ DOMAIN Receive(i, Tail(calls[t])) = DOMAIN Tail(calls[t])
      /\ \A n \in DOMAIN Tail(calls[t]) :
              /\ Receive(i, Tail(calls[t]))[n].inst = Tail(calls[t])[n].inst
              /\ Receive(i, Tail(calls[t]))[n].at = Tail(calls[t])[n].at
              /\ \A j : j \in Receive(i, Tail(calls[t]))[n].got
                   <=> j \in Tail(calls[t])[n].got \/ (n = 1 /\ j = i)
  BY <1>2, <1>3, ReceiveMoves
<1>6. /\ calls' \in [Thread -> Seq(Call)]
      /\ calls'[t] = Receive(i, Tail(calls[t]))
      /\ \A u \in Thread : u # t => calls'[u] = calls[u]
  BY <1>4, <1>5 DEF TypeOK
<1>7. \A n \in DOMAIN Tail(calls[t]) : n \in Nat /\ n >= 1
  BY <1>2, First
<1>8. \A n \in Nat : n \in DOMAIN calls'[t] <=> n > 0 /\ n + 1 \in DOMAIN calls[t]
  BY <1>2, <1>5, <1>6
<1>9. ASSUME NEW n \in DOMAIN calls'[t]
      PROVE  /\ n \in Nat /\ n >= 1 /\ n + 1 \in DOMAIN calls[t]
             /\ calls'[t][n].inst = calls[t][n + 1].inst
             /\ calls'[t][n].at = calls[t][n + 1].at
             /\ \A j : j \in calls'[t][n].got
                  <=> j \in calls[t][n + 1].got \/ (n = 1 /\ j = calls[t][1].inst)
  <2>1. n \in DOMAIN Tail(calls[t])
    BY <1>5, <1>6
  <2>2. n \in Nat /\ n >= 1 /\ Tail(calls[t])[n] = calls[t][n + 1]
    BY <1>2, <1>7, <2>1
  <2>3. n + 1 \in DOMAIN calls[t]
    BY <1>2, <2>1, <2>2
  <2>4. \A j : j \in calls'[t][n].got <=> j \in Tail(calls[t])[n].got \/ (n = 1 /\ j = i)
    BY <1>5, <1>6, <2>1
  <2>5. /\ calls'[t][n].inst = Tail(calls[t])[n].inst
        /\ calls'[t][n].at = Tail(calls[t])[n].at
    BY <1>5, <1>6, <2>1
  <2> QED
    BY <1>3, <2>2, <2>3, <2>4, <2>5
<1>10. ASSUME NEW n \in DOMAIN calls[t], n # 1
       PROVE  n - 1 \in DOMAIN calls'[t] /\ (n - 1) + 1 = n
  BY <1>1, <1>8, <1>10, First
<1>11. \A u \in Thread : \A n \in DOMAIN calls[u] : n \in Nat /\ n >= 1
  BY First DEF TypeOK
<1>12. ASSUME NEW u \in Thread, NEW n \in DOMAIN calls'[u]
       PROVE  /\ Outer(t, u, n) \in DOMAIN calls[u]
              /\ u = t => Outer(t, u, n) # 1
              /\ calls'[u][n].inst = calls[u][Outer(t, u, n)].inst
              /\ calls'[u][n].at = calls[u][Outer(t, u, n)].at
              /\ \A j : j \in calls'[u][n].got
                   <=> \/ j \in calls[u][Outer(t, u, n)].got
                       \/ u = t /\ n = 1 /\ j = calls[t][1].inst
  <2>1. CASE u # t
    BY <1>6, <2>1 DEF Outer
  <2>2. CASE u = t
    BY <1>9, <2>2 DEF Outer
  <2> QED
    BY <2>1, <2>2
<1>13. ASSUME NEW u \in Thread, NEW n \in DOMAIN calls[u], u # t \/ n # 1
       PROVE  /\ Inner(t, u, n) \in DOMAIN calls'[u]
              /\ Outer(t, u, Inner(t, u, n)) = n
  <2>1. CASE u # t
    BY <1>6, <2>1 DEF Outer, Inner
  <2>2. CASE u = t
    BY <1>10, <1>13, <2>2 DEF Outer, Inner
  <2> QED
    BY <2>1, <2>2
<1> QED
  BY <1>6, <1>12, <1>13

\* The innermost call of t goes on with i.
LEMMA GiveMoves ==
  ASSUME TypeOK, NEW t \in Thread, NEW i \in Instance, GetCreated(t, i)
  PROVE  /\ calls' \in [Thread -> Seq(Call)]
         /\ \A u \in Thread : u # t => calls'[u] = calls[u]
         /\ \A u \in Thread : DOMAIN calls'[u] = DOMAIN calls[u]
         /\ \A u \in Thread : \A n \in DOMAIN calls[u] :
              /\ calls'[u][n].inst = calls[u][n].inst
              /\ calls'[u][n].at = calls[u][n].at
              /\ \A j : j \in calls'[u][n].got
                   <=> j \in calls[u][n].got \/ (u = t /\ n = 1 /\ j = i)
<1>1. calls[t] \in Seq(Call)
  BY DEF TypeOK
<1>2. /\ Receive(i, calls[t]) \in Seq(Call)
      /\ DOMAIN Receive(i, calls[t]) = DOMAIN calls[t]
      /\ \A n \in DOMAIN calls[t] :
              /\ Receive(i, calls[t])[n].inst = calls[t][n].inst
              /\ Receive(i, calls[t])[n].at = calls[t][n].at
              /\ \A j : j \in Receive(i, calls[t])[n].got
                   <=> j \in calls[t][n].got \/ (n = 1 /\ j = i)
  BY <1>1, ReceiveMoves
<1>3. /\ calls' \in [Thread -> Seq(Call)]
      /\ calls'[t] = Receive(i, calls[t])
      /\ \A u \in Thread : u # t => calls'[u] = calls[u]
  BY <1>2 DEF TypeOK, GetCreated
<1>4. ASSUME NEW u \in Thread, u = t, NEW n \in DOMAIN calls[u]
      PROVE  /\ calls'[u][n].inst = calls[u][n].inst
             /\ calls'[u][n].at = calls[u][n].at
             /\ \A j : j \in calls'[u][n].got
                  <=> j \in calls[u][n].got \/ (u = t /\ n = 1 /\ j = i)
  BY <1>2, <1>3, <1>4
<1> QED
  BY <1>2, <1>3, <1>4

\* t calls Pointer() or get() for i.
LEMMA EnterMoves ==
  ASSUME TypeOK, NEW t \in Thread, NEW i \in Instance, NeedsInstance(t, i)
  PROVE  /\ calls' \in [Thread -> Seq(Call)]
         /\ calls'[t] # <<>> /\ 1 \in DOMAIN calls'[t]
         /\ calls'[t][1].inst = i /\ calls'[t][1].got = {}
         /\ calls'[t][1].at \in {"constructing", "spinning"}
         /\ calls'[t][1].at = "constructing" <=> MayCreate(i)
         /\ \A u \in Thread : \A n \in DOMAIN calls'[u] :
              u # t \/ n # 1 =>
                /\ Inner(t, u, n) \in DOMAIN calls[u]
                /\ Outer(t, u, Inner(t, u, n)) = n
                /\ calls'[u][n] = calls[u][Inner(t, u, n)]
         /\ \A u \in Thread : \A n \in DOMAIN calls[u] :
              /\ Outer(t, u, n) \in DOMAIN calls'[u]
              /\ u = t => Outer(t, u, n) # 1
              /\ calls'[u][Outer(t, u, n)] = calls[u][n]
<1>1. PICK at \in {"constructing", "spinning"} :
        /\ at = "constructing" <=> MayCreate(i)
        /\ calls' = [calls EXCEPT ![t] = <<[inst |-> i, at |-> at, got |-> {}]>> \o @]
  BY DEF NeedsInstance
<1> DEFINE f == [inst |-> i, at |-> at, got |-> {}]
<1>2. calls[t] \in Seq(Call) /\ f \in Call
  BY DEF TypeOK, Call
<1>3. calls' = [calls EXCEPT ![t] = <<f>> \o calls[t]]
  BY <1>1
<1>4. f.inst = i /\ f.got = {} /\ f.at = at
  OBVIOUS
<1> HIDE DEF f
<1>5. /\ <<f>> \o calls[t] \in Seq(Call)
      /\ <<f>> \o calls[t] # <<>>
      /\ (<<f>> \o calls[t])[1] = f
      /\ \A n \in Nat : n \in DOMAIN (<<f>> \o calls[t])
           <=> n = 1 \/ (n > 1 /\ n - 1 \in DOMAIN calls[t])
      /\ \A n \in DOMAIN calls[t] : (<<f>> \o calls[t])[n + 1] = calls[t][n]
  BY <1>2, PushFront
<1>6. /\ calls' \in [Thread -> Seq(Call)]
      /\ calls'[t] = <<f>> \o calls[t]
      /\ \A u \in Thread : u # t => calls'[u] = calls[u]
  BY <1>3, <1>5 DEF TypeOK
<1>7. /\ \A n \in DOMAIN calls'[t] : n \in Nat /\ n >= 1
      /\ \A n \in DOMAIN calls[t] : n \in Nat /\ n >= 1
  BY <1>2, <1>5, <1>6, First
<1>8. ASSUME NEW n \in DOMAIN calls'[t], n # 1
      PROVE  n - 1 \in DOMAIN calls[t] /\ calls'[t][n] = calls[t][n - 1]
  <2>1. n \in Nat /\ n - 1 \in DOMAIN calls[t]
    BY <1>5, <1>6, <1>7, <1>8
  <2>2. (n - 1) + 1 = n
    BY <2>1
  <2> QED
    BY <1>5, <1>6, <2>1, <2>2
<1>9. ASSUME NEW n \in DOMAIN calls[t]
      PROVE  n + 1 \in DOMAIN calls'[t] /\ calls'[t][n + 1] = calls[t][n]
  <2>1. n \in Nat /\ n + 1 \in Nat /\ n + 1 > 1 /\ (n + 1) - 1 = n
    BY <1>7
  <2> QED
    BY <1>5, <1>6, <2>1
<1>10. calls'[t] # <<>> /\ 1 \in DOMAIN calls'[t] /\ calls'[t][1] = f
  BY <1>5, <1>6
<1>11. ASSUME NEW u \in Thread, NEW n \in DOMAIN calls'[u], u # t \/ n # 1
       PROVE  /\ Inner(t, u, n) \in DOMAIN calls[u]
              /\ Outer(t, u, Inner(t, u, n)) = n
              /\ calls'[u][n] = calls[u][Inner(t, u, n)]
  <2>1. CASE u # t
    BY <1>6, <2>1 DEF Outer, Inner
  <2>2. CASE u = t
    BY <1>7, <1>8, <1>11, <2>2 DEF Outer, Inner
  <2> QED
    BY <2>1, <2>2
<1>12. ASSUME NEW u \in Thread, NEW n \in DOMAIN calls[u]
       PROVE  /\ Outer(t, u, n) \in DOMAIN calls'[u]
              /\ u = t => Outer(t, u, n) # 1
              /\ calls'[u][Outer(t, u, n)] = calls[u][n]
  <2>1. CASE u # t
    BY <1>6, <2>1 DEF Outer
  <2>2. CASE u = t
    BY <1>7, <1>9, <2>2 DEF Outer
  <2> QED
    BY <2>1, <2>2
<1> QED
  BY <1>1, <1>6, <1>10, <1>4, <1>11, <1>12

\* The innermost call of t is about to register.
LEMMA PublishMoves ==
  ASSUME TypeOK, NEW t \in Thread, calls[t] # <<>>, Publish(t),
         Head(calls[t]).inst \notin dead, Kind[Head(calls[t]).inst] # "leaky"
  PROVE  /\ calls' \in [Thread -> Seq(Call)]
         /\ \A u \in Thread : u # t => calls'[u] = calls[u]
         /\ \A u \in Thread : DOMAIN calls'[u] = DOMAIN calls[u]
         /\ \A u \in Thread : \A n \in DOMAIN calls[u] :
              /\ calls'[u][n].inst = calls[u][n].inst
              /\ calls'[u][n].got = calls[u][n].got
              /\ u # t \/ n # 1 => calls'[u][n] = calls[u][n]
         /\ 1 \in DOMAIN calls[t] /\ calls'[t][1].at = "registering"
<1> DEFINE f == [calls[t][1] EXCEPT !.at = "registering"]
<1>1. calls[t] \in Seq(Call) /\ 1 \in DOMAIN calls[t] /\ calls[t][1] \in Call
  BY First DEF TypeOK
<1>2. f \in Call /\ f.inst = calls[t][1].inst /\ f.got = calls[t][1].got
      /\ f.at = "registering"
  BY <1>1 DEF Call
<1>3. calls' = [calls EXCEPT ![t] = [calls[t] EXCEPT ![1] = f]]
  BY DEF Publish
<1> HIDE DEF f
<1>4. 1 \in 1 .. Len(calls[t])
  BY <1>1, LenProperties
<1>5. [calls[t] EXCEPT ![1] = f] \in Seq(Call)
  BY <1>1, <1>2, <1>4, ExceptSeq
<1>6. /\ calls' \in [Thread -> Seq(Call)]
      /\ calls'[t] = [calls[t] EXCEPT ![1] = f]
      /\ \A u \in Thread : u # t => calls'[u] = calls[u]
  BY <1>3, <1>5 DEF TypeOK
<1>7. /\ DOMAIN calls'[t] = DOMAIN calls[t]
      /\ calls'[t][1] = f
      /\ \A n \in DOMAIN calls[t] : n # 1 => calls'[t][n] = calls[t][n]
  BY <1>1, <1>6
<1> QED
  BY <1>1, <1>2, <1>6, <1>7

-----------------------------------------------------------------------------
(* The invariant, action by action *)

\* Innermost, by position.
LEMMA AtFirst ==
  ASSUME TypeOK, NEW t \in Thread, NEW where, At(t, where)
  PROVE  /\ calls[t] # <<>> /\ 1 \in DOMAIN calls[t]
         /\ Head(calls[t]) = calls[t][1]
         /\ calls[t][1] \in Call
         /\ calls[t][1].at = where
  BY First, PopFront DEF TypeOK, At

LEMMA InRange ==
  ASSUME TypeOK, NEW i \in Instance
  PROVE  /\ i \in Range(stack) <=> InStack(i)
         /\ Unregistered(i) <=> Kind[i] # "leaky" /\ ~InStack(i)
  BY DEF Range, InStack, Unregistered

LEMMA InitInv == Init => TypeOK /\ IInv
<1> SUFFICES ASSUME Init PROVE TypeOK /\ IInv
  OBVIOUS
<1> USE LazyAssumption
<1>1. TypeOK
  <2>1. stack \in Seq(Instance) /\ calls \in [Thread -> Seq(Call)]
    BY EmptySequence DEF Init
  <2>2. exits \in 0 .. MaxExits
    BY DEF Init
  <2> QED
    BY <2>1, <2>2 DEF Init, TypeOK
<1>2. DOMAIN stack = {} /\ \A t \in Thread : DOMAIN calls[t] = {}
  BY EmptySequence DEF Init
<1>3. OnlyInnermost /\ ExitsAlone /\ DeadAreStatic
  BY <1>2 DEF Init, OnlyInnermost, ExitsAlone, DeadAreStatic
<1>4. Creators
  BY <1>2 DEF Init, Creators, HasCreator, CreatorIsSeen, OneCreator
<1>5. Registered
  BY <1>2 DEF Init, Registered, Registering, InStack, CreatedIsRegistered,
              StackIsCreated, RegisteringIsCreated, StackedOnce, OneRegistering
<1>6. Provided
  BY <1>2 DEF Init, Provided, WaitsForSome, GivenIsThere, RegistersComplete
<1>7. InOrder
  BY <1>2 DEF Init, InOrder, GivenIsStacked, StackInOrder
<1> QED
  BY <1>1, <1>3, <1>4, <1>5, <1>6, <1>7 DEF IInv

LEMMA GetCreatedInv ==
  ASSUME TypeOK, IInv, NEW t \in Thread, NEW i \in Instance, GetCreated(t, i)
  PROVE  TypeOK' /\ IInv'
<1> USE DEF IInv, Creators, Registered, Provided, InOrder
<1>1. /\ calls' \in [Thread -> Seq(Call)]
      /\ \A u \in Thread : DOMAIN calls'[u] = DOMAIN calls[u]
      /\ \A u \in Thread : \A n \in DOMAIN calls[u] :
           /\ calls'[u][n].inst = calls[u][n].inst
           /\ calls'[u][n].at = calls[u][n].at
           /\ \A j : j \in calls'[u][n].got
                <=> j \in calls[u][n].got \/ (u = t /\ n = 1 /\ j = i)
  BY GiveMoves
<1>2. /\ ~exiting /\ state[i] = "created"
      /\ UNCHANGED <<state, dead, stack, exiting, exits>>
      /\ calls[t] # <<>> /\ At(t, "constructing")
      /\ raced' = (raced \/ Unregistered(i))
  BY DEF GetCreated, Wants
<1>3. TypeOK'
  BY <1>1, <1>2 DEF TypeOK
<1>4. ~raced' => ~raced /\ (Kind[i] = "leaky" \/ InStack(i))
  BY <1>2, InRange
<1>5. OnlyInnermost' /\ ExitsAlone' /\ DeadAreStatic'
  BY <1>1, <1>2 DEF OnlyInnermost, ExitsAlone, DeadAreStatic
<1>6. HasCreator'
  <2> SUFFICES ASSUME NEW j \in Instance, state[j] = "creating"
               PROVE  \E u \in Thread : \E n \in DOMAIN calls'[u] :
                        calls'[u][n].inst = j /\ calls'[u][n].at = "constructing"
    BY <1>2 DEF HasCreator
  <2>1. PICK u \in Thread : \E n \in DOMAIN calls[u] :
          calls[u][n].inst = j /\ calls[u][n].at = "constructing"
    BY DEF HasCreator
  <2>2. PICK n \in DOMAIN calls[u] :
          calls[u][n].inst = j /\ calls[u][n].at = "constructing"
    BY <2>1
  <2>3. n \in DOMAIN calls'[u] /\ calls'[u][n].inst = j /\ calls'[u][n].at = "constructing"
    BY <1>1, <2>2
  <2> QED
    BY <2>3
<1>7. CreatorIsSeen' /\ OneCreator'
  <2>1. CreatorIsSeen'
    BY <1>1, <1>2 DEF CreatorIsSeen
  <2>2. OneCreator'
    BY <1>1 DEF OneCreator
  <2> QED
    BY <2>1, <2>2
<1>8. /\ \A u \in Thread, j \in Instance : Registering(u, j)' <=> Registering(u, j)
      /\ \A j \in Instance : InStack(j)' <=> InStack(j)
  BY <1>1, <1>2 DEF Registering, InStack
<1>9. CreatedIsRegistered' /\ StackIsCreated' /\ RegisteringIsCreated'
  BY <1>2, <1>8 DEF CreatedIsRegistered, StackIsCreated, RegisteringIsCreated
<1>10. StackedOnce' /\ OneRegistering'
  BY <1>2, <1>8 DEF StackedOnce, OneRegistering
<1>11. WaitsForSome'
  BY <1>1, <1>2 DEF WaitsForSome
<1>12. GivenIsThere'
  <2> SUFFICES ASSUME NEW u \in Thread, NEW n \in DOMAIN calls'[u], NEW j \in calls'[u][n].got
               PROVE  state'[j] = "created" \/ j \in dead'
    BY DEF GivenIsThere
  <2>1. n \in DOMAIN calls[u] /\ (j \in calls[u][n].got \/ j = i)
    BY <1>1
  <2>2. state[j] = "created" \/ j \in dead
    BY <1>2, <2>1 DEF GivenIsThere
  <2> QED
    BY <1>2, <2>2
<1>13. RegistersComplete'
  <2> SUFFICES ASSUME NEW u \in Thread, NEW n \in DOMAIN calls'[u],
                      calls'[u][n].at = "registering", NEW j \in Needs[calls'[u][n].inst]
               PROVE  j \in calls'[u][n].got
    BY DEF RegistersComplete
  <2>1. /\ n \in DOMAIN calls[u] /\ calls[u][n].at = "registering"
        /\ j \in Needs[calls[u][n].inst]
    BY <1>1
  <2>2. j \in calls[u][n].got
    BY <2>1 DEF RegistersComplete
  <2> QED
    BY <1>1, <2>1, <2>2
<1>14. GivenIsStacked'
  <2> SUFFICES ASSUME ~raced, Kind[i] = "leaky" \/ InStack(i),
                      NEW u \in Thread, NEW n \in DOMAIN calls'[u], NEW j \in calls'[u][n].got
               PROVE  Kind[j] = "leaky" \/ InStack(j)
    BY <1>2, <1>4 DEF GivenIsStacked, InStack
  <2>1. n \in DOMAIN calls[u] /\ (j \in calls[u][n].got \/ j = i)
    BY <1>1
  <2> QED
    BY <2>1 DEF GivenIsStacked
<1>15. StackInOrder'
  BY <1>2, <1>4 DEF StackInOrder
<1> QED
  BY <1>3, <1>5, <1>6, <1>7, <1>9, <1>10, <1>11, <1>12, <1>13, <1>14, <1>15

LEMMA NeedsInstanceInv ==
  ASSUME TypeOK, IInv, NEW t \in Thread, NEW i \in Instance, NeedsInstance(t, i)
  PROVE  TypeOK' /\ IInv'
<1> USE DEF IInv, Creators, Registered, Provided, InOrder
<1>1. /\ calls' \in [Thread -> Seq(Call)]
      /\ calls'[t] # <<>> /\ 1 \in DOMAIN calls'[t]
      /\ calls'[t][1].inst = i /\ calls'[t][1].got = {}
      /\ calls'[t][1].at \in {"constructing", "spinning"}
      /\ calls'[t][1].at = "constructing" <=> MayCreate(i)
  BY EnterMoves
<1>2. \A u \in Thread : \A n \in DOMAIN calls'[u] :
        u # t \/ n # 1 =>
          /\ Inner(t, u, n) \in DOMAIN calls[u]
          /\ Outer(t, u, Inner(t, u, n)) = n
          /\ calls'[u][n] = calls[u][Inner(t, u, n)]
  BY EnterMoves
<1>3. \A u \in Thread : \A n \in DOMAIN calls[u] :
        /\ Outer(t, u, n) \in DOMAIN calls'[u]
        /\ u = t => Outer(t, u, n) # 1
        /\ calls'[u][Outer(t, u, n)] = calls[u][n]
  BY EnterMoves
<1>4. /\ ~exiting /\ state[i] # "created"
      /\ calls[t] # <<>> => At(t, "constructing")
      /\ UNCHANGED <<dead, stack, exiting, exits, raced>>
      /\ MayCreate(i) <=> state[i] = "empty"
      /\ state' = [state EXCEPT ![i] = IF MayCreate(i) THEN "creating" ELSE @]
  BY DEF NeedsInstance, Wants, MayCreate
<1>5. /\ \A j \in Instance : j # i => state'[j] = state[j]
      /\ state'[i] = "creating"
      /\ ~MayCreate(i) => state[i] = "creating"
      /\ state' \in [Instance -> {"empty", "creating", "created"}]
  BY <1>4 DEF TypeOK
<1>6. TypeOK'
  BY <1>1, <1>4, <1>5 DEF TypeOK
<1>7. ExitsAlone' /\ DeadAreStatic'
  BY <1>4 DEF ExitsAlone, DeadAreStatic
<1>8. \A u \in Thread : \A n \in DOMAIN calls[u] :
        /\ n \in Nat /\ n >= 1 /\ calls[u][n].inst \in Instance
        /\ calls[u][n].got \in SUBSET Instance
  BY First, Fields DEF TypeOK
<1>9. OnlyInnermost'
  <2> SUFFICES ASSUME NEW u \in Thread, NEW n \in DOMAIN calls'[u], n > 1
               PROVE  calls'[u][n].at = "constructing"
    BY DEF OnlyInnermost
  <2>1. CASE u # t
    BY <1>2, <2>1 DEF OnlyInnermost, Inner
  <2>2. CASE u = t
    <3>1. n - 1 \in DOMAIN calls[t] /\ calls'[t][n] = calls[t][n - 1]
      BY <1>2, <2>2 DEF Inner
    <3>2. calls[t] # <<>> /\ n - 1 \in Nat /\ n - 1 >= 1
      BY <1>8, <3>1
    <3>3. calls[t][1].at = "constructing"
      BY <1>4, <3>2, AtFirst
    <3> QED
      BY <2>2, <3>1, <3>2, <3>3 DEF OnlyInnermost
  <2> QED
    BY <2>1, <2>2
<1>10. HasCreator'
  <2> SUFFICES ASSUME NEW j \in Instance, state'[j] = "creating"
               PROVE  \E u \in Thread : \E n \in DOMAIN calls'[u] :
                        calls'[u][n].inst = j /\ calls'[u][n].at = "constructing"
    BY DEF HasCreator
  <2>1. CASE j = i /\ MayCreate(i)
    BY <1>1, <2>1
  <2>2. CASE ~(j = i /\ MayCreate(i))
    <3>1. state[j] = "creating"
      BY <1>4, <1>5, <2>2
    <3>2. PICK u \in Thread : \E n \in DOMAIN calls[u] :
            calls[u][n].inst = j /\ calls[u][n].at = "constructing"
      BY <3>1 DEF HasCreator
    <3>3. PICK n \in DOMAIN calls[u] :
            calls[u][n].inst = j /\ calls[u][n].at = "constructing"
      BY <3>2
    <3> QED
      BY <1>3, <3>3
  <2> QED
    BY <2>1, <2>2
<1>11. CreatorIsSeen'
  <2> SUFFICES ASSUME NEW u \in Thread, NEW n \in DOMAIN calls'[u],
                      calls'[u][n].at = "constructing"
               PROVE  state'[calls'[u][n].inst] = "creating"
    BY DEF CreatorIsSeen
  <2>1. CASE u = t /\ n = 1
    BY <1>1, <1>5, <2>1
  <2>2. CASE u # t \/ n # 1
    BY <1>2, <1>5, <1>8, <2>2 DEF CreatorIsSeen
  <2> QED
    BY <2>1, <2>2
<1>12. OneCreator'
  <2>1. ASSUME NEW u \in Thread, NEW n \in DOMAIN calls'[u], u # t \/ n # 1,
               calls'[u][n].at = "constructing", MayCreate(i)
        PROVE  calls'[u][n].inst # i
    BY <1>2, <1>4, <2>1 DEF CreatorIsSeen
  <2>2. ASSUME NEW u \in Thread, NEW v \in Thread,
               NEW n \in DOMAIN calls'[u], NEW m \in DOMAIN calls'[v],
               u # t \/ n # 1, v # t \/ m # 1,
               calls'[u][n].at = "constructing", calls'[v][m].at = "constructing",
               calls'[u][n].inst = calls'[v][m].inst
        PROVE  u = v /\ n = m
    <3>1. u = v /\ Inner(t, u, n) = Inner(t, v, m)
      BY <1>2, <2>2 DEF OneCreator
    <3>2. Outer(t, u, Inner(t, u, n)) = n /\ Outer(t, v, Inner(t, v, m)) = m
      BY <1>2, <2>2
    <3> QED
      BY <3>1, <3>2
  <2> QED
    BY <1>1, <2>1, <2>2 DEF OneCreator
<1>13. /\ \A u \in Thread, j \in Instance : Registering(u, j)' <=> Registering(u, j)
       /\ \A j \in Instance : InStack(j)' <=> InStack(j)
  <2>1. ASSUME NEW u \in Thread, NEW j \in Instance, Registering(u, j)
        PROVE  Registering(u, j)'
    BY <1>3, <2>1 DEF Registering
  <2>2. ASSUME NEW u \in Thread, NEW j \in Instance, Registering(u, j)'
        PROVE  Registering(u, j)
    BY <1>1, <1>2, <2>2 DEF Registering
  <2> QED
    BY <1>4, <2>1, <2>2 DEF InStack
<1>14. CreatedIsRegistered' /\ StackIsCreated' /\ RegisteringIsCreated'
  <2>1. \A j \in Instance : state'[j] = "created" <=> state[j] = "created"
    BY <1>4, <1>5
  <2> QED
    BY <1>13, <2>1 DEF CreatedIsRegistered, StackIsCreated, RegisteringIsCreated
<1>15. StackedOnce' /\ OneRegistering'
  BY <1>4, <1>13 DEF StackedOnce, OneRegistering
<1>16. WaitsForSome'
  <2> SUFFICES ASSUME NEW u \in Thread, NEW n \in DOMAIN calls'[u],
                      calls'[u][n].at = "spinning"
               PROVE  state'[calls'[u][n].inst] # "empty" \/ calls'[u][n].inst \in dead
    BY <1>4 DEF WaitsForSome
  <2>1. CASE u = t /\ n = 1
    BY <1>1, <1>5, <2>1
  <2>2. CASE u # t \/ n # 1
    BY <1>2, <1>5, <1>8, <2>2 DEF WaitsForSome
  <2> QED
    BY <2>1, <2>2
<1>17. GivenIsThere'
  <2> SUFFICES ASSUME NEW u \in Thread, NEW n \in DOMAIN calls'[u], NEW j \in calls'[u][n].got
               PROVE  state'[j] = "created" \/ j \in dead
    BY <1>4 DEF GivenIsThere
  <2>1. u # t \/ n # 1
    BY <1>1
  <2>2. Inner(t, u, n) \in DOMAIN calls[u] /\ j \in calls[u][Inner(t, u, n)].got
    BY <1>2, <2>1
  <2> QED
    BY <1>4, <1>5, <1>8, <2>2 DEF GivenIsThere
<1>18. RegistersComplete'
  <2> SUFFICES ASSUME NEW u \in Thread, NEW n \in DOMAIN calls'[u],
                      calls'[u][n].at = "registering",
                      NEW j \in Needs[calls'[u][n].inst]
               PROVE  j \in calls'[u][n].got
    BY DEF RegistersComplete
  <2>1. u # t \/ n # 1
    BY <1>1
  <2> QED
    BY <1>2, <2>1 DEF RegistersComplete
<1>19. GivenIsStacked'
  <2> SUFFICES ASSUME ~raced, NEW u \in Thread, NEW n \in DOMAIN calls'[u],
                      NEW j \in calls'[u][n].got
               PROVE  Kind[j] = "leaky" \/ InStack(j)
    BY <1>4 DEF GivenIsStacked, InStack
  <2>1. u # t \/ n # 1
    BY <1>1
  <2> QED
    BY <1>2, <2>1 DEF GivenIsStacked
<1>20. StackInOrder'
  BY <1>4 DEF StackInOrder
<1> QED
  BY <1>6, <1>7, <1>9, <1>10, <1>11, <1>12, <1>14, <1>15, <1>16, <1>17, <1>18, <1>19, <1>20

\* What does not depend on what the innermost call was, when it returns.
LEMMA ReturnKeeps ==
  ASSUME TypeOK, OnlyInnermost, OneCreator, NEW t \in Thread, calls[t] # <<>>, Return(t)
  PROVE  /\ OnlyInnermost' /\ OneCreator'
         /\ calls' \in [Thread -> Seq(Call)]
         /\ \A u \in Thread, j \in Instance : Registering(u, j)' =>
              u # t /\ Registering(u, j)
         /\ \A u \in Thread, j \in Instance : u # t /\ Registering(u, j) =>
              Registering(u, j)'
<1>1. /\ calls' \in [Thread -> Seq(Call)]
      /\ \A u \in Thread : \A n \in DOMAIN calls'[u] :
           /\ Outer(t, u, n) \in DOMAIN calls[u]
           /\ u = t => Outer(t, u, n) # 1
           /\ calls'[u][n].inst = calls[u][Outer(t, u, n)].inst
           /\ calls'[u][n].at = calls[u][Outer(t, u, n)].at
      /\ \A u \in Thread : \A n \in DOMAIN calls[u] :
           u # t \/ n # 1 =>
             /\ Inner(t, u, n) \in DOMAIN calls'[u]
             /\ Outer(t, u, Inner(t, u, n)) = n
  BY ReturnMoves
<1>2. /\ \A u \in Thread : \A n \in DOMAIN calls[u] : n \in Nat /\ n >= 1
      /\ \A u \in Thread : \A n \in DOMAIN calls'[u] : n \in Nat /\ n >= 1
  BY <1>1, First DEF TypeOK
<1>3. OnlyInnermost'
  <2> SUFFICES ASSUME NEW u \in Thread, NEW n \in DOMAIN calls'[u], n > 1
               PROVE  calls'[u][n].at = "constructing"
    BY DEF OnlyInnermost
  <2>1. Outer(t, u, n) \in DOMAIN calls[u] /\ Outer(t, u, n) > 1
    BY <1>1, <1>2 DEF Outer
  <2> QED
    BY <1>1, <2>1 DEF OnlyInnermost
<1>4. OneCreator'
  <2> SUFFICES ASSUME NEW u \in Thread, NEW v \in Thread,
                      NEW n \in DOMAIN calls'[u], NEW m \in DOMAIN calls'[v],
                      calls'[u][n].at = "constructing", calls'[v][m].at = "constructing",
                      calls'[u][n].inst = calls'[v][m].inst
               PROVE  u = v /\ n = m
    BY DEF OneCreator
  <2>1. u = v /\ Outer(t, u, n) = Outer(t, v, m)
    <3>1. /\ Outer(t, u, n) \in DOMAIN calls[u] /\ Outer(t, v, m) \in DOMAIN calls[v]
          /\ calls[u][Outer(t, u, n)].at = "constructing"
          /\ calls[v][Outer(t, v, m)].at = "constructing"
          /\ calls[u][Outer(t, u, n)].inst = calls[v][Outer(t, v, m)].inst
      BY <1>1
    <3> QED
      BY <3>1 DEF OneCreator
  <2> QED
    BY <1>2, <2>1 DEF Outer
<1>5. ASSUME NEW u \in Thread, NEW j \in Instance, Registering(u, j)'
      PROVE  u # t /\ Registering(u, j)
  <2>1. PICK n \in DOMAIN calls'[u] :
          calls'[u][n].inst = j /\ calls'[u][n].at = "registering"
    BY <1>5 DEF Registering
  <2>2. /\ Outer(t, u, n) \in DOMAIN calls[u]
        /\ u = t => Outer(t, u, n) # 1
        /\ calls[u][Outer(t, u, n)].inst = j /\ calls[u][Outer(t, u, n)].at = "registering"
    BY <1>1, <2>1
  <2>3. u # t
    BY <1>2, <2>2 DEF OnlyInnermost
  <2> QED
    BY <2>2, <2>3 DEF Registering
<1>6. ASSUME NEW u \in Thread, NEW j \in Instance, u # t, Registering(u, j)
      PROVE  Registering(u, j)'
  <2>1. PICK n \in DOMAIN calls[u] :
          calls[u][n].inst = j /\ calls[u][n].at = "registering"
    BY <1>6 DEF Registering
  <2>2. Inner(t, u, n) = n /\ Inner(t, u, n) \in DOMAIN calls'[u] /\ Outer(t, u, n) = n
    BY <1>1, <1>6, <2>1 DEF Inner, Outer
  <2>3. n \in DOMAIN calls'[u] /\ calls'[u][n].inst = j /\ calls'[u][n].at = "registering"
    BY <1>1, <2>1, <2>2
  <2> QED
    BY <2>3 DEF Registering
<1> QED
  BY <1>1, <1>3, <1>4, <1>5, <1>6

LEMMA SpunInv ==
  ASSUME TypeOK, IInv, NEW t \in Thread, Spun(t)
  PROVE  TypeOK' /\ IInv'
<1> USE DEF IInv, Creators, Registered, Provided, InOrder
<1>1. PICK i \in Instance : i = calls[t][1].inst
  BY AtFirst, Fields DEF Spun
<1>2. /\ calls[t] # <<>> /\ 1 \in DOMAIN calls[t] /\ calls[t][1].at = "spinning"
      /\ Head(calls[t]) = calls[t][1]
  BY AtFirst DEF Spun
<1>3. /\ WaitIsOver(i)
      /\ raced' = (raced \/ (Len(calls[t]) > 1 /\ Unregistered(i)))
      /\ UNCHANGED <<state, dead, stack, exiting, exits>>
      /\ Return(t)
  BY <1>1, <1>2 DEF Spun
<1>4. state[i] = "created" \/ i \in dead
  <2>1. state[i] # "empty" \/ i \in dead
    BY <1>1, <1>2 DEF WaitsForSome
  <2>2. state[i] # "creating"
    BY <1>3 DEF WaitIsOver
  <2>3. state[i] \in {"empty", "creating", "created"}
    BY <1>2 DEF TypeOK
  <2> QED
    BY <2>1, <2>2, <2>3
<1>5. /\ \A u \in Thread : \A n \in DOMAIN calls'[u] :
           /\ Outer(t, u, n) \in DOMAIN calls[u]
           /\ calls'[u][n].inst = calls[u][Outer(t, u, n)].inst
           /\ calls'[u][n].at = calls[u][Outer(t, u, n)].at
           /\ \A j : j \in calls'[u][n].got
                <=> j \in calls[u][Outer(t, u, n)].got \/ (u = t /\ n = 1 /\ j = i)
      /\ \A u \in Thread : \A n \in DOMAIN calls[u] :
           u # t \/ n # 1 =>
             Inner(t, u, n) \in DOMAIN calls'[u] /\ Outer(t, u, Inner(t, u, n)) = n
  BY <1>1, <1>2, <1>3, ReturnMoves
<1>6. /\ OnlyInnermost' /\ OneCreator'
      /\ calls' \in [Thread -> Seq(Call)]
      /\ \A u \in Thread, j \in Instance : Registering(u, j)' => u # t /\ Registering(u, j)
      /\ \A u \in Thread, j \in Instance : u # t /\ Registering(u, j) => Registering(u, j)'
  BY <1>2, <1>3, ReturnKeeps
<1>7. \A j \in Instance : ~Registering(t, j)
  <2>1. \A n \in DOMAIN calls[t] : n \in Nat /\ n >= 1
    BY First DEF TypeOK
  <2> QED
    BY <1>2, <2>1 DEF Registering, OnlyInnermost
<1>8. /\ \A u \in Thread, j \in Instance : Registering(u, j)' <=> Registering(u, j)
      /\ \A j \in Instance : InStack(j)' <=> InStack(j)
  BY <1>3, <1>6, <1>7 DEF InStack
<1>9. TypeOK'
  BY <1>3, <1>6 DEF TypeOK
<1>10. ExitsAlone' /\ DeadAreStatic'
  <2>1. ~exiting
    BY <1>2 DEF ExitsAlone
  <2> QED
    BY <1>3, <2>1 DEF ExitsAlone, DeadAreStatic
<1>11. HasCreator'
  <2> SUFFICES ASSUME NEW j \in Instance, state[j] = "creating"
               PROVE  \E u \in Thread : \E n \in DOMAIN calls'[u] :
                        calls'[u][n].inst = j /\ calls'[u][n].at = "constructing"
    BY <1>3 DEF HasCreator
  <2>1. PICK u \in Thread : \E n \in DOMAIN calls[u] :
          calls[u][n].inst = j /\ calls[u][n].at = "constructing"
    BY DEF HasCreator
  <2>2. PICK n \in DOMAIN calls[u] :
          calls[u][n].inst = j /\ calls[u][n].at = "constructing"
    BY <2>1
  <2> QED
    BY <1>2, <1>5, <2>2
<1>12. CreatorIsSeen' /\ WaitsForSome'
  <2>1. CreatorIsSeen'
    BY <1>3, <1>5 DEF CreatorIsSeen
  <2>2. WaitsForSome'
    BY <1>3, <1>5 DEF WaitsForSome
  <2> QED
    BY <2>1, <2>2
<1>13. CreatedIsRegistered' /\ StackIsCreated' /\ RegisteringIsCreated'
  BY <1>3, <1>8 DEF CreatedIsRegistered, StackIsCreated, RegisteringIsCreated
<1>14. StackedOnce' /\ OneRegistering'
  BY <1>3, <1>8 DEF StackedOnce, OneRegistering
<1>15. GivenIsThere'
  <2> SUFFICES ASSUME NEW u \in Thread, NEW n \in DOMAIN calls'[u], NEW j \in calls'[u][n].got
               PROVE  state[j] = "created" \/ j \in dead
    BY <1>3 DEF GivenIsThere
  <2> QED
    BY <1>4, <1>5 DEF GivenIsThere
<1>16. RegistersComplete'
  <2> SUFFICES ASSUME NEW u \in Thread, NEW n \in DOMAIN calls'[u],
                      calls'[u][n].at = "registering",
                      NEW j \in Needs[calls'[u][n].inst]
               PROVE  j \in calls'[u][n].got
    BY DEF RegistersComplete
  <2> QED
    BY <1>5 DEF RegistersComplete
<1>17. ~raced' => ~raced
  BY <1>3
<1>18. GivenIsStacked'
  <2> SUFFICES ASSUME ~raced', NEW u \in Thread, NEW n \in DOMAIN calls'[u],
                      NEW j \in calls'[u][n].got
               PROVE  Kind[j] = "leaky" \/ InStack(j)
    BY <1>3 DEF GivenIsStacked, InStack
  <2>1. CASE j \in calls[u][Outer(t, u, n)].got
    BY <1>5, <1>17, <2>1 DEF GivenIsStacked
  <2>2. CASE u = t /\ n = 1 /\ j = i
    <3>1. 2 \in DOMAIN calls[t]
      BY <1>5, <2>2 DEF Outer
    <3>2. Len(calls[t]) > 1
      BY <3>1, LenProperties DEF TypeOK
    <3>3. ~Unregistered(i)
      BY <1>3, <3>2
    <3> QED
      BY <1>2, <2>2, <3>3, InRange
  <2> QED
    BY <1>5, <2>1, <2>2
<1>19. StackInOrder'
  BY <1>3, <1>17 DEF StackInOrder
<1> QED
  BY <1>6, <1>9, <1>10, <1>11, <1>12, <1>13, <1>14, <1>15, <1>16, <1>18, <1>19

\* A constructor returns, and with it the call: the instance is leaky, or there
\* will be none.
LEMMA PublishReturnInv ==
  ASSUME TypeOK, IInv, NEW t \in Thread, Publish(t),
         Head(calls[t]).inst \in dead \/ Kind[Head(calls[t]).inst] = "leaky"
  PROVE  TypeOK' /\ IInv'
<1> USE DEF IInv, Creators, Registered, Provided, InOrder
<1>1. PICK i \in Instance : i = calls[t][1].inst
  BY AtFirst, Fields DEF Publish
<1>2. /\ calls[t] # <<>> /\ 1 \in DOMAIN calls[t] /\ calls[t][1].at = "constructing"
      /\ Head(calls[t]) = calls[t][1]
  BY AtFirst DEF Publish
<1>3. /\ i \in dead \/ Kind[i] = "leaky"
      /\ raced' = (raced \/ (Len(calls[t]) > 1 /\ i \in dead))
      /\ UNCHANGED <<stack, exiting, exits>>
      /\ Return(t)
      /\ state' = [state EXCEPT ![i] = IF i \in dead THEN "empty" ELSE "created"]
      /\ dead' = IF Kind[i] = "static" THEN dead \union {i} ELSE dead
  BY <1>1, <1>2 DEF Publish
<1>4. /\ i \in dead => Kind[i] = "static"
      /\ state[i] = "creating"
      /\ ~InStack(i)
      /\ \A u \in Thread : ~Registering(u, i)
  BY <1>1, <1>2, LazyAssumption
     DEF DeadAreStatic, CreatorIsSeen, StackIsCreated, RegisteringIsCreated
<1>5. /\ \A u \in Thread : \A n \in DOMAIN calls'[u] :
           /\ Outer(t, u, n) \in DOMAIN calls[u]
           /\ u = t => Outer(t, u, n) # 1
           /\ calls'[u][n].inst = calls[u][Outer(t, u, n)].inst
           /\ calls'[u][n].at = calls[u][Outer(t, u, n)].at
           /\ \A j : j \in calls'[u][n].got
                <=> j \in calls[u][Outer(t, u, n)].got \/ (u = t /\ n = 1 /\ j = i)
      /\ \A u \in Thread : \A n \in DOMAIN calls[u] :
           u # t \/ n # 1 =>
             Inner(t, u, n) \in DOMAIN calls'[u] /\ Outer(t, u, Inner(t, u, n)) = n
  BY <1>1, <1>2, <1>3, ReturnMoves
<1>6. /\ OnlyInnermost' /\ OneCreator'
      /\ calls' \in [Thread -> Seq(Call)]
      /\ \A u \in Thread, j \in Instance : Registering(u, j)' => u # t /\ Registering(u, j)
      /\ \A u \in Thread, j \in Instance : u # t /\ Registering(u, j) => Registering(u, j)'
  BY <1>2, <1>3, ReturnKeeps
<1>7. \A j \in Instance : ~Registering(t, j)
  <2>1. \A n \in DOMAIN calls[t] : n \in Nat /\ n >= 1
    BY First DEF TypeOK
  <2> QED
    BY <1>2, <2>1 DEF Registering, OnlyInnermost
<1>8. /\ \A u \in Thread, j \in Instance : Registering(u, j)' <=> Registering(u, j)
      /\ \A j \in Instance : InStack(j)' <=> InStack(j)
  BY <1>3, <1>6, <1>7 DEF InStack
<1>9. /\ i \in dead => dead' = dead /\ state'[i] = "empty"
      /\ i \notin dead => dead' = dead /\ state'[i] = "created" /\ Kind[i] = "leaky"
      /\ \A j \in Instance : j # i => state'[j] = state[j]
      /\ state' \in [Instance -> {"empty", "creating", "created"}]
  BY <1>2, <1>3, <1>4 DEF TypeOK
<1>10. TypeOK'
  <2>1. raced' \in BOOLEAN
    BY <1>3
  <2> QED
    BY <1>3, <1>6, <1>9, <2>1 DEF TypeOK
<1>11. ExitsAlone' /\ DeadAreStatic'
  <2>1. ~exiting
    BY <1>2 DEF ExitsAlone
  <2> QED
    BY <1>3, <1>9, <2>1 DEF ExitsAlone, DeadAreStatic
<1>12. \A u \in Thread : \A n \in DOMAIN calls[u] :
         /\ calls[u][n].inst \in Instance
         /\ calls[u][n].got \in SUBSET Instance
  BY First, Fields DEF TypeOK
<1>13. HasCreator'
  <2> SUFFICES ASSUME NEW j \in Instance, state'[j] = "creating"
               PROVE  \E u \in Thread : \E n \in DOMAIN calls'[u] :
                        calls'[u][n].inst = j /\ calls'[u][n].at = "constructing"
    BY DEF HasCreator
  <2>1. j # i /\ state[j] = "creating"
    BY <1>9
  <2>2. PICK u \in Thread : \E n \in DOMAIN calls[u] :
          calls[u][n].inst = j /\ calls[u][n].at = "constructing"
    BY <2>1 DEF HasCreator
  <2>3. PICK n \in DOMAIN calls[u] :
          calls[u][n].inst = j /\ calls[u][n].at = "constructing"
    BY <2>2
  <2>4. u # t \/ n # 1
    BY <1>1, <2>1, <2>3
  <2> QED
    BY <1>5, <2>3, <2>4
<1>14. CreatorIsSeen'
  <2> SUFFICES ASSUME NEW u \in Thread, NEW n \in DOMAIN calls'[u],
                      calls'[u][n].at = "constructing"
               PROVE  state'[calls'[u][n].inst] = "creating"
    BY DEF CreatorIsSeen
  <2> DEFINE m == Outer(t, u, n)
  <2>1. /\ m \in DOMAIN calls[u] /\ (u = t => m # 1)
        /\ calls[u][m].at = "constructing" /\ calls[u][m].inst = calls'[u][n].inst
    BY <1>5
  <2> HIDE DEF m
  <2>2. calls[u][m].inst # i
    BY <1>1, <1>2, <2>1 DEF OneCreator
  <2> QED
    BY <1>9, <1>12, <2>1, <2>2 DEF CreatorIsSeen
<1>15. CreatedIsRegistered' /\ StackIsCreated' /\ RegisteringIsCreated'
  BY <1>3, <1>4, <1>8, <1>9 DEF CreatedIsRegistered, StackIsCreated, RegisteringIsCreated
<1>16. StackedOnce' /\ OneRegistering'
  BY <1>3, <1>8 DEF StackedOnce, OneRegistering
<1>17. WaitsForSome'
  <2> SUFFICES ASSUME NEW u \in Thread, NEW n \in DOMAIN calls'[u],
                      calls'[u][n].at = "spinning"
               PROVE  state'[calls'[u][n].inst] # "empty" \/ calls'[u][n].inst \in dead'
    BY DEF WaitsForSome
  <2>1. /\ calls'[u][n].inst \in Instance
        /\ state[calls'[u][n].inst] # "empty" \/ calls'[u][n].inst \in dead
    BY <1>5, <1>12 DEF WaitsForSome
  <2> QED
    BY <1>9, <2>1
<1>18. GivenIsThere'
  <2> SUFFICES ASSUME NEW u \in Thread, NEW n \in DOMAIN calls'[u], NEW j \in calls'[u][n].got
               PROVE  state'[j] = "created" \/ j \in dead'
    BY DEF GivenIsThere
  <2>1. CASE j \in calls[u][Outer(t, u, n)].got
    <3>1. j \in Instance /\ (state[j] = "created" \/ j \in dead)
      BY <1>5, <1>12, <2>1 DEF GivenIsThere
    <3> QED
      BY <1>4, <1>9, <3>1
  <2>2. CASE j = i
    BY <1>9, <2>2
  <2> QED
    BY <1>5, <2>1, <2>2
<1>19. RegistersComplete'
  <2> SUFFICES ASSUME NEW u \in Thread, NEW n \in DOMAIN calls'[u],
                      calls'[u][n].at = "registering",
                      NEW j \in Needs[calls'[u][n].inst]
               PROVE  j \in calls'[u][n].got
    BY DEF RegistersComplete
  <2> QED
    BY <1>5 DEF RegistersComplete
<1>20. ~raced' => ~raced
  BY <1>3
<1>21. GivenIsStacked'
  <2> SUFFICES ASSUME ~raced', NEW u \in Thread, NEW n \in DOMAIN calls'[u],
                      NEW j \in calls'[u][n].got
               PROVE  Kind[j] = "leaky" \/ InStack(j)
    BY <1>3 DEF GivenIsStacked, InStack
  <2>1. CASE j \in calls[u][Outer(t, u, n)].got
    BY <1>5, <1>20, <2>1 DEF GivenIsStacked
  <2>2. CASE u = t /\ n = 1 /\ j = i
    <3>1. 2 \in DOMAIN calls[t]
      BY <1>5, <2>2 DEF Outer
    <3>2. Len(calls[t]) > 1
      BY <3>1, LenProperties DEF TypeOK
    <3>3. i \notin dead
      BY <1>3, <3>2
    <3> QED
      BY <1>3, <2>2, <3>3
  <2> QED
    BY <1>5, <2>1, <2>2
<1>22. StackInOrder'
  BY <1>3, <1>20 DEF StackInOrder
<1> QED
  BY <1>6, <1>10, <1>11, <1>13, <1>14, <1>15, <1>16, <1>17, <1>18, <1>19, <1>21, <1>22

\* A constructor returns, and its instance is visible before it is registered.
LEMMA PublishInv ==
  ASSUME TypeOK, IInv, NEW t \in Thread, Publish(t),
         Head(calls[t]).inst \notin dead, Kind[Head(calls[t]).inst] # "leaky"
  PROVE  TypeOK' /\ IInv'
<1> USE DEF IInv, Creators, Registered, Provided, InOrder
<1>1. PICK i \in Instance : i = calls[t][1].inst
  BY AtFirst, Fields DEF Publish
<1>2. /\ calls[t] # <<>> /\ 1 \in DOMAIN calls[t] /\ calls[t][1].at = "constructing"
      /\ Head(calls[t]) = calls[t][1]
  BY AtFirst DEF Publish
<1>3. /\ i \notin dead /\ Kind[i] # "leaky"
      /\ calls[t][1].got = Needs[i]
      /\ raced' = (raced \/ (Len(calls[t]) > 1 /\ i \in dead))
      /\ UNCHANGED <<stack, exiting, exits>>
      /\ state' = [state EXCEPT ![i] = IF i \in dead THEN "empty" ELSE "created"]
      /\ dead' = IF Kind[i] = "static" THEN dead \union {i} ELSE dead
  BY <1>1, <1>2 DEF Publish
<1>4. /\ calls' \in [Thread -> Seq(Call)]
      /\ \A u \in Thread : DOMAIN calls'[u] = DOMAIN calls[u]
      /\ \A u \in Thread : \A n \in DOMAIN calls[u] :
           /\ calls'[u][n].inst = calls[u][n].inst
           /\ calls'[u][n].got = calls[u][n].got
           /\ u # t \/ n # 1 => calls'[u][n].at = calls[u][n].at
      /\ calls'[t][1].at = "registering"
  BY <1>1, <1>2, PublishMoves
<1>5. /\ state[i] = "creating"
      /\ ~InStack(i)
      /\ \A u \in Thread : ~Registering(u, i)
  BY <1>1, <1>2 DEF CreatorIsSeen, StackIsCreated, RegisteringIsCreated
<1>6. /\ state'[i] = "created"
      /\ \A j \in Instance : j # i => state'[j] = state[j]
      /\ state' \in [Instance -> {"empty", "creating", "created"}]
      /\ dead' \in SUBSET Instance /\ dead \subseteq dead'
      /\ \A j \in dead' : Kind[j] = "static"
  BY <1>2, <1>3 DEF TypeOK, DeadAreStatic
<1>7. raced' \in BOOLEAN /\ (~raced' => ~raced)
  BY <1>3
<1>8. TypeOK'
  BY <1>3, <1>4, <1>6, <1>7 DEF TypeOK
<1>9. ExitsAlone' /\ DeadAreStatic'
  <2>1. ~exiting
    BY <1>2 DEF ExitsAlone
  <2> QED
    BY <1>3, <1>6, <2>1 DEF ExitsAlone, DeadAreStatic
<1>10. \A u \in Thread : \A n \in DOMAIN calls[u] :
         /\ n \in Nat /\ n >= 1
         /\ calls[u][n].inst \in Instance
         /\ calls[u][n].got \in SUBSET Instance
  BY First, Fields DEF TypeOK
<1>11. OnlyInnermost'
  <2> SUFFICES ASSUME NEW u \in Thread, NEW n \in DOMAIN calls'[u], n > 1
               PROVE  calls'[u][n].at = "constructing"
    BY DEF OnlyInnermost
  <2>1. n # 1
    BY <1>4, <1>10
  <2> QED
    BY <1>4, <2>1 DEF OnlyInnermost
<1>12. ASSUME NEW u \in Thread, NEW n \in DOMAIN calls[u], calls[u][n].at = "constructing"
       PROVE  calls[u][n].inst = i <=> u = t /\ n = 1
  BY <1>1, <1>2, <1>12 DEF OneCreator
<1>13. HasCreator'
  <2> SUFFICES ASSUME NEW j \in Instance, state'[j] = "creating"
               PROVE  \E u \in Thread : \E n \in DOMAIN calls'[u] :
                        calls'[u][n].inst = j /\ calls'[u][n].at = "constructing"
    BY DEF HasCreator
  <2>1. j # i /\ state[j] = "creating"
    BY <1>6
  <2>2. PICK u \in Thread : \E n \in DOMAIN calls[u] :
          calls[u][n].inst = j /\ calls[u][n].at = "constructing"
    BY <2>1 DEF HasCreator
  <2>3. PICK n \in DOMAIN calls[u] :
          calls[u][n].inst = j /\ calls[u][n].at = "constructing"
    BY <2>2
  <2>4. u # t \/ n # 1
    BY <1>1, <2>1, <2>3
  <2> QED
    BY <1>4, <2>3, <2>4
<1>14. ASSUME NEW u \in Thread, NEW n \in DOMAIN calls'[u], calls'[u][n].at = "constructing"
       PROVE  /\ n \in DOMAIN calls[u] /\ calls[u][n].at = "constructing"
              /\ u # t \/ n # 1
  BY <1>4, <1>14
<1>15. CreatorIsSeen'
  <2> SUFFICES ASSUME NEW u \in Thread, NEW n \in DOMAIN calls'[u],
                      calls'[u][n].at = "constructing"
               PROVE  state'[calls'[u][n].inst] = "creating"
    BY DEF CreatorIsSeen
  <2>1. /\ n \in DOMAIN calls[u] /\ calls[u][n].at = "constructing"
        /\ calls[u][n].inst # i
    BY <1>12, <1>14
  <2>2. state[calls[u][n].inst] = "creating"
    BY <2>1 DEF CreatorIsSeen
  <2> QED
    BY <1>4, <1>6, <1>10, <2>1, <2>2
<1>16. OneCreator'
  <2> SUFFICES ASSUME NEW u \in Thread, NEW v \in Thread,
                      NEW n \in DOMAIN calls'[u], NEW m \in DOMAIN calls'[v],
                      calls'[u][n].at = "constructing", calls'[v][m].at = "constructing",
                      calls'[u][n].inst = calls'[v][m].inst
               PROVE  u = v /\ n = m
    BY DEF OneCreator
  <2>1. /\ n \in DOMAIN calls[u] /\ calls[u][n].at = "constructing"
        /\ m \in DOMAIN calls[v] /\ calls[v][m].at = "constructing"
        /\ calls[u][n].inst = calls[v][m].inst
    BY <1>4, <1>14
  <2> QED
    BY <2>1 DEF OneCreator
<1>17. Registering(t, i)'
  BY <1>1, <1>2, <1>4 DEF Registering
<1>18. ASSUME NEW u \in Thread, NEW j \in Instance, Registering(u, j)'
       PROVE  (u = t /\ j = i) \/ Registering(u, j)
  BY <1>1, <1>4, <1>18 DEF Registering
<1>19. ASSUME NEW u \in Thread, NEW j \in Instance, Registering(u, j)
       PROVE  Registering(u, j)' /\ u # t
  <2>1. PICK n \in DOMAIN calls[u] :
          calls[u][n].inst = j /\ calls[u][n].at = "registering"
    BY <1>19 DEF Registering
  <2>2. u # t
    BY <1>2, <1>10, <2>1 DEF OnlyInnermost
  <2> QED
    BY <1>4, <2>1, <2>2 DEF Registering
<1>20. \A j \in Instance : InStack(j)' <=> InStack(j)
  BY <1>3 DEF InStack
<1>21. CreatedIsRegistered' /\ StackIsCreated' /\ RegisteringIsCreated'
  <2>1. CreatedIsRegistered'
    <3> SUFFICES ASSUME NEW j \in Instance, state'[j] = "created", Kind[j] # "leaky"
                 PROVE  InStack(j)' \/ \E u \in Thread : Registering(u, j)'
      BY DEF CreatedIsRegistered
    <3>1. CASE j = i
      BY <1>17, <3>1
    <3>2. CASE j # i
      <4>1. InStack(j) \/ \E u \in Thread : Registering(u, j)
        BY <1>6, <3>2 DEF CreatedIsRegistered
      <4> QED
        BY <1>19, <1>20, <4>1
    <3> QED
      BY <3>1, <3>2
  <2>2. StackIsCreated'
    BY <1>5, <1>6, <1>20 DEF StackIsCreated
  <2>3. RegisteringIsCreated'
    BY <1>3, <1>5, <1>6, <1>18, <1>20 DEF RegisteringIsCreated
  <2> QED
    BY <2>1, <2>2, <2>3
<1>22. StackedOnce' /\ OneRegistering'
  <2>1. StackedOnce'
    BY <1>3 DEF StackedOnce
  <2>2. OneRegistering'
    BY <1>5, <1>18 DEF OneRegistering
  <2> QED
    BY <2>1, <2>2
<1>23. WaitsForSome'
  <2> SUFFICES ASSUME NEW u \in Thread, NEW n \in DOMAIN calls'[u],
                      calls'[u][n].at = "spinning"
               PROVE  state'[calls'[u][n].inst] # "empty" \/ calls'[u][n].inst \in dead'
    BY DEF WaitsForSome
  <2>1. /\ n \in DOMAIN calls[u] /\ calls[u][n].at = "spinning"
    BY <1>4
  <2>2. /\ calls'[u][n].inst \in Instance
        /\ state[calls'[u][n].inst] # "empty" \/ calls'[u][n].inst \in dead
    BY <1>4, <1>10, <2>1 DEF WaitsForSome
  <2> QED
    BY <1>6, <2>2
<1>24. GivenIsThere'
  <2> SUFFICES ASSUME NEW u \in Thread, NEW n \in DOMAIN calls'[u], NEW j \in calls'[u][n].got
               PROVE  state'[j] = "created" \/ j \in dead'
    BY DEF GivenIsThere
  <2>1. j \in Instance /\ (state[j] = "created" \/ j \in dead)
    BY <1>4, <1>10 DEF GivenIsThere
  <2> QED
    BY <1>6, <2>1
<1>25. RegistersComplete'
  <2> SUFFICES ASSUME NEW u \in Thread, NEW n \in DOMAIN calls'[u],
                      calls'[u][n].at = "registering",
                      NEW j \in Needs[calls'[u][n].inst]
               PROVE  j \in calls'[u][n].got
    BY DEF RegistersComplete
  <2>1. CASE u = t /\ n = 1
    BY <1>1, <1>3, <1>4, <2>1
  <2>2. CASE u # t \/ n # 1
    BY <1>4, <2>2 DEF RegistersComplete
  <2> QED
    BY <2>1, <2>2
<1>26. GivenIsStacked'
  <2> SUFFICES ASSUME ~raced', NEW u \in Thread, NEW n \in DOMAIN calls'[u],
                      NEW j \in calls'[u][n].got
               PROVE  Kind[j] = "leaky" \/ InStack(j)
    BY <1>3 DEF GivenIsStacked, InStack
  <2> QED
    BY <1>4, <1>7 DEF GivenIsStacked
<1>27. StackInOrder'
  BY <1>3, <1>7 DEF StackInOrder
<1> QED
  BY <1>8, <1>9, <1>11, <1>13, <1>15, <1>16, <1>21, <1>22, <1>23, <1>24, <1>25, <1>26, <1>27

LEMMA RegisterCallbackInv ==
  ASSUME TypeOK, IInv, NEW t \in Thread, RegisterCallback(t)
  PROVE  TypeOK' /\ IInv'
<1> USE DEF IInv, Creators, Registered, Provided, InOrder
<1>1. PICK i \in Instance : i = calls[t][1].inst
  BY AtFirst, Fields DEF RegisterCallback
<1>2. /\ calls[t] # <<>> /\ 1 \in DOMAIN calls[t] /\ calls[t][1].at = "registering"
      /\ Head(calls[t]) = calls[t][1]
  BY AtFirst DEF RegisterCallback
<1>3. /\ stack' = <<i>> \o stack
      /\ Return(t)
      /\ UNCHANGED <<state, dead, exiting, exits, raced>>
  BY <1>1, <1>2 DEF RegisterCallback, Push
<1>4. Registering(t, i)
  BY <1>1, <1>2 DEF Registering
<1>5. /\ state[i] = "created" /\ Kind[i] # "leaky" /\ ~InStack(i)
      /\ \A u \in Thread : Registering(u, i) => u = t
      /\ \A j \in Needs[i] : j \in calls[t][1].got
  BY <1>1, <1>2, <1>4 DEF RegisteringIsCreated, OneRegistering, RegistersComplete
<1>6. stack \in Seq(Instance) /\ \A n \in DOMAIN stack : n \in Nat /\ n >= 1 /\ stack[n] \in Instance
  BY First DEF TypeOK
<1>7. /\ stack' \in Seq(Instance)
      /\ stack'[1] = i /\ 1 \in DOMAIN stack'
      /\ \A n \in DOMAIN stack' :
           n \in Nat /\ (n = 1 \/ (n - 1 \in DOMAIN stack /\ stack'[n] = stack[n - 1]))
      /\ \A n \in DOMAIN stack : n + 1 \in DOMAIN stack' /\ stack'[n + 1] = stack[n]
  <2>1. /\ stack' \in Seq(Instance)
        /\ stack'[1] = i
        /\ \A n \in Nat : n \in DOMAIN stack' <=> n = 1 \/ (n > 1 /\ n - 1 \in DOMAIN stack)
        /\ \A n \in DOMAIN stack : stack'[n + 1] = stack[n]
    BY <1>2, <1>3, <1>6, PushFront
  <2>2. \A n \in DOMAIN stack' : n \in Nat /\ n >= 1
    BY <2>1, First
  <2>3. ASSUME NEW n \in DOMAIN stack', n # 1
        PROVE  n - 1 \in DOMAIN stack /\ stack'[n] = stack[n - 1]
    <3>1. n \in Nat /\ n - 1 \in DOMAIN stack /\ (n - 1) + 1 = n
      BY <2>1, <2>2, <2>3
    <3> QED
      BY <2>1, <3>1
  <2>4. ASSUME NEW n \in DOMAIN stack
        PROVE  n + 1 \in DOMAIN stack' /\ stack'[n + 1] = stack[n]
    <3>1. n + 1 \in Nat /\ n + 1 > 1 /\ (n + 1) - 1 = n
      BY <1>6
    <3> QED
      BY <2>1, <3>1
  <2> QED
    BY <2>1, <2>2, <2>3, <2>4
<1>8. /\ InStack(i)'
      /\ \A j \in Instance : InStack(j) => InStack(j)'
      /\ \A j \in Instance : InStack(j)' => InStack(j) \/ j = i
  <2>1. ASSUME NEW j \in Instance, InStack(j)' PROVE InStack(j) \/ j = i
    BY <1>7, <2>1 DEF InStack
  <2>2. ASSUME NEW j \in Instance, InStack(j) PROVE InStack(j)'
    BY <1>7, <2>2 DEF InStack
  <2>3. InStack(i)'
    BY <1>7 DEF InStack
  <2> QED
    BY <2>1, <2>2, <2>3
<1>9. /\ \A u \in Thread : \A n \in DOMAIN calls'[u] :
           /\ Outer(t, u, n) \in DOMAIN calls[u]
           /\ u = t => Outer(t, u, n) # 1
           /\ calls'[u][n].inst = calls[u][Outer(t, u, n)].inst
           /\ calls'[u][n].at = calls[u][Outer(t, u, n)].at
           /\ \A j : j \in calls'[u][n].got
                <=> j \in calls[u][Outer(t, u, n)].got \/ (u = t /\ n = 1 /\ j = i)
      /\ \A u \in Thread : \A n \in DOMAIN calls[u] :
           u # t \/ n # 1 =>
             Inner(t, u, n) \in DOMAIN calls'[u] /\ Outer(t, u, Inner(t, u, n)) = n
  BY <1>1, <1>2, <1>3, ReturnMoves
<1>10. /\ OnlyInnermost' /\ OneCreator'
       /\ calls' \in [Thread -> Seq(Call)]
       /\ \A u \in Thread, j \in Instance : Registering(u, j)' => u # t /\ Registering(u, j)
       /\ \A u \in Thread, j \in Instance : u # t /\ Registering(u, j) => Registering(u, j)'
  BY <1>2, <1>3, ReturnKeeps
<1>11. \A u \in Thread : \A n \in DOMAIN calls[u] :
         /\ n \in Nat /\ n >= 1
         /\ calls[u][n].inst \in Instance
         /\ calls[u][n].got \in SUBSET Instance
  BY First, Fields DEF TypeOK
<1>12. TypeOK'
  BY <1>3, <1>7, <1>10 DEF TypeOK
<1>13. ExitsAlone' /\ DeadAreStatic'
  <2>1. ~exiting
    BY <1>2 DEF ExitsAlone
  <2> QED
    BY <1>3, <2>1 DEF ExitsAlone, DeadAreStatic
<1>14. HasCreator'
  <2> SUFFICES ASSUME NEW j \in Instance, state[j] = "creating"
               PROVE  \E u \in Thread : \E n \in DOMAIN calls'[u] :
                        calls'[u][n].inst = j /\ calls'[u][n].at = "constructing"
    BY <1>3 DEF HasCreator
  <2>1. PICK u \in Thread : \E n \in DOMAIN calls[u] :
          calls[u][n].inst = j /\ calls[u][n].at = "constructing"
    BY DEF HasCreator
  <2>2. PICK n \in DOMAIN calls[u] :
          calls[u][n].inst = j /\ calls[u][n].at = "constructing"
    BY <2>1
  <2> QED
    BY <1>2, <1>9, <2>2
<1>15. CreatorIsSeen' /\ WaitsForSome'
  <2>1. CreatorIsSeen'
    <3> SUFFICES ASSUME NEW u \in Thread, NEW n \in DOMAIN calls'[u],
                        calls'[u][n].at = "constructing"
                 PROVE  state[calls'[u][n].inst] = "creating"
      BY <1>3 DEF CreatorIsSeen
    <3> QED
      BY <1>9 DEF CreatorIsSeen
  <2>2. WaitsForSome'
    BY <1>3, <1>9 DEF WaitsForSome
  <2> QED
    BY <2>1, <2>2
<1>16. CreatedIsRegistered'
  <2> SUFFICES ASSUME NEW j \in Instance, state[j] = "created", Kind[j] # "leaky"
               PROVE  InStack(j)' \/ \E u \in Thread : Registering(u, j)'
    BY <1>3 DEF CreatedIsRegistered
  <2>1. InStack(j) \/ \E u \in Thread : Registering(u, j)
    BY DEF CreatedIsRegistered
  <2>2. CASE Registering(t, j)
    <3>1. PICK n \in DOMAIN calls[t] : calls[t][n].inst = j /\ calls[t][n].at = "registering"
      BY <2>2 DEF Registering
    <3>2. j = i
      BY <1>1, <1>11, <3>1 DEF OnlyInnermost
    <3> QED
      BY <1>8, <3>2
  <2> QED
    BY <1>8, <1>10, <2>1, <2>2
<1>17. StackIsCreated' /\ RegisteringIsCreated'
  <2>1. StackIsCreated'
    BY <1>3, <1>5, <1>8 DEF StackIsCreated
  <2>2. RegisteringIsCreated'
    BY <1>3, <1>5, <1>8, <1>10 DEF RegisteringIsCreated
  <2> QED
    BY <2>1, <2>2
<1>18. StackedOnce' /\ OneRegistering'
  <2>1. ASSUME NEW n \in DOMAIN stack', NEW m \in DOMAIN stack', stack'[n] = stack'[m]
        PROVE  n = m
    <3>1. CASE n = 1 \/ m = 1
      BY <1>5, <1>7, <2>1, <3>1 DEF InStack
    <3>2. CASE n # 1 /\ m # 1
      <4>1. n - 1 = m - 1 /\ n \in Nat /\ m \in Nat
        BY <1>7, <2>1, <3>2 DEF StackedOnce
      <4> QED
        BY <4>1
    <3> QED
      BY <3>1, <3>2
  <2>2. OneRegistering'
    BY <1>10 DEF OneRegistering
  <2> QED
    BY <2>1, <2>2 DEF StackedOnce
<1>19. GivenIsThere'
  <2> SUFFICES ASSUME NEW u \in Thread, NEW n \in DOMAIN calls'[u], NEW j \in calls'[u][n].got
               PROVE  state[j] = "created" \/ j \in dead
    BY <1>3 DEF GivenIsThere
  <2> QED
    BY <1>5, <1>9 DEF GivenIsThere
<1>20. RegistersComplete'
  <2> SUFFICES ASSUME NEW u \in Thread, NEW n \in DOMAIN calls'[u],
                      calls'[u][n].at = "registering",
                      NEW j \in Needs[calls'[u][n].inst]
               PROVE  j \in calls'[u][n].got
    BY DEF RegistersComplete
  <2> QED
    BY <1>9 DEF RegistersComplete
<1>21. GivenIsStacked'
  <2> SUFFICES ASSUME ~raced, NEW u \in Thread, NEW n \in DOMAIN calls'[u],
                      NEW j \in calls'[u][n].got
               PROVE  Kind[j] = "leaky" \/ InStack(j)'
    BY <1>3 DEF GivenIsStacked
  <2>1. CASE j \in calls[u][Outer(t, u, n)].got
    <3>1. j \in Instance /\ (Kind[j] = "leaky" \/ InStack(j))
      BY <1>9, <1>11, <2>1 DEF GivenIsStacked
    <3> QED
      BY <1>8, <3>1
  <2>2. CASE j = i
    BY <1>8, <2>2
  <2> QED
    BY <1>9, <2>1, <2>2
<1>22. StackInOrder'
  <2> SUFFICES ASSUME ~raced, NEW n \in DOMAIN stack', NEW j \in Needs[stack'[n]]
               PROVE  Kind[j] = "leaky" \/ \E m \in DOMAIN stack' : m > n /\ stack'[m] = j
    BY <1>3 DEF StackInOrder
  <2>1. CASE n = 1
    <3>1. Kind[j] = "leaky" \/ InStack(j)
      BY <1>2, <1>5, <1>7, <2>1 DEF GivenIsStacked
    <3>2. ASSUME NEW m \in DOMAIN stack, stack[m] = j
          PROVE  m + 1 \in DOMAIN stack' /\ m + 1 > n /\ stack'[m + 1] = j
      BY <1>6, <1>7, <2>1, <3>2
    <3> QED
      BY <3>1, <3>2 DEF InStack
  <2>2. CASE n # 1
    <3>1. n - 1 \in DOMAIN stack /\ stack'[n] = stack[n - 1] /\ n \in Nat
      BY <1>7, <2>2
    <3>2. Kind[j] = "leaky" \/ \E m \in DOMAIN stack : m > n - 1 /\ stack[m] = j
      BY <3>1 DEF StackInOrder
    <3>3. ASSUME NEW m \in DOMAIN stack, m > n - 1, stack[m] = j
          PROVE  m + 1 \in DOMAIN stack' /\ m + 1 > n /\ stack'[m + 1] = j
      BY <1>6, <1>7, <3>1, <3>3
    <3> QED
      BY <3>2, <3>3
  <2> QED
    BY <2>1, <2>2
<1> QED
  BY <1>10, <1>12, <1>13, <1>14, <1>15, <1>16, <1>17, <1>18, <1>19, <1>20, <1>21, <1>22

\* When no thread is in a call, nothing is said of calls.
LEMMA NoCalls ==
  ASSUME TypeOK, UNCHANGED calls, \A t \in Thread : calls[t] = <<>>
  PROVE  /\ OnlyInnermost' /\ ExitsAlone'
         /\ CreatorIsSeen' /\ OneCreator'
         /\ RegisteringIsCreated' /\ OneRegistering'
         /\ WaitsForSome' /\ GivenIsThere' /\ RegistersComplete' /\ GivenIsStacked'
         /\ \A t \in Thread, i \in Instance : ~Registering(t, i)
<1>1. \A t \in Thread : DOMAIN calls[t] = {} /\ calls'[t] = calls[t]
  BY EmptySequence
<1>2. OnlyInnermost' /\ ExitsAlone'
  BY <1>1 DEF OnlyInnermost, ExitsAlone
<1>3. CreatorIsSeen' /\ OneCreator'
  BY <1>1 DEF CreatorIsSeen, OneCreator
<1>4. \A t \in Thread, i \in Instance : ~Registering(t, i) /\ ~Registering(t, i)'
  BY <1>1 DEF Registering
<1>5. RegisteringIsCreated' /\ OneRegistering'
  BY <1>4 DEF RegisteringIsCreated, OneRegistering
<1>6. WaitsForSome' /\ GivenIsThere' /\ RegistersComplete' /\ GivenIsStacked'
  BY <1>1 DEF WaitsForSome, GivenIsThere, RegistersComplete, GivenIsStacked
<1> QED
  BY <1>2, <1>3, <1>4, <1>5, <1>6

\* The steps around the calls of destructors.
LEMMA ExitInv ==
  ASSUME TypeOK, IInv,
         \/ ProcessCallbacksNow
         \/ ExitReturns
         \/ \E i \in Instance : Resurrect(i)
  PROVE  TypeOK' /\ IInv'
<1> USE DEF IInv, Creators, Registered, Provided, InOrder
<1>1. /\ UNCHANGED <<state, stack, calls, raced>>
      /\ exiting' \in BOOLEAN /\ exits' \in 0 .. MaxExits /\ dead' \subseteq dead
      /\ \A t \in Thread : calls[t] = <<>>
  <2> USE LazyAssumption
  <2>1. CASE ProcessCallbacksNow
    BY <2>1 DEF ProcessCallbacksNow, TypeOK
  <2>2. CASE ExitReturns
    BY <2>2 DEF ExitReturns, TypeOK, ExitsAlone
  <2>3. CASE \E i \in Instance : Resurrect(i)
    BY <2>3 DEF Resurrect, TypeOK
  <2> QED
    BY <2>1, <2>2, <2>3
<1>2. TypeOK'
  BY <1>1 DEF TypeOK
<1>3. /\ OnlyInnermost' /\ ExitsAlone'
      /\ CreatorIsSeen' /\ OneCreator'
      /\ RegisteringIsCreated' /\ OneRegistering'
      /\ WaitsForSome' /\ GivenIsThere' /\ RegistersComplete' /\ GivenIsStacked'
  BY <1>1, NoCalls
<1>4. DeadAreStatic' /\ HasCreator'
  BY <1>1 DEF DeadAreStatic, HasCreator
<1>5. CreatedIsRegistered' /\ StackIsCreated' /\ StackedOnce' /\ StackInOrder'
  <2>1. CreatedIsRegistered'
    BY <1>1 DEF CreatedIsRegistered, Registering, InStack
  <2>2. StackIsCreated' /\ StackedOnce'
    BY <1>1 DEF StackIsCreated, InStack, StackedOnce
  <2>3. StackInOrder'
    BY <1>1 DEF StackInOrder
  <2> QED
    BY <2>1, <2>2, <2>3
<1> QED
  BY <1>2, <1>3, <1>4, <1>5

\* The head of the stack is nowhere else, and was registered after what it needs.
LEMMA HeadOfStack ==
  ASSUME TypeOK, IInv, OnExit
  PROVE  /\ Head(stack) \in Instance /\ Head(stack) = stack[1]
         /\ InStack(Head(stack))
         /\ \A n \in DOMAIN stack : n \in Nat /\ n >= 1 /\ stack[n] \in Instance
         /\ \A n \in DOMAIN stack : stack[n] = Head(stack) => n = 1
         /\ \A n \in DOMAIN stack :
              ~raced /\ Kind[Head(stack)] # "leaky" => Head(stack) \notin Needs[stack[n]]
         /\ \A t \in Thread : calls[t] = <<>>
<1> USE DEF IInv, Creators, Registered, Provided, InOrder
<1>1. stack # <<>> /\ stack \in Seq(Instance) /\ exiting
  BY DEF OnExit, TypeOK
<1>2. Head(stack) \in Instance /\ Head(stack) = stack[1] /\ 1 \in DOMAIN stack
  BY <1>1, PopFront
<1>3. \A n \in DOMAIN stack : n \in Nat /\ n >= 1 /\ stack[n] \in Instance
  BY <1>1, First
<1>4. \A n \in DOMAIN stack : stack[n] = Head(stack) => n = 1
  BY <1>2 DEF StackedOnce
<1>5. ASSUME NEW n \in DOMAIN stack, ~raced, Kind[Head(stack)] # "leaky",
             Head(stack) \in Needs[stack[n]]
      PROVE  FALSE
  <2>1. PICK m \in DOMAIN stack : m > n /\ stack[m] = Head(stack)
    BY <1>5 DEF StackInOrder
  <2> QED
    BY <1>3, <1>4, <2>1
<1>6. InStack(Head(stack))
  BY <1>2 DEF InStack
<1>7. \A t \in Thread : calls[t] = <<>>
  BY <1>1 DEF ExitsAlone
<1> QED
  BY <1>2, <1>3, <1>4, <1>5, <1>6, <1>7

LEMMA OnExitInv ==
  ASSUME TypeOK, IInv, OnExit
  PROVE  TypeOK' /\ IInv'
<1> USE DEF IInv, Creators, Registered, Provided, InOrder
<1>1. PICK i \in Instance : i = Head(stack)
  BY HeadOfStack
<1>2. /\ state' = [state EXCEPT ![i] = "empty"]
      /\ stack' = Tail(stack) /\ stack # <<>>
      /\ dead' = dead \union {j \in {i} : Kind[j] = "static"}
      /\ UNCHANGED <<exiting, exits, calls, raced>>
      /\ stack \in Seq(Instance)
  BY <1>1 DEF OnExit, TypeOK
<1>3. /\ i = stack[1] /\ InStack(i)
      /\ \A n \in DOMAIN stack : n \in Nat /\ n >= 1 /\ stack[n] \in Instance
      /\ \A n \in DOMAIN stack : stack[n] = i => n = 1
      /\ \A t \in Thread : calls[t] = <<>>
  BY <1>1, HeadOfStack
<1>4. ASSUME ~raced, Kind[i] # "leaky", NEW n \in DOMAIN stack
      PROVE  i \notin Needs[stack[n]]
  BY <1>1, <1>4, HeadOfStack
<1>5. /\ stack' \in Seq(Instance)
      /\ \A n \in DOMAIN stack' :
           n \in Nat /\ n >= 1 /\ n + 1 \in DOMAIN stack /\ stack'[n] = stack[n + 1]
      /\ \A n \in DOMAIN stack : n # 1 =>
           n - 1 \in DOMAIN stack' /\ stack'[n - 1] = stack[n]
  <2>1. /\ stack' \in Seq(Instance)
        /\ \A n \in Nat : n \in DOMAIN stack' <=> n > 0 /\ n + 1 \in DOMAIN stack
        /\ \A n \in DOMAIN stack' : stack'[n] = stack[n + 1]
    BY <1>2, PopFront
  <2>2. \A n \in DOMAIN stack' : n \in Nat /\ n >= 1
    BY <2>1, First
  <2>3. ASSUME NEW n \in DOMAIN stack, n # 1
        PROVE  n - 1 \in DOMAIN stack' /\ stack'[n - 1] = stack[n]
    <3>1. n - 1 \in Nat /\ n - 1 > 0 /\ (n - 1) + 1 = n
      BY <1>3, <2>3
    <3> QED
      BY <2>1, <3>1
  <2> QED
    BY <2>1, <2>2, <2>3
<1>6. /\ state'[i] = "empty"
      /\ \A j \in Instance : j # i => state'[j] = state[j]
      /\ state' \in [Instance -> {"empty", "creating", "created"}]
      /\ dead' \in SUBSET Instance
      /\ \A j \in dead' : Kind[j] = "static"
  BY <1>2 DEF TypeOK, DeadAreStatic
<1>7. TypeOK'
  BY <1>2, <1>5, <1>6 DEF TypeOK
<1>8. /\ OnlyInnermost' /\ ExitsAlone'
      /\ CreatorIsSeen' /\ OneCreator'
      /\ RegisteringIsCreated' /\ OneRegistering'
      /\ WaitsForSome' /\ GivenIsThere' /\ RegistersComplete' /\ GivenIsStacked'
      /\ \A t \in Thread, j \in Instance : ~Registering(t, j)
  BY <1>2, <1>3, NoCalls
<1>9. \A j \in Instance : InStack(j)' <=> InStack(j) /\ j # i
  <2>1. ASSUME NEW j \in Instance, InStack(j)' PROVE InStack(j) /\ j # i
    <3>1. PICK n \in DOMAIN stack' : stack'[n] = j
      BY <2>1 DEF InStack
    <3>2. n \in Nat /\ n >= 1 /\ n + 1 \in DOMAIN stack /\ stack[n + 1] = j
      BY <1>5, <3>1
    <3>3. n + 1 # 1
      BY <3>2
    <3> QED
      BY <1>3, <3>2, <3>3 DEF InStack
  <2>2. ASSUME NEW j \in Instance, InStack(j), j # i PROVE InStack(j)'
    BY <1>3, <1>5, <2>2 DEF InStack
  <2> QED
    BY <2>1, <2>2
<1>10. DeadAreStatic'
  BY <1>6 DEF DeadAreStatic
<1>11. HasCreator'
  <2> SUFFICES ASSUME NEW j \in Instance, state'[j] = "creating" PROVE FALSE
    BY DEF HasCreator
  <2>1. state[j] = "creating"
    BY <1>6
  <2>2. PICK t \in Thread : \E n \in DOMAIN calls[t] : calls[t][n].inst = j
    BY <2>1 DEF HasCreator
  <2> QED
    BY <1>3, <2>2, EmptySequence
<1>12. CreatedIsRegistered'
  BY <1>6, <1>8, <1>9 DEF CreatedIsRegistered
<1>13. StackIsCreated'
  BY <1>6, <1>9 DEF StackIsCreated
<1>14. StackedOnce'
  <2> SUFFICES ASSUME NEW n \in DOMAIN stack', NEW m \in DOMAIN stack', stack'[n] = stack'[m]
               PROVE  n = m
    BY DEF StackedOnce
  <2>1. n + 1 = m + 1 /\ n \in Nat /\ m \in Nat
    BY <1>5 DEF StackedOnce
  <2> QED
    BY <2>1
<1>15. StackInOrder'
  <2> SUFFICES ASSUME ~raced, NEW n \in DOMAIN stack', NEW j \in Needs[stack'[n]],
                      Kind[j] # "leaky"
               PROVE  \E m \in DOMAIN stack' : m > n /\ stack'[m] = j
    BY <1>2 DEF StackInOrder
  <2>1. n \in Nat /\ n + 1 \in DOMAIN stack /\ stack'[n] = stack[n + 1]
    BY <1>5
  <2>2. PICK m \in DOMAIN stack : m > n + 1 /\ stack[m] = j
    BY <2>1 DEF StackInOrder
  <2>3. m - 1 > n /\ m # 1
    BY <1>3, <2>1, <2>2
  <2> QED
    BY <1>5, <2>2, <2>3
<1> QED
  BY <1>7, <1>8, <1>10, <1>11, <1>12, <1>13, <1>14, <1>15

LEMMA NextInv ==
  ASSUME TypeOK, IInv, [Next]_vars
  PROVE  TypeOK' /\ IInv'
<1>1. ASSUME NEW t \in Thread, NEW i \in Instance, NeedsInstance(t, i)
      PROVE  TypeOK' /\ IInv'
  BY <1>1, NeedsInstanceInv
<1>2. ASSUME NEW t \in Thread, NEW i \in Instance, GetCreated(t, i)
      PROVE  TypeOK' /\ IInv'
  BY <1>2, GetCreatedInv
<1>3. ASSUME NEW t \in Thread, Spun(t)
      PROVE  TypeOK' /\ IInv'
  BY <1>3, SpunInv
<1>4. ASSUME NEW t \in Thread, Publish(t)
      PROVE  TypeOK' /\ IInv'
  BY <1>4, PublishInv, PublishReturnInv
<1>5. ASSUME NEW t \in Thread, RegisterCallback(t)
      PROVE  TypeOK' /\ IInv'
  BY <1>5, RegisterCallbackInv
<1>6. CASE OnExit
  BY <1>6, OnExitInv
<1>7. CASE ProcessCallbacksNow \/ ExitReturns \/ \E i \in Instance : Resurrect(i)
  BY <1>7, ExitInv
<1>8. CASE UNCHANGED vars
  <2>1. TypeOK'
    BY <1>8 DEF vars, TypeOK
  <2> QED
    BY <1>8, <2>1
       DEF vars, IInv, Creators, Registered, Provided, InOrder,
           OnlyInnermost, ExitsAlone, DeadAreStatic,
           HasCreator, CreatorIsSeen, OneCreator,
           CreatedIsRegistered, StackIsCreated, RegisteringIsCreated, StackedOnce,
           OneRegistering, Registering, InStack,
           WaitsForSome, GivenIsThere, RegistersComplete, GivenIsStacked, StackInOrder
<1> QED
  BY <1>1, <1>2, <1>3, <1>4, <1>5, <1>6, <1>7, <1>8 DEF Next, Step

LEMMA Inductive == Spec => [](TypeOK /\ IInv)
<1>1. Init => TypeOK /\ IInv
  BY InitInv
<1>2. TypeOK /\ IInv /\ [Next]_vars => (TypeOK /\ IInv)'
  BY NextInv
<1> QED
  BY <1>1, <1>2, PTL DEF Spec

-----------------------------------------------------------------------------
(* The properties *)

\* Every variable of the instances, their manager and the calls keeps its type,
\* for any number of threads and globals.
THEOREM TypeCorrect == Spec => []TypeOK
<1>1. TypeOK /\ IInv => TypeOK
  OBVIOUS
<1> QED
  BY <1>1, Inductive, PTL

\* The sets of places that EachDestroyedOnce speaks of.
LEMMA Places ==
  ASSUME TypeOK, NEW i \in Instance
  PROVE  /\ \A where : \A c : c \in CallsAt(i, where) <=>
              \E t \in Thread : \E n \in DOMAIN calls[t] :
                c = <<t, n>> /\ calls[t][n].inst = i /\ calls[t][n].at = where
         /\ \A r : r \in Registrations(i) <=>
              \/ \E n \in DOMAIN stack : stack[n] = i /\ r = <<"stack", n>>
              \/ \E c \in CallsAt(i, "registering") : r = <<"call", c>>
  BY DEF CallsAt, Registrations

\* Of all threads that ask first, one creates an instance, and whatever exists
\* is on its way to exactly one call of its destructor: ThreadSafe creation by
\* compare and swap, and AtExitManager's stack.
THEOREM CreatedAndDestroyedOnce == Spec => []EachDestroyedOnce
<1>1. ASSUME TypeOK, IInv PROVE EachDestroyedOnce
  <2> USE <1>1 DEF IInv, Creators, Registered
  <2> SUFFICES ASSUME NEW i \in Instance
               PROVE  /\ state[i] = "creating" <=> CallsAt(i, "constructing") # {}
                      /\ state[i] = "created" /\ Kind[i] # "leaky" <=> Registrations(i) # {}
                      /\ AtMostOne(CallsAt(i, "constructing"))
                      /\ AtMostOne(Registrations(i))
    BY DEF EachDestroyedOnce
  <2>1. /\ \A where : \A c : c \in CallsAt(i, where) <=>
              \E t \in Thread : \E n \in DOMAIN calls[t] :
                c = <<t, n>> /\ calls[t][n].inst = i /\ calls[t][n].at = where
        /\ \A r : r \in Registrations(i) <=>
              \/ \E n \in DOMAIN stack : stack[n] = i /\ r = <<"stack", n>>
              \/ \E c \in CallsAt(i, "registering") : r = <<"call", c>>
    BY Places
  <2>2. ASSUME NEW where
        PROVE  CallsAt(i, where) # {} <=>
                 \E t \in Thread : \E n \in DOMAIN calls[t] :
                   calls[t][n].inst = i /\ calls[t][n].at = where
    BY <2>1, Zenon
  <2>3. state[i] = "creating" <=> CallsAt(i, "constructing") # {}
    BY <2>2 DEF HasCreator, CreatorIsSeen
  <2>4. AtMostOne(CallsAt(i, "constructing"))
    BY Places DEF OneCreator, AtMostOne
  <2>5. CallsAt(i, "registering") # {} <=> \E t \in Thread : Registering(t, i)
    BY <2>2 DEF Registering
  <2>6. Registrations(i) # {} <=> InStack(i) \/ \E t \in Thread : Registering(t, i)
    BY <2>1, <2>5, Zenon DEF InStack
  <2>7. state[i] = "created" /\ Kind[i] # "leaky" <=> Registrations(i) # {}
    BY <2>6 DEF CreatedIsRegistered, StackIsCreated, RegisteringIsCreated
  <2>8. ASSUME NEW c \in CallsAt(i, "registering"), NEW d \in CallsAt(i, "registering")
        PROVE  c = d
    <3>1. PICK t \in Thread : \E n \in DOMAIN calls[t] :
            c = <<t, n>> /\ calls[t][n].inst = i /\ calls[t][n].at = "registering"
      BY Places
    <3>2. PICK u \in Thread : \E n \in DOMAIN calls[u] :
            d = <<u, n>> /\ calls[u][n].inst = i /\ calls[u][n].at = "registering"
      BY Places
    <3>3. t = u
      BY <3>1, <3>2 DEF OneRegistering, Registering
    <3>4. \A n \in DOMAIN calls[t] : calls[t][n].at = "registering" => n = 1
      BY First DEF OnlyInnermost, TypeOK
    <3> QED
      BY <3>1, <3>2, <3>3, <3>4
  <2>9. AtMostOne(Registrations(i))
    <3>1. ASSUME InStack(i) PROVE CallsAt(i, "registering") = {}
      BY <2>5, <3>1 DEF RegisteringIsCreated
    <3>2. \A n, m \in DOMAIN stack : stack[n] = i /\ stack[m] = i => n = m
      BY DEF StackedOnce
    <3> QED
      BY <2>8, <3>1, <3>2, Places DEF AtMostOne, InStack
  <2> QED
    BY <2>3, <2>4, <2>7, <2>9
<1> QED
  BY <1>1, Inductive, PTL

\* What Pointer() or get() gave to a constructor is there until it returns, or
\* is a static one that will not be created again.
THEOREM ConstructorsKeepTheirs == Spec => []GivenIsThere
<1>1. TypeOK /\ IInv => GivenIsThere
  BY DEF IInv, Provided
<1> QED
  BY <1>1, Inductive, PTL

\* ProcessCallbacksNow destroys an instance after everything whose constructor
\* used it, unless a constructor was given an instance between its publication
\* and its registration, or none.
THEOREM DestroyedInOrder == Spec => DependentsFirst
<1>1. ASSUME TypeOK, IInv, OnExit, ~raced,
             NEW i \in Instance, Head(stack) \in Needs[i], Kind[i] # "leaky"
      PROVE  state[i] # "created"
  <2>1. Kind[Head(stack)] # "leaky"
    BY <1>1, HeadOfStack DEF IInv, Registered, StackIsCreated
  <2>2. ~InStack(i)
    BY <1>1, <2>1, HeadOfStack DEF InStack
  <2>3. \A t \in Thread : ~Registering(t, i)
    BY <1>1, HeadOfStack, EmptySequence DEF Registering
  <2> QED
    BY <1>1, <2>2, <2>3 DEF IInv, Registered, CreatedIsRegistered
<1>2. TypeOK /\ IInv /\ [Next]_vars =>
        [OnExit => raced \/ \A i \in Instance :
           Head(stack) \in Needs[i] /\ Kind[i] # "leaky" => state[i] # "created"]_vars
  BY <1>1
<1> QED
  BY <1>2, Inductive, PTL DEF Spec, DependentsFirst

-----------------------------------------------------------------------------
(* Somebody can always go on *)

\* A constructor asks for what it needs,
AskedIsNeeded ==
  \A t \in Thread : \A n, m \in DOMAIN calls[t] :
    m = n + 1 => calls[t][n].inst \in Needs[calls[t][m].inst]

\* and is given nothing else.
GivenIsNeeded ==
  \A t \in Thread : \A n \in DOMAIN calls[t] :
    calls[t][n].got \subseteq Needs[calls[t][n].inst]

\* The guards of what Step(t) may do.
CanStep(t) ==
  \/ At(t, "registering")
  \/ At(t, "spinning") /\ WaitIsOver(Head(calls[t]).inst)
  \/ /\ At(t, "constructing")
     /\ \/ Head(calls[t]).inst \in dead
        \/ Head(calls[t]).got = Needs[Head(calls[t]).inst]
        \/ \E i \in Instance : Wants(t, i)

\* No constructors need each other: whatever instances are considered, one of
\* them needs none of them.
NoCircle == \A S \in SUBSET Instance : S # {} => \E i \in S : Needs[i] \cap S = {}

\* With what is in S comes what it needs.
Closed(S) == \A i \in S : Needs[i] \subseteq S

InCallFor(t, S) == calls[t] # <<>> /\ Head(calls[t]).inst \in S

\* Whoever is in a call for one of the instances of S, somebody who is in a call
\* for one of them can go on.
SomebodyCanStep(S) ==
  (\E t \in Thread : InCallFor(t, S)) => \E t \in Thread : InCallFor(t, S) /\ CanStep(t)

LEMMA ReturnKeepsNeeds ==
  ASSUME TypeOK, AskedIsNeeded, GivenIsNeeded,
         NEW t \in Thread, calls[t] # <<>>, Return(t)
  PROVE  AskedIsNeeded' /\ GivenIsNeeded'
<1>1. /\ \A u \in Thread : \A n \in DOMAIN calls'[u] :
           /\ Outer(t, u, n) \in DOMAIN calls[u]
           /\ calls'[u][n].inst = calls[u][Outer(t, u, n)].inst
           /\ \A j : j \in calls'[u][n].got
                <=> \/ j \in calls[u][Outer(t, u, n)].got
                    \/ u = t /\ n = 1 /\ j = calls[t][1].inst
      /\ calls' \in [Thread -> Seq(Call)]
  BY ReturnMoves
<1>2. 1 \in DOMAIN calls[t]
  BY First DEF TypeOK
<1>3. ASSUME NEW u \in Thread, NEW n \in DOMAIN calls'[u], NEW m \in DOMAIN calls'[u],
             m = n + 1
      PROVE  calls'[u][n].inst \in Needs[calls'[u][m].inst]
  <2>1. n \in Nat
    BY <1>1, First
  <2>2. Outer(t, u, m) = Outer(t, u, n) + 1
    BY <1>3, <2>1 DEF Outer
  <2> QED
    BY <1>1, <2>2 DEF AskedIsNeeded
<1>4. ASSUME NEW u \in Thread, NEW n \in DOMAIN calls'[u], NEW j \in calls'[u][n].got
      PROVE  j \in Needs[calls'[u][n].inst]
  <2>1. CASE j \in calls[u][Outer(t, u, n)].got
    BY <1>1, <2>1 DEF GivenIsNeeded
  <2>2. CASE u = t /\ n = 1 /\ j = calls[t][1].inst
    <3>1. Outer(t, u, n) = 1 + 1
      BY <2>2 DEF Outer
    <3>2. /\ Outer(t, u, n) \in DOMAIN calls[t]
          /\ calls'[u][n].inst = calls[t][Outer(t, u, n)].inst
      BY <1>1, <2>2
    <3>3. calls[t][1].inst \in Needs[calls[t][Outer(t, u, n)].inst]
      BY <1>2, <3>1, <3>2 DEF AskedIsNeeded
    <3> QED
      BY <2>2, <3>2, <3>3
  <2> QED
    BY <1>1, <2>1, <2>2
<1> QED
  BY <1>3, <1>4 DEF AskedIsNeeded, GivenIsNeeded

LEMMA GiveKeepsNeeds ==
  ASSUME TypeOK, AskedIsNeeded, GivenIsNeeded,
         NEW t \in Thread, NEW i \in Instance, GetCreated(t, i)
  PROVE  AskedIsNeeded' /\ GivenIsNeeded'
<1>1. /\ \A u \in Thread : DOMAIN calls'[u] = DOMAIN calls[u]
      /\ \A u \in Thread : \A n \in DOMAIN calls[u] :
           /\ calls'[u][n].inst = calls[u][n].inst
           /\ \A j : j \in calls'[u][n].got
                <=> j \in calls[u][n].got \/ (u = t /\ n = 1 /\ j = i)
  BY GiveMoves
<1>2. calls[t] # <<>> /\ i \in Needs[Head(calls[t]).inst] /\ Head(calls[t]) = calls[t][1]
  BY PopFront DEF GetCreated, Wants, TypeOK
<1> QED
  BY <1>1, <1>2 DEF AskedIsNeeded, GivenIsNeeded

LEMMA EnterKeepsNeeds ==
  ASSUME TypeOK, AskedIsNeeded, GivenIsNeeded,
         NEW t \in Thread, NEW i \in Instance, NeedsInstance(t, i)
  PROVE  AskedIsNeeded' /\ GivenIsNeeded'
<1>1. /\ calls' \in [Thread -> Seq(Call)]
      /\ calls'[t][1].inst = i /\ calls'[t][1].got = {}
      /\ \A u \in Thread : \A n \in DOMAIN calls'[u] :
           u # t \/ n # 1 =>
             /\ Inner(t, u, n) \in DOMAIN calls[u]
             /\ calls'[u][n] = calls[u][Inner(t, u, n)]
  BY EnterMoves
<1>2. calls[t] # <<>> => i \in Needs[calls[t][1].inst]
  BY PopFront DEF NeedsInstance, Wants, TypeOK
<1>3. \A u \in Thread : \A n \in DOMAIN calls'[u] : n \in Nat /\ n >= 1
  BY <1>1, First
<1>4. ASSUME NEW u \in Thread, NEW n \in DOMAIN calls'[u], NEW m \in DOMAIN calls'[u],
             m = n + 1
      PROVE  calls'[u][n].inst \in Needs[calls'[u][m].inst]
  <2>1. n \in Nat /\ n >= 1 /\ m # 1
    BY <1>3, <1>4
  <2>2. Inner(t, u, m) \in DOMAIN calls[u] /\ calls'[u][m] = calls[u][Inner(t, u, m)]
    BY <1>1, <2>1
  <2>3. CASE u = t /\ n = 1
    <3>1. Inner(t, u, m) = 1
      BY <1>4, <2>3 DEF Inner
    <3>2. calls[t] # <<>>
      BY <2>2, <2>3, <3>1, First DEF TypeOK
    <3> QED
      BY <1>1, <1>2, <2>2, <2>3, <3>1, <3>2
  <2>4. CASE u # t \/ n # 1
    <3>1. Inner(t, u, n) \in DOMAIN calls[u] /\ calls'[u][n] = calls[u][Inner(t, u, n)]
      BY <1>1, <2>4
    <3>2. Inner(t, u, m) = Inner(t, u, n) + 1
      BY <1>4, <2>1 DEF Inner
    <3> QED
      BY <2>2, <3>1, <3>2 DEF AskedIsNeeded
  <2> QED
    BY <2>3, <2>4
<1>5. ASSUME NEW u \in Thread, NEW n \in DOMAIN calls'[u]
      PROVE  calls'[u][n].got \subseteq Needs[calls'[u][n].inst]
  BY <1>1 DEF GivenIsNeeded
<1> QED
  BY <1>4, <1>5 DEF AskedIsNeeded, GivenIsNeeded

LEMMA PublishKeepsNeeds ==
  ASSUME TypeOK, AskedIsNeeded, GivenIsNeeded, NEW t \in Thread, Publish(t)
  PROVE  AskedIsNeeded' /\ GivenIsNeeded'
<1>1. calls[t] # <<>>
  BY DEF Publish, At
<1>2. CASE Head(calls[t]).inst \in dead \/ Kind[Head(calls[t]).inst] = "leaky"
  <2>1. Return(t)
    BY <1>2 DEF Publish
  <2> QED
    BY <1>1, <2>1, ReturnKeepsNeeds
<1>3. CASE ~(Head(calls[t]).inst \in dead \/ Kind[Head(calls[t]).inst] = "leaky")
  <2>1. /\ \A u \in Thread : DOMAIN calls'[u] = DOMAIN calls[u]
        /\ \A u \in Thread : \A n \in DOMAIN calls[u] :
             /\ calls'[u][n].inst = calls[u][n].inst
             /\ calls'[u][n].got = calls[u][n].got
    BY <1>1, <1>3, PublishMoves
  <2> QED
    BY <2>1 DEF AskedIsNeeded, GivenIsNeeded
<1> QED
  BY <1>2, <1>3

LEMMA NeedsKept ==
  ASSUME TypeOK, AskedIsNeeded, GivenIsNeeded, [Next]_vars
  PROVE  AskedIsNeeded' /\ GivenIsNeeded'
<1>1. ASSUME NEW t \in Thread, NEW i \in Instance, NeedsInstance(t, i)
      PROVE  AskedIsNeeded' /\ GivenIsNeeded'
  BY <1>1, EnterKeepsNeeds
<1>2. ASSUME NEW t \in Thread, NEW i \in Instance, GetCreated(t, i)
      PROVE  AskedIsNeeded' /\ GivenIsNeeded'
  BY <1>2, GiveKeepsNeeds
<1>3. ASSUME NEW t \in Thread, Spun(t) \/ RegisterCallback(t)
      PROVE  AskedIsNeeded' /\ GivenIsNeeded'
  <2>1. calls[t] # <<>> /\ Return(t)
    BY <1>3 DEF Spun, RegisterCallback, At
  <2> QED
    BY <2>1, ReturnKeepsNeeds
<1>4. ASSUME NEW t \in Thread, Publish(t)
      PROVE  AskedIsNeeded' /\ GivenIsNeeded'
  BY <1>4, PublishKeepsNeeds
<1>5. ASSUME calls' = calls
      PROVE  AskedIsNeeded' /\ GivenIsNeeded'
  BY <1>5 DEF AskedIsNeeded, GivenIsNeeded
<1>6. CASE \/ ProcessCallbacksNow \/ OnExit \/ ExitReturns
           \/ \E i \in Instance : Resurrect(i)
  BY <1>5, <1>6 DEF ProcessCallbacksNow, OnExit, ExitReturns, Resurrect
<1>7. CASE UNCHANGED vars
  BY <1>5, <1>7 DEF vars
<1> QED
  BY <1>1, <1>2, <1>3, <1>4, <1>6, <1>7 DEF Next, Step

\* Who is creating an instance, and is in no call further in, can go on.
LEMMA CreatorCanStep ==
  ASSUME TypeOK, IInv, GivenIsNeeded,
         NEW t \in Thread, calls[t] # <<>>, Head(calls[t]).at = "constructing"
  PROVE  CanStep(t)
<1>1. /\ At(t, "constructing") /\ Head(calls[t]) = calls[t][1] /\ 1 \in DOMAIN calls[t]
      /\ Head(calls[t]) \in Call
  BY PopFront DEF At, TypeOK
<1>2. ~exiting
  BY DEF IInv, ExitsAlone
<1>3. Head(calls[t]).got \subseteq Needs[Head(calls[t]).inst]
  BY <1>1 DEF GivenIsNeeded
<1>4. Needs[Head(calls[t]).inst] \subseteq Instance
  BY <1>1, LazyAssumption, Fields
<1>5. CASE Head(calls[t]).inst \in dead \/ Head(calls[t]).got = Needs[Head(calls[t]).inst]
  BY <1>1, <1>5 DEF CanStep
<1>6. CASE ~(Head(calls[t]).inst \in dead \/ Head(calls[t]).got = Needs[Head(calls[t]).inst])
  <2>1. PICK i \in Instance : i \in Needs[Head(calls[t]).inst] \ Head(calls[t]).got
    BY <1>3, <1>4, <1>6
  <2>2. Wants(t, i)
    BY <1>1, <1>2, <1>6, <2>1 DEF Wants
  <2> QED
    BY <1>1, <2>2 DEF CanStep
<1> QED
  BY <1>5, <1>6

\* Of the instances of S that somebody is in a call for, one needs none of the
\* others: who is in a call for it is not in a call for anything further in, so
\* the thread that creates it can go on, or nobody waits for it any longer.
LEMMA NobodyWaitsInACircle ==
  ASSUME TypeOK, IInv, AskedIsNeeded, GivenIsNeeded, NoCircle,
         NEW S \in SUBSET Instance, Closed(S)
  PROVE  SomebodyCanStep(S)
<1> SUFFICES ASSUME NEW t \in Thread, InCallFor(t, S)
             PROVE  \E u \in Thread : InCallFor(u, S) /\ CanStep(u)
  BY DEF SomebodyCanStep
<1> DEFINE asked == {i \in S : \E u \in Thread : \E n \in DOMAIN calls[u] :
                                 calls[u][n].inst = i}
<1>1. /\ calls[t] # <<>> /\ Head(calls[t]) = calls[t][1] /\ 1 \in DOMAIN calls[t]
      /\ Head(calls[t]).inst \in S
  BY PopFront DEF InCallFor, TypeOK
<1>2. asked \in SUBSET Instance /\ asked # {}
  BY <1>1
<1>3. PICK i \in asked : Needs[i] \cap asked = {}
  BY <1>2 DEF NoCircle
<1>4. i \in S /\ i \in Instance /\ Needs[i] \subseteq S
  BY <1>3 DEF Closed
<1>5. ASSUME NEW u \in Thread, NEW n \in DOMAIN calls[u], calls[u][n].inst = i
      PROVE  /\ n = 1 /\ calls[u] # <<>> /\ Head(calls[u]) = calls[u][n]
             /\ InCallFor(u, S)
  <2>1. calls[u] \in Seq(Call)
    BY DEF TypeOK
  <2>2. calls[u] # <<>> /\ n \in 1 .. Len(calls[u]) /\ Len(calls[u]) \in Nat
    BY <2>1, LenProperties, EmptySequence
  <2>3. DOMAIN calls[u] = 1 .. Len(calls[u])
    BY <2>1, LenProperties
  <2>4. n = 1
    <3> SUFFICES ASSUME n # 1 PROVE FALSE
      OBVIOUS
    <3>1. n - 1 \in DOMAIN calls[u] /\ n = (n - 1) + 1
      BY <2>2, <2>3
    <3>2. calls[u][n - 1].inst \in Needs[i]
      BY <1>5, <3>1 DEF AskedIsNeeded
    <3> QED
      BY <1>3, <1>4, <3>1, <3>2
  <2>5. Head(calls[u]) = calls[u][1]
    BY <2>1, <2>2, PopFront
  <2> QED
    BY <1>4, <1>5, <2>2, <2>4, <2>5 DEF InCallFor
<1>6. PICK u \in Thread : \E n \in DOMAIN calls[u] : calls[u][n].inst = i
  BY <1>3
<1>7. /\ calls[u] # <<>> /\ 1 \in DOMAIN calls[u] /\ Head(calls[u]) = calls[u][1]
      /\ calls[u][1].inst = i /\ InCallFor(u, S)
  BY <1>5, <1>6
<1>8. calls[u][1].at \in {"spinning", "constructing", "registering"}
  BY <1>7, First, Fields DEF TypeOK
<1>9. CASE calls[u][1].at = "registering"
  BY <1>7, <1>9 DEF CanStep, At
<1>10. CASE calls[u][1].at = "constructing"
  BY <1>7, <1>10, CreatorCanStep
<1>11. CASE calls[u][1].at = "spinning" /\ WaitIsOver(i)
  BY <1>7, <1>11 DEF CanStep, At
<1>12. CASE calls[u][1].at = "spinning" /\ ~WaitIsOver(i)
  <2>1. state[i] # "empty" \/ i \in dead
    BY <1>7, <1>12 DEF IInv, Provided, WaitsForSome
  <2>2. Kind[i] \in {"lazy", "leaky"} => i \notin dead
    BY DEF IInv, DeadAreStatic
  <2>3. state[i] = "creating"
    BY <1>4, <1>12, <2>1, <2>2 DEF WaitIsOver, TypeOK
  <2>4. PICK v \in Thread : \E n \in DOMAIN calls[v] :
               calls[v][n].inst = i /\ calls[v][n].at = "constructing"
    BY <1>4, <2>3 DEF IInv, Creators, HasCreator
  <2>5. calls[v] # <<>> /\ Head(calls[v]).at = "constructing" /\ InCallFor(v, S)
    BY <1>5, <2>4
  <2> QED
    BY <2>5, CreatorCanStep
<1> QED
  BY <1>8, <1>9, <1>10, <1>11, <1>12

\* Waiting for a global never ends in a deadlock, unless constructors need each
\* other in a circle: whichever thread is in a call of Pointer() or get(), a
\* thread that is in a call for the same instance, or for one that it needs,
\* directly or not, can go on (S is the instance and what it needs).
THEOREM NoWaitInACircle ==
  ASSUME NoCircle, NEW S \in SUBSET Instance, Closed(S)
  PROVE  Spec => []SomebodyCanStep(S)
<1>1. Init => AskedIsNeeded /\ GivenIsNeeded
  BY EmptySequence DEF Init, AskedIsNeeded, GivenIsNeeded
<1>2. /\ TypeOK /\ IInv /\ AskedIsNeeded /\ GivenIsNeeded
      /\ [Next]_vars
      => AskedIsNeeded' /\ GivenIsNeeded'
  BY NeedsKept
<1>3. TypeOK /\ IInv /\ AskedIsNeeded /\ GivenIsNeeded => SomebodyCanStep(S)
  BY NobodyWaitsInACircle
<1> QED
  BY <1>1, <1>2, <1>3, Inductive, PTL DEF Spec

-----------------------------------------------------------------------------
(* The table of PathService is one of these globals; a table of its own *)

CONSTANT Directory

VARIABLES cache, overrides, prepended, gets, overtaken

Paths == INSTANCE PathService WITH
           registered <- prepended, calls <- gets, raced <- overtaken

\* The recursion of Computed, unrolled: there are three keys to go through.
ComputedFile ==
  IF overrides["FILE_EXE"] # Paths!NoPath THEN overrides["FILE_EXE"]
  ELSE [of |-> "system", up |-> 0]
ComputedDir ==
  IF overrides["DIR_EXE"] # Paths!NoPath THEN overrides["DIR_EXE"]
  ELSE Paths!DirName(ComputedFile, 1)
ComputedRoot ==
  IF overrides["DIR_SOURCE_ROOT"] # Paths!NoPath THEN overrides["DIR_SOURCE_ROOT"]
  ELSE Paths!DirName(ComputedDir, 2)
ComputedUser ==
  IF overrides["USER_KEY"] # Paths!NoPath THEN overrides["USER_KEY"]
  ELSE [of |-> "system", up |-> 0]

Answer(k) ==
  IF k = "FILE_EXE" THEN ComputedFile
  ELSE IF k = "DIR_EXE" THEN ComputedDir
  ELSE IF k = "DIR_SOURCE_ROOT" THEN ComputedRoot
  ELSE ComputedUser

LEMMA NeedsAre ==
  /\ DOMAIN Paths!Needs = {"DIR_EXE", "DIR_SOURCE_ROOT"}
  /\ Paths!Needs["DIR_EXE"] = "FILE_EXE" /\ Paths!Needs["DIR_SOURCE_ROOT"] = "DIR_EXE"
  /\ Paths!Levels["DIR_EXE"] = 1 /\ Paths!Levels["DIR_SOURCE_ROOT"] = 2
BY DEF Paths!Needs, Paths!Levels

LEMMA ComputedIs == \A k \in Paths!Key : Paths!Computed[k] = Answer(k)
<1> DEFINE Unfold(f) == [k \in Paths!Key |->
             IF overrides[k] # Paths!NoPath THEN overrides[k]
             ELSE IF k \in DOMAIN Paths!Needs
                  THEN Paths!DirName(f[Paths!Needs[k]], Paths!Levels[k])
             ELSE [of |-> "system", up |-> 0]]
           unrolled == [k \in Paths!Key |-> Answer(k)]
<1>1. unrolled = Unfold(unrolled)
  BY NeedsAre DEF Paths!Key, Answer, ComputedFile, ComputedDir, ComputedRoot, ComputedUser
<1>2. Paths!Computed = CHOOSE f : f = Unfold(f)
  BY DEF Paths!Computed
<1> HIDE DEF Unfold, unrolled
<1>3. Paths!Computed = Unfold(Paths!Computed)
  BY <1>1, <1>2
<1>4. \A k \in Paths!Key : Paths!Computed[k] =
             IF overrides[k] # Paths!NoPath THEN overrides[k]
             ELSE IF k \in DOMAIN Paths!Needs
                  THEN Paths!DirName(Paths!Computed[Paths!Needs[k]], Paths!Levels[k])
             ELSE [of |-> "system", up |-> 0]
  BY <1>3 DEF Unfold
<1>5. Paths!Computed["FILE_EXE"] = ComputedFile /\ Paths!Computed["USER_KEY"] = ComputedUser
  BY <1>4, NeedsAre DEF Paths!Key, ComputedFile, ComputedUser
<1>6. Paths!Computed["DIR_EXE"] = ComputedDir
  BY <1>4, <1>5, NeedsAre DEF Paths!Key, ComputedDir
<1>7. Paths!Computed["DIR_SOURCE_ROOT"] = ComputedRoot
  BY <1>4, <1>6, NeedsAre DEF Paths!Key, ComputedRoot
<1> QED BY <1>5, <1>6, <1>7 DEF Answer, Paths!Key

\* How many levels above what it was computed from a path of each key may be.
Height == [FILE_EXE |-> 0, DIR_EXE |-> 1, DIR_SOURCE_ROOT |-> 3, USER_KEY |-> 0]

\* A path that is stored or handed on is one its key can have,
Fits(path, k) == path \in Paths!Path /\ path.up <= Height[k]

\* and, unless an override came too late, the one Get has to answer.
Holds(path, k) == Fits(path, k) /\ (overtaken \/ path = Answer(k))

\* A call that has looked for an override found none, and there is none since.
SoundCall(c) ==
  /\ c \in Paths!Call
  /\ c.pc = "add" => Holds(c.path, c.key)
  /\ c.pc \in {"provider", "add"} => overtaken \/ overrides[c.key] = Paths!NoPath

\* A provider called Get for the key its own starts from.
Calls(outer, inner) ==
  /\ outer.pc = "provider"
  /\ outer.key \in DOMAIN Paths!Needs
  /\ inner.key = Paths!Needs[outer.key]

SoundStack(q) ==
  /\ q \in Seq(Paths!Call)
  /\ \A n \in DOMAIN q : SoundCall(q[n])
  /\ \A n \in DOMAIN q : n > 1 => Calls(q[n], q[n - 1])

SoundCache ==
  \A k \in Paths!Key : cache[k] # Paths!NoPath => Holds(cache[k], k)

SoundOverrides ==
  \A k \in Paths!Key : overrides[k] # Paths!NoPath =>
    overrides[k] \in Paths!Path /\ overrides[k].up = 0

PathInv ==
  /\ cache \in [Paths!Key -> Paths!Path \union {Paths!NoPath}]
  /\ overrides \in [Paths!Key -> Paths!Path \union {Paths!NoPath}]
  /\ prepended \in BOOLEAN /\ overtaken \in BOOLEAN
  /\ SoundCache
  /\ SoundOverrides
  /\ gets \in [Thread -> Seq(Paths!Call)]
  /\ \A th \in Thread : SoundStack(gets[th])

-----------------------------------------------------------------------------
(* Calls that enter and return *)

LEMMA StackPopped ==
  ASSUME NEW q, SoundStack(q), q # <<>>
  PROVE  /\ SoundStack(Tail(q)) /\ SoundCall(Head(q)) /\ Head(q) \in Paths!Call
         /\ Tail(q) # <<>> => Calls(Head(Tail(q)), Head(q))
<1>1. q \in Seq(Paths!Call)
  BY DEF SoundStack
<1>2. /\ Tail(q) \in Seq(Paths!Call) /\ Head(q) \in Paths!Call
      /\ Head(q) = q[1] /\ 1 \in DOMAIN q
      /\ \A i \in Nat : i \in DOMAIN Tail(q) <=> i > 0 /\ i + 1 \in DOMAIN q
      /\ \A i \in DOMAIN Tail(q) : Tail(q)[i] = q[i + 1]
  BY <1>1, PopFront
<1>3. \A n \in DOMAIN Tail(q) : n \in Nat /\ n >= 1
  BY <1>2, First
<1>4. \A n \in DOMAIN Tail(q) : n > 1 => n - 1 \in DOMAIN Tail(q)
  <2>1. DOMAIN Tail(q) = 1..Len(Tail(q)) /\ Len(Tail(q)) \in Nat
    BY <1>2, LenProperties
  <2> QED BY <2>1
<1>5. \A n \in DOMAIN Tail(q) : SoundCall(Tail(q)[n])
  BY <1>2, <1>3 DEF SoundStack
<1>6. ASSUME NEW n \in DOMAIN Tail(q), n > 1 PROVE Calls(Tail(q)[n], Tail(q)[n - 1])
  <2>1. /\ n + 1 \in DOMAIN q /\ n + 1 > 1 /\ (n + 1) - 1 = n
        /\ Tail(q)[n] = q[n + 1] /\ Tail(q)[n - 1] = q[(n - 1) + 1] /\ (n - 1) + 1 = n
    BY <1>2, <1>3, <1>4, <1>6
  <2>2. Calls(q[n + 1], q[(n + 1) - 1])
    BY <2>1 DEF SoundStack
  <2> QED BY <2>1, <2>2
<1>7. SoundStack(Tail(q))
  BY <1>2, <1>5, <1>6 DEF SoundStack
<1>8. SoundCall(Head(q))
  BY <1>2 DEF SoundStack
<1>9. ASSUME Tail(q) # <<>> PROVE Calls(Head(Tail(q)), Head(q))
  <2>1. 1 \in DOMAIN Tail(q) /\ Head(Tail(q)) = Tail(q)[1]
    BY <1>2, <1>9, PopFront
  <2>2. 2 \in DOMAIN q /\ Tail(q)[1] = q[2]
    BY <1>2, <2>1
  <2>3. \A n \in DOMAIN q : n > 1 => Calls(q[n], q[n - 1])
    BY DEF SoundStack
  <2>4. PICK n \in DOMAIN q : n = 2 /\ n > 1 /\ n - 1 = 1
    BY <2>2
  <2>5. Calls(q[2], q[1])
    BY <2>3, <2>4
  <2> QED BY <1>2, <2>1, <2>2, <2>5
<1> QED BY <1>2, <1>7, <1>8, <1>9

LEMMA StackPushed ==
  ASSUME NEW q, SoundStack(q), NEW c, SoundCall(c),
         q # <<>> => Calls(Head(q), c), NEW w, w = <<c>> \o q
  PROVE  SoundStack(w) /\ w # <<>>
<1>1. q \in Seq(Paths!Call) /\ c \in Paths!Call
  BY DEF SoundStack, SoundCall
<1>2. /\ w \in Seq(Paths!Call) /\ w # <<>> /\ w[1] = c
      /\ \A i \in Nat : i \in DOMAIN w <=> i = 1 \/ (i > 1 /\ i - 1 \in DOMAIN q)
      /\ \A i \in DOMAIN q : w[i + 1] = q[i]
  BY <1>1, PushFront
<1>3. \A n \in DOMAIN w : n \in Nat /\ n >= 1
  BY <1>2, First
<1>4. \A n \in DOMAIN w : n # 1 => n - 1 \in DOMAIN q /\ w[n] = q[n - 1] /\ n - 1 \in Nat
  <2>1. ASSUME NEW n \in DOMAIN w, n # 1 PROVE n - 1 \in DOMAIN q /\ w[n] = q[n - 1]
    <3>1. n - 1 \in DOMAIN q /\ (n - 1) + 1 = n
      BY <1>2, <1>3, <2>1
    <3> QED BY <1>2, <3>1
  <2> QED BY <1>3, <2>1
<1>5. \A n \in DOMAIN w : SoundCall(w[n])
  BY <1>2, <1>4 DEF SoundStack
<1>6. ASSUME NEW n \in DOMAIN w, n > 1 PROVE Calls(w[n], w[n - 1])
  <2>1. n - 1 \in DOMAIN q /\ w[n] = q[n - 1] /\ n \in Nat
    BY <1>3, <1>4, <1>6
  <2>2. CASE n = 2
    <3>1. 1 \in DOMAIN q /\ q # <<>> /\ Head(q) = q[1]
      BY <1>1, <2>1, <2>2, First, PopFront
    <3> QED BY <1>2, <2>1, <2>2, <3>1
  <2>3. CASE n > 2
    <3>1. n - 1 > 1 /\ n - 1 \in DOMAIN w /\ n - 1 # 1
      BY <1>2, <2>1, <2>3, <1>6, <1>4, First, <1>1, LenProperties
    <3>2. w[n - 1] = q[(n - 1) - 1]
      BY <1>4, <3>1
    <3>3. Calls(q[n - 1], q[(n - 1) - 1])
      BY <2>1, <3>1 DEF SoundStack
    <3> QED BY <2>1, <3>2, <3>3
  <2> QED BY <1>6, <2>1, <2>2, <2>3
<1> QED BY <1>2, <1>5, <1>6 DEF SoundStack

\* The paths the providers compute fit their keys and are the answers.
LEMMA PathsGoUp ==
  ASSUME PathInv, NEW k \in DOMAIN Paths!Needs, NEW path, Holds(path, Paths!Needs[k]),
         overtaken \/ overrides[k] = Paths!NoPath
  PROVE  Holds(Paths!DirName(path, Paths!Levels[k]), k)
<1>1. path \in Paths!Path /\ path.up <= Height[Paths!Needs[k]]
  BY DEF Holds, Fits
<1>2. PICK of \in Directory \union {"system"}, up \in 0..3 : path = [of |-> of, up |-> up]
  BY <1>1 DEF Paths!Path
<1>3. CASE k = "DIR_EXE"
  <2>1. Paths!DirName(path, Paths!Levels[k]) = [of |-> of, up |-> up + 1]
    BY <1>2, <1>3, NeedsAre DEF Paths!DirName
  <2>2. up = 0
    BY <1>1, <1>2, <1>3, NeedsAre DEF Height
  <2>3. Fits(Paths!DirName(path, Paths!Levels[k]), k)
    BY <1>3, <2>1, <2>2 DEF Fits, Paths!Path, Height
  <2>4. overtaken \/ Paths!DirName(path, Paths!Levels[k]) = Answer(k)
    <3>1. overtaken \/ path = ComputedFile
      BY <1>3, NeedsAre DEF Holds, Answer
    <3> QED BY <1>3, <3>1, NeedsAre DEF Answer, ComputedDir
  <2> QED BY <2>3, <2>4 DEF Holds
<1>4. CASE k = "DIR_SOURCE_ROOT"
  <2>1. Paths!DirName(path, Paths!Levels[k]) = [of |-> of, up |-> up + 2]
    BY <1>2, <1>4, NeedsAre DEF Paths!DirName
  <2>2. up <= 1
    BY <1>1, <1>2, <1>4, NeedsAre DEF Height
  <2>3. Fits(Paths!DirName(path, Paths!Levels[k]), k)
    BY <1>4, <2>1, <2>2 DEF Fits, Paths!Path, Height
  <2>4. overtaken \/ Paths!DirName(path, Paths!Levels[k]) = Answer(k)
    <3>1. overtaken \/ path = ComputedDir
      BY <1>4, NeedsAre DEF Holds, Answer
    <3> QED BY <1>4, <3>1, NeedsAre DEF Answer, ComputedRoot
  <2> QED BY <2>3, <2>4 DEF Holds
<1> QED BY <1>3, <1>4, NeedsAre

-----------------------------------------------------------------------------
(* Every step keeps the table in order *)

LEMMA AnswersStay ==
  ASSUME overrides' = overrides
  PROVE  \A k : Answer(k)' = Answer(k)
BY DEF Answer, ComputedFile, ComputedDir, ComputedRoot, ComputedUser

LEMMA StackTaken ==
  ASSUME PathInv, NEW th \in Thread, NEW w, SoundStack(w),
         gets' = [gets EXCEPT ![th] = w], overrides' = overrides, overtaken' = overtaken
  PROVE  /\ gets' \in [Thread -> Seq(Paths!Call)]
         /\ \A u \in Thread : SoundStack(gets[u])'
<1>1. gets' \in [Thread -> Seq(Paths!Call)] /\ \A u \in Thread : SoundStack(gets'[u])
  <2>1. w \in Seq(Paths!Call)
    BY DEF SoundStack
  <2> QED BY <2>1 DEF PathInv
<1>2. \A c : SoundCall(c) =>
        /\ c \in Paths!Call
        /\ c.pc = "add" => Fits(c.path, c.key) /\ (overtaken' \/ c.path = Answer(c.key)')
        /\ c.pc \in {"provider", "add"} => overtaken' \/ overrides'[c.key] = Paths!NoPath
  BY AnswersStay DEF SoundCall, Holds
<1>3. ASSUME NEW u \in Thread PROVE SoundStack(gets[u])'
  <2>1. PICK q : q = gets'[u] /\ SoundStack(q)
    BY <1>1
  <2>2. \A n \in DOMAIN q : SoundCall(q[n])'
    BY <1>2, <2>1 DEF SoundStack, SoundCall, Holds
  <2>3. q \in Seq(Paths!Call) /\ \A n \in DOMAIN q : n > 1 => Calls(q[n], q[n - 1])
    BY <2>1 DEF SoundStack
  <2> QED BY <2>1, <2>2, <2>3 DEF SoundStack
<1> QED BY <1>1, <1>3

LEMMA Returned ==
  ASSUME PathInv, NEW th \in Thread, gets[th] # <<>>, NEW path,
         Tail(gets[th]) = <<>> \/ Holds(path, Head(gets[th]).key),
         Paths!Return(th, path)
  PROVE  \E w : SoundStack(w) /\ gets' = [gets EXCEPT ![th] = w]
<1>1. SoundStack(gets[th])
  BY DEF PathInv
<1>2. PICK outer : outer = Tail(gets[th]) /\ SoundStack(outer)
        /\ (outer # <<>> => Calls(Head(outer), Head(gets[th])))
  BY <1>1, StackPopped
<1>3. CASE outer = <<>>
  BY <1>2, <1>3 DEF Paths!Return
<1>4. CASE outer # <<>>
  <2>1. PICK o \in Paths!Call : o = Head(outer) /\ SoundCall(o) /\ Calls(o, Head(gets[th]))
    BY <1>2, <1>4, StackPopped
  <2>2. /\ SoundStack(Tail(outer))
        /\ Tail(outer) # <<>> => Calls(Head(Tail(outer)), o)
    BY <1>2, <1>4, <2>1, StackPopped
  <2>3. PICK c : c = [[o EXCEPT !.pc = "add"] EXCEPT
                        !.path = Paths!DirName(path, Paths!Levels[o.key])]
    OBVIOUS
  <2>4. o.pc = "provider" /\ o.key \in DOMAIN Paths!Needs
          /\ (overtaken \/ overrides[o.key] = Paths!NoPath)
          /\ Head(gets[th]).key = Paths!Needs[o.key]
    BY <2>1 DEF Calls, SoundCall
  <2>5. Holds(Paths!DirName(path, Paths!Levels[o.key]), o.key)
    BY <1>2, <1>4, <2>4, PathsGoUp
  <2>6. Paths!DirName(path, Paths!Levels[o.key]) \in Paths!Path
    BY <2>5 DEF Holds, Fits
  <2>7. /\ c \in Paths!Call /\ c.key = o.key /\ c.pc = "add"
        /\ c.path = Paths!DirName(path, Paths!Levels[o.key])
    BY <2>1, <2>3, <2>6 DEF Paths!Call
  <2>8. SoundCall(c)
    BY <2>4, <2>5, <2>7 DEF SoundCall
  <2>9. Tail(outer) # <<>> => Calls(Head(Tail(outer)), c)
    BY <2>2, <2>7 DEF Calls
  <2>10. PICK w : w = <<c>> \o Tail(outer) /\ SoundStack(w)
    BY <2>2, <2>8, <2>9, StackPushed
  <2>11. gets' = [gets EXCEPT ![th] = w]
    BY <1>2, <1>4, <2>1, <2>3, <2>10 DEF Paths!Return
  <2> QED BY <2>10, <2>11
<1> QED BY <1>3, <1>4

\* The innermost call goes on to another lookup.
LEMMA WentOn ==
  ASSUME PathInv, NEW th \in Thread, gets[th] # <<>>, NEW pc, NEW path,
         NEW c, c = [[Head(gets[th]) EXCEPT !.pc = pc] EXCEPT !.path = path], SoundCall(c),
         c.key = Head(gets[th]).key,
         Paths!GoTo(th, pc, path)
  PROVE  \E w : SoundStack(w) /\ gets' = [gets EXCEPT ![th] = w]
<1>1. SoundStack(gets[th])
  BY DEF PathInv
<1>2. /\ SoundStack(Tail(gets[th]))
      /\ Tail(gets[th]) # <<>> => Calls(Head(Tail(gets[th])), Head(gets[th]))
  BY <1>1, StackPopped
<1>3. Tail(gets[th]) # <<>> => Calls(Head(Tail(gets[th])), c)
  BY <1>2 DEF Calls
<1>4. PICK w : w = <<c>> \o Tail(gets[th]) /\ SoundStack(w)
  BY <1>2, <1>3, StackPushed
<1>5. gets' = [gets EXCEPT ![th] = w]
  BY <1>4 DEF Paths!GoTo
<1> QED BY <1>4, <1>5

\* Steps that move the calls of one thread and store nothing.
LEMMA OnlyCallsMove ==
  ASSUME PathInv, NEW th \in Thread,
         \E w : SoundStack(w) /\ gets' = [gets EXCEPT ![th] = w],
         cache' = cache, overrides' = overrides, prepended' = prepended,
         overtaken' = overtaken
  PROVE  PathInv'
<1>1. gets' \in [Thread -> Seq(Paths!Call)] /\ \A u \in Thread : SoundStack(gets[u])'
  BY StackTaken
<1>2. SoundCache'
  BY AnswersStay DEF PathInv, SoundCache, Holds, Fits
<1>3. SoundOverrides'
  BY DEF PathInv, SoundOverrides
<1> QED BY <1>1, <1>2, <1>3 DEF PathInv

LEMMA EnterIsSound ==
  ASSUME NEW k \in Paths!Key
  PROVE  SoundCall(Paths!Enter(k)) /\ Paths!Enter(k).key = k
BY DEF SoundCall, Paths!Enter, Paths!Call

LEMMA TableAtFirst == Paths!Init => PathInv
<1> SUFFICES ASSUME Paths!Init PROVE PathInv
  OBVIOUS
<1> USE DEF Paths!Init
<1>1. SoundCache /\ SoundOverrides
  BY DEF SoundCache, SoundOverrides
<1>2. <<>> \in Seq(Paths!Call) /\ SoundStack(<<>>)
  BY DEF SoundStack
<1> QED BY <1>1, <1>2 DEF PathInv

LEMMA GetKeeps ==
  ASSUME PathInv, NEW th \in Thread, NEW k \in Paths!Key, Paths!Get(th, k)
  PROVE  PathInv'
<1>1. PICK c : c = Paths!Enter(k) /\ SoundCall(c)
  BY EnterIsSound
<1>2. SoundStack(<<>>)
  BY DEF SoundStack
<1>3. <<c>> = <<c>> \o <<>>
  <2>1. c \in Paths!Call
    BY <1>1 DEF SoundCall
  <2>2. <<c>> \in Seq(Paths!Call)
    BY <2>1
  <2> QED BY <2>2
<1>4. SoundStack(<<c>>)
  BY <1>1, <1>2, <1>3, StackPushed
<1>5. \E w : SoundStack(w) /\ gets' = [gets EXCEPT ![th] = w]
  BY <1>1, <1>4 DEF Paths!Get
<1> QED BY <1>5, OnlyCallsMove DEF Paths!Get

LEMMA FromCacheKeeps ==
  ASSUME PathInv, NEW th \in Thread, Paths!GetFromCache(th)
  PROVE  PathInv'
<1>1. gets[th] # <<>> /\ Head(gets[th]).pc = "cache"
  BY DEF Paths!GetFromCache, Paths!In
<1>2. PICK c \in Paths!Call : c = Head(gets[th])
  BY <1>1, StackPopped DEF PathInv
<1>3. c.key \in Paths!Key
  BY DEF Paths!Call
<1>4. CASE cache[c.key] # Paths!NoPath
  <2>1. Paths!Return(th, cache[c.key])
    BY <1>2, <1>4 DEF Paths!GetFromCache
  <2>2. Holds(cache[c.key], c.key)
    BY <1>3, <1>4 DEF PathInv, SoundCache
  <2>3. \E w : SoundStack(w) /\ gets' = [gets EXCEPT ![th] = w]
    BY <1>1, <1>2, <2>1, <2>2, Returned
  <2> QED BY <2>3, OnlyCallsMove DEF Paths!GetFromCache
<1>5. CASE cache[c.key] = Paths!NoPath
  <2>1. Paths!GoTo(th, "overrides", Paths!NoPath)
    BY <1>2, <1>5 DEF Paths!GetFromCache
  <2>2. PICK d : d = [[c EXCEPT !.pc = "overrides"] EXCEPT !.path = Paths!NoPath]
    OBVIOUS
  <2>3. d \in Paths!Call /\ d.key = c.key /\ d.pc = "overrides"
    BY <2>2 DEF Paths!Call
  <2>4. SoundCall(d)
    BY <2>3 DEF SoundCall
  <2>5. \E w : SoundStack(w) /\ gets' = [gets EXCEPT ![th] = w]
    BY <1>1, <1>2, <2>1, <2>2, <2>3, <2>4, WentOn
  <2> QED BY <2>5, OnlyCallsMove DEF Paths!GetFromCache
<1> QED BY <1>4, <1>5

LEMMA FromOverridesKeeps ==
  ASSUME PathInv, NEW th \in Thread, Paths!GetFromOverrides(th)
  PROVE  PathInv'
<1>1. gets[th] # <<>> /\ Head(gets[th]).pc = "overrides"
  BY DEF Paths!GetFromOverrides, Paths!In
<1>2. PICK c \in Paths!Call : c = Head(gets[th])
  BY <1>1, StackPopped DEF PathInv
<1>3. c.key \in Paths!Key
  BY DEF Paths!Call
<1>4. CASE overrides[c.key] # Paths!NoPath
  <2>1. Paths!Return(th, overrides[c.key])
    BY <1>2, <1>4 DEF Paths!GetFromOverrides
  <2>2. Holds(overrides[c.key], c.key)
    <3>1. overrides[c.key] \in Paths!Path /\ overrides[c.key].up = 0
      BY <1>3, <1>4 DEF PathInv, SoundOverrides
    <3>2. Fits(overrides[c.key], c.key)
      BY <1>3, <3>1 DEF Fits, Height, Paths!Key
    <3>3. overrides[c.key] = Answer(c.key)
      BY <1>3, <1>4 DEF Answer, ComputedFile, ComputedDir, ComputedRoot, ComputedUser, Paths!Key
    <3> QED BY <3>2, <3>3 DEF Holds
  <2>3. \E w : SoundStack(w) /\ gets' = [gets EXCEPT ![th] = w]
    BY <1>1, <1>2, <2>1, <2>2, Returned
  <2> QED BY <2>3, OnlyCallsMove DEF Paths!GetFromOverrides
<1>5. CASE overrides[c.key] = Paths!NoPath
  <2>1. Paths!GoTo(th, "provider", Paths!NoPath)
    BY <1>2, <1>5 DEF Paths!GetFromOverrides
  <2>2. PICK d : d = [[c EXCEPT !.pc = "provider"] EXCEPT !.path = Paths!NoPath]
    OBVIOUS
  <2>3. d \in Paths!Call /\ d.key = c.key /\ d.pc = "provider"
    BY <2>2 DEF Paths!Call
  <2>4. SoundCall(d)
    BY <1>5, <2>3 DEF SoundCall
  <2>5. \E w : SoundStack(w) /\ gets' = [gets EXCEPT ![th] = w]
    BY <1>1, <1>2, <2>1, <2>2, <2>3, <2>4, WentOn
  <2> QED BY <2>5, OnlyCallsMove DEF Paths!GetFromOverrides
<1> QED BY <1>4, <1>5

LEMMA ProvidersKeep ==
  ASSUME PathInv, NEW th \in Thread, Paths!SearchProviders(th)
  PROVE  PathInv'
<1>1. gets[th] # <<>> /\ Head(gets[th]).pc = "provider" /\ SoundStack(gets[th])
  BY DEF Paths!SearchProviders, Paths!In, PathInv
<1>2. PICK c \in Paths!Call : c = Head(gets[th]) /\ SoundCall(c)
        /\ (Tail(gets[th]) # <<>> => Calls(Head(Tail(gets[th])), c))
  BY <1>1, StackPopped
<1>3. c.key \in Paths!Key /\ (overtaken \/ overrides[c.key] = Paths!NoPath)
  BY <1>1, <1>2 DEF Paths!Call, SoundCall
<1>4. CASE c.key \in DOMAIN Paths!Needs
  <2>1. gets' = [gets EXCEPT ![th] = <<Paths!Enter(Paths!Needs[c.key])>> \o gets[th]]
    BY <1>2, <1>4, NeedsAre DEF Paths!SearchProviders
  <2>2. Paths!Needs[c.key] \in Paths!Key
    BY <1>4, NeedsAre DEF Paths!Key
  <2>3. PICK d : d = Paths!Enter(Paths!Needs[c.key]) /\ SoundCall(d)
          /\ d.key = Paths!Needs[c.key]
    BY <2>2, EnterIsSound
  <2>4. Calls(Head(gets[th]), d)
    BY <1>1, <1>2, <1>4, <2>3 DEF Calls
  <2>5. PICK w : w = <<d>> \o gets[th] /\ SoundStack(w)
    BY <1>1, <2>3, <2>4, StackPushed
  <2>6. \E x : SoundStack(x) /\ gets' = [gets EXCEPT ![th] = x]
    BY <2>1, <2>3, <2>5
  <2> QED BY <2>6, OnlyCallsMove DEF Paths!SearchProviders
<1>5. CASE c.key = "USER_KEY" /\ ~prepended
  <2>1. c.key \notin DOMAIN Paths!Needs
    BY <1>5, NeedsAre
  <2>2. Paths!Return(th, Paths!NoPath)
    BY <1>2, <1>5, <2>1 DEF Paths!SearchProviders
  <2>3. Tail(gets[th]) = <<>>
    BY <1>2, <1>5, NeedsAre DEF Calls
  <2>4. \E w : SoundStack(w) /\ gets' = [gets EXCEPT ![th] = w]
    BY <1>1, <2>2, <2>3, Returned
  <2> QED BY <2>4, OnlyCallsMove DEF Paths!SearchProviders
<1>6. CASE c.key \notin DOMAIN Paths!Needs /\ ~(c.key = "USER_KEY" /\ ~prepended)
  <2>1. PICK system : system = [of |-> "system", up |-> 0]
    OBVIOUS
  <2>2. Paths!GoTo(th, "add", system)
    BY <1>2, <1>6, <2>1 DEF Paths!SearchProviders
  <2>3. PICK d : d = [[c EXCEPT !.pc = "add"] EXCEPT !.path = system]
    OBVIOUS
  <2>4. system \in Paths!Path /\ system.up = 0
    BY <2>1 DEF Paths!Path
  <2>5. d \in Paths!Call /\ d.key = c.key /\ d.pc = "add" /\ d.path = system
    BY <2>3, <2>4 DEF Paths!Call
  <2>6. c.key \in {"FILE_EXE", "USER_KEY"}
    BY <1>3, <1>6, NeedsAre DEF Paths!Key
  <2>7. Holds(system, c.key)
    <3>1. Fits(system, c.key)
      BY <2>4, <2>6 DEF Fits, Height
    <3>2. overtaken \/ system = Answer(c.key)
      BY <1>3, <2>1, <2>6 DEF Answer, ComputedFile, ComputedUser
    <3> QED BY <3>1, <3>2 DEF Holds
  <2>8. SoundCall(d)
    BY <1>3, <2>5, <2>7 DEF SoundCall
  <2>9. \E w : SoundStack(w) /\ gets' = [gets EXCEPT ![th] = w]
    BY <1>1, <1>2, <2>2, <2>3, <2>5, <2>8, WentOn
  <2> QED BY <2>9, OnlyCallsMove DEF Paths!SearchProviders
<1> QED BY <1>4, <1>5, <1>6

LEMMA AddToCacheKeeps ==
  ASSUME PathInv, NEW th \in Thread, Paths!AddToCache(th)
  PROVE  PathInv'
<1>1. gets[th] # <<>> /\ Head(gets[th]).pc = "add" /\ SoundStack(gets[th])
  BY DEF Paths!AddToCache, Paths!In, PathInv
<1>2. PICK c \in Paths!Call : c = Head(gets[th]) /\ SoundCall(c)
  BY <1>1, StackPopped
<1>3. c.key \in Paths!Key /\ Holds(c.path, c.key) /\ c.path \in Paths!Path
  BY <1>1, <1>2 DEF Paths!Call, SoundCall, Holds, Fits
<1>4. /\ cache' = [cache EXCEPT ![c.key] = c.path]
      /\ Paths!Return(th, c.path)
      /\ overrides' = overrides /\ prepended' = prepended /\ overtaken' = overtaken
  BY <1>2 DEF Paths!AddToCache
<1>5. \E w : SoundStack(w) /\ gets' = [gets EXCEPT ![th] = w]
  BY <1>1, <1>2, <1>3, <1>4, Returned
<1>6. gets' \in [Thread -> Seq(Paths!Call)] /\ \A u \in Thread : SoundStack(gets[u])'
  BY <1>4, <1>5, StackTaken
<1>7. SoundCache'
  <2>1. \A k \in Paths!Key : cache'[k] # Paths!NoPath => Holds(cache'[k], k)
    BY <1>3, <1>4 DEF PathInv, SoundCache
  <2> QED BY <1>4, <2>1, AnswersStay DEF SoundCache, Holds, Fits
<1>8. SoundOverrides'
  BY <1>4 DEF PathInv, SoundOverrides
<1>9. cache' \in [Paths!Key -> Paths!Path \union {Paths!NoPath}]
  BY <1>3, <1>4 DEF PathInv
<1> QED BY <1>4, <1>6, <1>7, <1>8, <1>9 DEF PathInv

\* The override is in force at once, unless a thread is computing a path that it
\* looked up before; then the table is not promised anything any more.
LEMMA OverrideKeeps ==
  ASSUME PathInv, NEW th \in Thread, NEW key \in Paths!Key, NEW directory \in Directory,
         Paths!Override(th, key, directory)
  PROVE  PathInv'
<1>1. PICK path : path = [of |-> directory, up |-> 0]
  OBVIOUS
<1>2. /\ cache' = [k \in Paths!Key |-> IF k = key THEN path ELSE Paths!NoPath]
      /\ overrides' = [overrides EXCEPT ![key] = path]
      /\ overtaken' = (overtaken \/ \E other \in Thread : Paths!IsComputing(other))
      /\ prepended' = prepended /\ gets' = gets
  BY <1>1 DEF Paths!Override
<1>3. path \in Paths!Path /\ path.up = 0
  BY <1>1 DEF Paths!Path
<1>4. /\ overrides'[key] = path
      /\ \A k \in Paths!Key : k # key => overrides'[k] = overrides[k]
      /\ overrides' \in [Paths!Key -> Paths!Path \union {Paths!NoPath}]
      /\ cache' \in [Paths!Key -> Paths!Path \union {Paths!NoPath}]
      /\ overtaken' \in BOOLEAN /\ prepended' \in BOOLEAN
  BY <1>2, <1>3 DEF PathInv
<1>5. SoundOverrides'
  BY <1>3, <1>4 DEF PathInv, SoundOverrides
<1>6. SoundCache'
  <2> SUFFICES ASSUME path # Paths!NoPath PROVE Holds(path, key)'
    BY <1>2 DEF SoundCache
  <2>1. Fits(path, key)
    BY <1>3 DEF Fits, Height, Paths!Key
  <2>2. Answer(key)' = path
    BY <1>4 DEF Answer, ComputedFile, ComputedDir, ComputedRoot, ComputedUser, Paths!Key
  <2> QED BY <2>1, <2>2 DEF Holds, Fits
<1>7. ASSUME NEW u \in Thread PROVE SoundStack(gets[u])'
  <2>1. PICK q : q = gets[u] /\ q = gets'[u] /\ SoundStack(q)
    BY <1>2 DEF PathInv
  <2>2. ASSUME NEW n \in DOMAIN q PROVE SoundCall(q[n])'
    <3>1. SoundCall(q[n])
      BY <2>1 DEF SoundStack
    <3>2. q[n].pc \in {"provider", "add"} => overtaken'
      BY <1>2, <2>1 DEF Paths!IsComputing
    <3>3. q[n].pc = "add" => Fits(q[n].path, q[n].key)
      BY <3>1 DEF SoundCall, Holds
    <3> QED BY <3>1, <3>2, <3>3 DEF SoundCall, Holds, Fits
  <2>3. q \in Seq(Paths!Call) /\ \A n \in DOMAIN q : n > 1 => Calls(q[n], q[n - 1])
    BY <2>1 DEF SoundStack
  <2> QED BY <2>1, <2>2, <2>3 DEF SoundStack
<1>8. gets' \in [Thread -> Seq(Paths!Call)]
  BY <1>2 DEF PathInv
<1> QED BY <1>4, <1>5, <1>6, <1>7, <1>8 DEF PathInv

LEMMA TableStep == PathInv /\ [Paths!Next]_Paths!vars => PathInv'
<1> SUFFICES ASSUME PathInv, [Paths!Next]_Paths!vars PROVE PathInv'
  OBVIOUS
<1>1. ASSUME cache' = cache, overrides' = overrides, gets' = gets, overtaken' = overtaken,
             prepended' \in BOOLEAN
      PROVE  PathInv'
  <2>1. SoundCache' /\ SoundOverrides'
    BY <1>1, AnswersStay DEF PathInv, SoundCache, SoundOverrides, Holds, Fits
  <2>2. ASSUME NEW u \in Thread PROVE SoundStack(gets[u])'
    <3>1. SoundStack(gets[u])
      BY DEF PathInv
    <3> QED BY <1>1, <3>1, AnswersStay DEF SoundStack, SoundCall, Holds, Fits
  <2> QED BY <1>1, <2>1, <2>2 DEF PathInv
<1>2. ASSUME NEW th \in Thread, NEW key \in Paths!Key, Paths!Get(th, key) PROVE PathInv'
  BY <1>2, GetKeeps
<1>3. ASSUME NEW th \in Thread, Paths!GetFromCache(th) PROVE PathInv'
  BY <1>3, FromCacheKeeps
<1>4. ASSUME NEW th \in Thread, Paths!GetFromOverrides(th) PROVE PathInv'
  BY <1>4, FromOverridesKeeps
<1>5. ASSUME NEW th \in Thread, Paths!SearchProviders(th) PROVE PathInv'
  BY <1>5, ProvidersKeep
<1>6. ASSUME NEW th \in Thread, Paths!AddToCache(th) PROVE PathInv'
  BY <1>6, AddToCacheKeeps
<1>7. ASSUME NEW th \in Thread, NEW key \in Paths!Key, NEW directory \in Directory,
             Paths!Override(th, key, directory)
      PROVE  PathInv'
  BY <1>7, OverrideKeeps
<1>8. ASSUME NEW th \in Thread, Paths!RegisterProvider(th) PROVE PathInv'
  BY <1>1, <1>8 DEF Paths!RegisterProvider
<1>9. CASE UNCHANGED Paths!vars
  BY <1>1, <1>9 DEF Paths!vars, PathInv
<1> QED BY <1>2, <1>3, <1>4, <1>5, <1>6, <1>7, <1>8, <1>9 DEF Paths!Next

\* CacheInSync of PathService: whatever threads look up, override and compute at the
\* same time, no cached path outlives the override of what it was computed from,
\* unless a key was overridden while a thread was computing one.
THEOREM CacheStaysInSync == Paths!Spec => []Paths!CacheInSync
<1>1. PathInv => Paths!CacheInSync
  <2> SUFFICES ASSUME PathInv PROVE Paths!CacheInSync
    OBVIOUS
  <2>1. Paths!TypeOK
    BY DEF PathInv, Paths!TypeOK
  <2>2. overtaken \/ \A k \in Paths!Key : cache[k] \in {Paths!NoPath, Paths!Computed[k]}
    BY ComputedIs DEF PathInv, SoundCache, Holds
  <2> QED BY <2>1, <2>2 DEF Paths!CacheInSync
<1> QED BY <1>1, TableAtFirst, TableStep, PTL DEF Paths!Spec
=============================================================================
