------------------------- MODULE ObjectWatcherProofs -------------------------
(***************************************************************************)
(* For any number of watchers, Watches and events: a Watch is deleted      *)
(* once, by its last user; a delegate is called only by the Watch its      *)
(* watcher has; no wait outlives the loop; no signal is lost on its way to *)
(* the delegate, and StopWatching waits for nothing that waits for it.     *)
(***************************************************************************)
EXTENDS ObjectWatcher, SequenceTheorems, TLAPS

\* A watcher and its Watch know each other.
Paired ==
  /\ \A w \in Watcher : watch_[w] # None =>
       watch_[w] \in allocated /\ w \in alive /\ watcher[watch_[w]] = w
  /\ \A x \in allocated : watcher[x] # None => watch_[watcher[x]] = x

\* A wait belongs to a watcher; DoneWaiting has set did_signal when it posts.
WaitsForWatcher ==
  \A x \in Watch : wait[x] # "none" =>
    /\ x \in allocated /\ watcher[x] # None
    /\ did_signal[x] <=> wait[x] = "posting"

\* The sequence s has x, and nothing twice.
Has(s, x) == \E n \in DOMAIN s : s[n] = x

Once(s) == \A n, m \in DOMAIN s : s[n] = s[m] => n = m

\* Where the Watch x is after DoneWaiting.
Queued(x) == Has(queue, x)
Called(x) == Has(called, x)
Posting(x) == wait[x] = "posting"
Runs(x) == stopping.run = x

Held(x) == Posting(x) \/ Queued(x) \/ Called(x) \/ Runs(x) \/ x \in leaked

\* DoneWaiting passes a Watch from its watcher to the loop.
HandedOver ==
  /\ \A x \in Watch : Held(x) <=> x \in allocated /\ did_signal[x]
  /\ \A x \in allocated : did_signal[x] \/ watcher[x] # None
  /\ \A x \in Watch : Called(x) => watcher[x] = None

\* It is in one place at a time.
OneHolder ==
  /\ \A x \in Watch : Posting(x) => ~Queued(x) /\ ~Called(x) /\ ~Runs(x) /\ x \notin leaked
  /\ \A x \in Watch : Queued(x) => ~Called(x) /\ ~Runs(x) /\ x \notin leaked
  /\ \A x \in Watch : Called(x) => ~Runs(x) /\ x \notin leaked
  /\ \A x \in Watch : Runs(x) => x \notin leaked
  /\ Once(queue) /\ Once(called)

\* Watch::Run stops the watcher that has it.
Stops ==
  /\ stopping # Idle => stopping.who \in alive
  /\ stopping.for = "run" => stopping.run # None /\ watch_[stopping.who] = stopping.run
  /\ stopping.run # None => stopping.for = "run"

\* The loop tells every watcher that has a Watch before it goes.
Observes ==
  /\ observers = {w \in Watcher : watch_[w] # None}
  /\ loop = "gone" => observers = {}
  /\ loop = "alive" => leaked = {}

\* A watcher watches the event it has, until its client stops it.
WatchesEvent ==
  \A w \in Watcher :
    /\ watch_[w] # None
    /\ ~(stopping.who = w /\ stopping.for = "client")
    => event_[w] = object[watch_[w]]

IInv ==
  /\ Paired /\ WaitsForWatcher /\ HandedOver /\ OneHolder
  /\ Stops /\ Observes /\ WatchesEvent

-----------------------------------------------------------------------------
(* Sequences *)

\* An element in front of a sequence.
LEMMA PushFront ==
  ASSUME NEW S, NEW s \in Seq(S), NEW e \in S
  PROVE  /\ <<e>> \o s \in Seq(S)
         /\ <<e>> \o s # <<>>
         /\ Len(<<e>> \o s) = Len(s) + 1
         /\ Head(<<e>> \o s) = e
         /\ (<<e>> \o s)[1] = e
         /\ \A i \in Nat : i \in DOMAIN (<<e>> \o s) <=> i = 1 \/ (i > 1 /\ i - 1 \in DOMAIN s)
         /\ \A i \in DOMAIN s : (<<e>> \o s)[i + 1] = s[i]
<1>1. <<e>> \in Seq(S) /\ Len(<<e>>) = 1 /\ <<e>>[1] = e
  OBVIOUS
<1>2. /\ <<e>> \o s \in Seq(S)
      /\ Len(<<e>> \o s) = 1 + Len(s)
      /\ \A i \in 1 .. 1 + Len(s) :
           (<<e>> \o s)[i] = IF i <= 1 THEN <<e>>[i] ELSE s[i - 1]
  BY <1>1, ConcatProperties
<1>3. DOMAIN (<<e>> \o s) = 1 .. 1 + Len(s) /\ DOMAIN s = 1 .. Len(s) /\ Len(s) \in Nat
  BY <1>2, LenProperties
<1>4. <<e>> \o s # <<>>
  BY <1>2, <1>3
<1>5. (<<e>> \o s)[1] = e
  BY <1>1, <1>2, <1>3
<1>6. Head(<<e>> \o s) = e
  BY <1>2, <1>4, <1>5
<1>7. ASSUME NEW i \in DOMAIN s PROVE (<<e>> \o s)[i + 1] = s[i]
  BY <1>2, <1>3
<1> QED
  BY <1>2, <1>3, <1>4, <1>5, <1>6, <1>7

\* A sequence without its head.
LEMMA PopFront ==
  ASSUME NEW S, NEW s \in Seq(S), s # <<>>
  PROVE  /\ Tail(s) \in Seq(S)
         /\ Head(s) \in S
         /\ Head(s) = s[1] /\ 1 \in DOMAIN s
         /\ \A i \in Nat : i \in DOMAIN Tail(s) <=> i > 0 /\ i + 1 \in DOMAIN s
         /\ \A i \in DOMAIN Tail(s) : Tail(s)[i] = s[i + 1]
<1>1. /\ Tail(s) \in Seq(S) /\ Head(s) \in S
      /\ Len(Tail(s)) = Len(s) - 1
      /\ \A i \in 1 .. Len(Tail(s)) : Tail(s)[i] = s[i + 1]
  BY HeadTailProperties
<1>2. DOMAIN Tail(s) = 1 .. Len(s) - 1 /\ DOMAIN s = 1 .. Len(s) /\ Len(s) \in Nat \ {0}
  BY <1>1, LenProperties, EmptySeq
<1> QED
  BY <1>1, <1>2

\* An element behind a sequence.
LEMMA PushBack ==
  ASSUME NEW S, NEW s \in Seq(S), NEW e \in S
  PROVE  /\ Append(s, e) \in Seq(S)
         /\ Len(s) + 1 \in Nat \ {0}
         /\ Len(s) + 1 \notin DOMAIN s
         /\ \A i : i \in DOMAIN Append(s, e) <=> i \in DOMAIN s \/ i = Len(s) + 1
         /\ \A i \in DOMAIN s : Append(s, e)[i] = s[i]
         /\ Append(s, e)[Len(s) + 1] = e
<1>1. /\ Append(s, e) \in Seq(S)
      /\ Len(Append(s, e)) = Len(s) + 1
      /\ \A i \in 1 .. Len(s) : Append(s, e)[i] = s[i]
      /\ Append(s, e)[Len(s) + 1] = e
  BY AppendProperties
<1>2. DOMAIN Append(s, e) = 1 .. Len(s) + 1 /\ DOMAIN s = 1 .. Len(s) /\ Len(s) \in Nat
  BY <1>1, LenProperties
<1> QED
  BY <1>1, <1>2

\* The places of a sequence are positive.
LEMMA Positions ==
  ASSUME NEW S, NEW s \in Seq(S)
  PROVE  \A n \in DOMAIN s : n \in Nat /\ n >= 1 /\ s[n] \in S
<1>1. DOMAIN s = 1 .. Len(s) /\ Len(s) \in Nat
  BY LenProperties
<1>2. \A n \in 1 .. Len(s) : s[n] \in S
  BY ElementOfSeq
<1> QED
  BY <1>1, <1>2

LEMMA EmptySequence ==
  ASSUME NEW S
  PROVE  <<>> \in Seq(S) /\ DOMAIN <<>> = {} /\ Len(<<>>) = 0
  OBVIOUS

\* What a sequence without its head, or with one more element, has.
LEMMA HasTail ==
  ASSUME NEW S, NEW s \in Seq(S), s # <<>>, Once(s)
  PROVE  /\ Once(Tail(s))
         /\ Has(s, Head(s)) /\ Head(s) \in S /\ Tail(s) \in Seq(S)
         /\ \A x : Has(Tail(s), x) <=> Has(s, x) /\ x # Head(s)
<1>1. /\ Tail(s) \in Seq(S) /\ Head(s) \in S /\ Head(s) = s[1] /\ 1 \in DOMAIN s
      /\ \A n \in Nat : n \in DOMAIN Tail(s) <=> n > 0 /\ n + 1 \in DOMAIN s
      /\ \A n \in DOMAIN Tail(s) : Tail(s)[n] = s[n + 1]
  BY PopFront
<1>2. /\ \A n \in DOMAIN s : n \in Nat /\ n >= 1
      /\ \A n \in DOMAIN Tail(s) : n \in Nat /\ n >= 1 /\ n + 1 \in DOMAIN s /\ n + 1 # 1
  BY <1>1, Positions
<1>3. \A n \in DOMAIN s : n # 1 => n - 1 \in DOMAIN Tail(s) /\ Tail(s)[n - 1] = s[n]
  <2> SUFFICES ASSUME NEW n \in DOMAIN s, n # 1
               PROVE  n - 1 \in DOMAIN Tail(s) /\ Tail(s)[n - 1] = s[n]
    OBVIOUS
  <2>1. n - 1 \in Nat /\ n - 1 > 0 /\ (n - 1) + 1 = n
    BY <1>2
  <2> QED
    BY <1>1, <2>1
<1>4. Once(Tail(s))
  <2> SUFFICES ASSUME NEW n \in DOMAIN Tail(s), NEW m \in DOMAIN Tail(s),
                      Tail(s)[n] = Tail(s)[m]
               PROVE  n = m
    BY DEF Once
  <2>1. n + 1 = m + 1 /\ n \in Nat /\ m \in Nat
    BY <1>1, <1>2 DEF Once
  <2> QED
    BY <2>1
<1>5. ASSUME NEW x, Has(Tail(s), x) PROVE Has(s, x) /\ x # Head(s)
  <2>1. PICK n \in DOMAIN Tail(s) : Tail(s)[n] = x
    BY <1>5 DEF Has
  <2>2. n + 1 \in DOMAIN s /\ s[n + 1] = x /\ n + 1 # 1
    BY <1>1, <1>2, <2>1
  <2> QED
    BY <1>1, <2>2 DEF Has, Once
<1>6. ASSUME NEW x, Has(s, x), x # Head(s) PROVE Has(Tail(s), x)
  BY <1>1, <1>3, <1>6 DEF Has
<1> QED
  BY <1>1, <1>4, <1>5, <1>6 DEF Has

LEMMA HasAppend ==
  ASSUME NEW S, NEW s \in Seq(S), NEW e \in S, Once(s), ~Has(s, e)
  PROVE  /\ Append(s, e) \in Seq(S)
         /\ Once(Append(s, e))
         /\ \A x : Has(Append(s, e), x) <=> Has(s, x) \/ x = e
  BY PushBack DEF Has, Once

LEMMA HasFront ==
  ASSUME NEW S, NEW s \in Seq(S), NEW e \in S, Once(s), ~Has(s, e)
  PROVE  /\ <<e>> \o s \in Seq(S)
         /\ Once(<<e>> \o s)
         /\ \A x : Has(<<e>> \o s, x) <=> Has(s, x) \/ x = e
<1> DEFINE f == <<e>> \o s
<1>1. /\ f \in Seq(S) /\ f[1] = e
      /\ \A i \in Nat : i \in DOMAIN f <=> i = 1 \/ (i > 1 /\ i - 1 \in DOMAIN s)
      /\ \A i \in DOMAIN s : f[i + 1] = s[i]
  BY PushFront
<1> HIDE DEF f
<1>2. /\ \A n \in DOMAIN s : n \in Nat /\ n >= 1
      /\ \A n \in DOMAIN f : n \in Nat
      /\ 1 \in DOMAIN f
  BY <1>1, Positions
<1>3. ASSUME NEW n \in DOMAIN f, n # 1
      PROVE  n - 1 \in DOMAIN s /\ f[n] = s[n - 1]
  <2>1. n \in Nat /\ n - 1 \in DOMAIN s /\ (n - 1) + 1 = n
    BY <1>1, <1>2, <1>3
  <2> QED
    BY <1>1, <2>1
<1>4. ASSUME NEW n \in DOMAIN s
      PROVE  n + 1 \in DOMAIN f /\ f[n + 1] = s[n]
  <2>1. n + 1 \in Nat /\ n + 1 > 1 /\ (n + 1) - 1 = n
    BY <1>2
  <2> QED
    BY <1>1, <2>1
<1>5. \A x : Has(f, x) <=> Has(s, x) \/ x = e
  <2>1. ASSUME NEW x, Has(f, x) PROVE Has(s, x) \/ x = e
    BY <1>1, <1>3, <2>1 DEF Has
  <2>2. ASSUME NEW x, Has(s, x) PROVE Has(f, x)
    BY <1>4, <2>2 DEF Has
  <2>3. Has(f, e)
    BY <1>1, <1>2 DEF Has
  <2> QED
    BY <2>1, <2>2, <2>3
<1>6. Once(f)
  <2> SUFFICES ASSUME NEW n \in DOMAIN f, NEW m \in DOMAIN f, f[n] = f[m]
               PROVE  n = m
    BY DEF Once
  <2>1. CASE n = 1 \/ m = 1
    BY <1>1, <1>3, <2>1 DEF Has
  <2>2. CASE n # 1 /\ m # 1
    <3>1. n - 1 = m - 1 /\ n \in Nat /\ m \in Nat
      BY <1>2, <1>3, <2>2 DEF Once
    <3> QED
      BY <3>1
  <2> QED
    BY <2>1, <2>2
<1> QED
  BY <1>1, <1>5, <1>6 DEF f

-----------------------------------------------------------------------------
(* Types *)

LEMMA Stopping ==
  ASSUME TypeOK
  PROVE  /\ stopping = Idle <=> stopping.for = "nobody"
         /\ stopping # Idle =>
              /\ stopping.who \in Watcher /\ stopping.who # None
              /\ stopping.for \in {"client", "destructor", "run", "loop"}
         /\ stopping.run \in Watch \union {None}
         /\ stopping = Idle => stopping.run = None /\ stopping.who = None
  BY ObjectWatcherAssumption DEF TypeOK, Idle

LEMMA InitInv == Init => TypeOK /\ IInv
<1> SUFFICES ASSUME Init PROVE TypeOK /\ IInv
  OBVIOUS
<1> USE ObjectWatcherAssumption
<1>1. TypeOK
  <2>1. queue \in Seq(Watch) /\ called \in Seq(Watch)
    BY EmptySequence DEF Init
  <2>2. starts \in 0 .. MaxStarts /\ signals \in 0 .. MaxSignals
    BY DEF Init
  <2> QED
    BY <2>1, <2>2 DEF Init, TypeOK
<1>2. DOMAIN queue = {} /\ DOMAIN called = {}
  BY EmptySequence DEF Init
<1>3. Paired /\ WaitsForWatcher
  BY DEF Init, Paired, WaitsForWatcher
<1>4. \A x \in Watch : ~Held(x)
  BY <1>2 DEF Init, Idle, Held, Posting, Queued, Called, Runs, Has
<1>5. HandedOver /\ OneHolder
  BY <1>2, <1>4 DEF Init, HandedOver, OneHolder, Held, Once
<1>6. Stops /\ Observes /\ WatchesEvent
  BY DEF Init, Idle, Stops, Observes, WatchesEvent
<1> QED
  BY <1>1, <1>3, <1>5, <1>6 DEF IInv

-----------------------------------------------------------------------------
(* The invariant, action by action *)

LEMMA StartWatchingInv ==
  ASSUME TypeOK, IInv, NEW w \in Watcher, NEW e \in Event, StartWatching(w, e)
  PROVE  TypeOK' /\ IInv'
<1> USE ObjectWatcherAssumption DEF IInv
<1>1. /\ loop = "alive" /\ stopping = Idle /\ w \in alive /\ watch_[w] = None
      /\ starts' \in 0 .. MaxStarts
      /\ event_' = [event_ EXCEPT ![w] = e]
      /\ observers' = observers \union {w}
      /\ UNCHANGED <<alive, stopping, queue, loop, called, leaked, signaled, signals>>
  BY DEF StartWatching, InClientCode, Observed, loopVars, eventVars, TypeOK
<1>2. PICK x \in Watch \ allocated :
        /\ allocated' = allocated \union {x}
        /\ watcher' = [watcher EXCEPT ![x] = w]
        /\ object' = [object EXCEPT ![x] = e]
        /\ did_signal' = [did_signal EXCEPT ![x] = FALSE]
        /\ wait' = [wait EXCEPT ![x] = "registered"]
        /\ watch_' = [watch_ EXCEPT ![w] = x]
  BY DEF StartWatching
<1>3. TypeOK'
  BY <1>1, <1>2 DEF TypeOK
<1>4. /\ watcher'[x] = w /\ object'[x] = e /\ ~did_signal'[x] /\ wait'[x] = "registered"
      /\ watch_'[w] = x /\ event_'[w] = e /\ x # None /\ w # None
      /\ \A y \in Watch : y # x =>
           /\ watcher'[y] = watcher[y] /\ object'[y] = object[y]
           /\ did_signal'[y] = did_signal[y] /\ wait'[y] = wait[y]
      /\ \A v \in Watcher : v # w => watch_'[v] = watch_[v] /\ event_'[v] = event_[v]
  BY <1>1, <1>2 DEF TypeOK
<1>5. ~Held(x)
  BY <1>2 DEF HandedOver
<1>6. /\ \A y \in Watch : Posting(y)' <=> Posting(y)
      /\ \A y \in Watch : Queued(y)' <=> Queued(y)
      /\ \A y \in Watch : Called(y)' <=> Called(y)
      /\ \A y \in Watch : Runs(y)' <=> Runs(y)
  BY <1>1, <1>4, <1>5 DEF Held, Posting, Queued, Called, Runs, Has
<1>7. \A y \in Watch : Held(y)' <=> Held(y)
  BY <1>1, <1>6 DEF Held
<1>8. Paired'
  <2>1. ASSUME NEW v \in Watcher, watch_'[v] # None
        PROVE  watch_'[v] \in allocated' /\ v \in alive' /\ watcher'[watch_'[v]] = v
    BY <1>1, <1>2, <1>4, <2>1 DEF Paired, TypeOK
  <2>2. ASSUME NEW y \in allocated', watcher'[y] # None
        PROVE  watch_'[watcher'[y]] = y
    <3>1. CASE y = x
      BY <1>4, <3>1
    <3>2. CASE y # x
      BY <1>1, <1>2, <1>4, <2>2, <3>2 DEF Paired, TypeOK
    <3> QED
      BY <3>1, <3>2
  <2> QED
    BY <2>1, <2>2 DEF Paired
<1>9. WaitsForWatcher'
  BY <1>2, <1>4 DEF WaitsForWatcher
<1>10. HandedOver'
  <2>1. \A y \in Watch : Held(y)' <=> y \in allocated' /\ did_signal'[y]
    BY <1>2, <1>4, <1>5, <1>7 DEF HandedOver
  <2>2. \A y \in allocated' : did_signal'[y] \/ watcher'[y] # None
    BY <1>2, <1>4 DEF HandedOver, TypeOK
  <2>3. \A y \in Watch : Called(y)' => watcher'[y] = None
    BY <1>4, <1>5, <1>6 DEF HandedOver, Held
  <2> QED
    BY <2>1, <2>2, <2>3 DEF HandedOver
<1>11. OneHolder'
  BY <1>1, <1>6 DEF OneHolder, Once
<1>12. Stops' /\ Observes' /\ WatchesEvent'
  <2>1. Stops'
    BY <1>1, <1>4 DEF Stops, Idle
  <2>2. Observes'
    BY <1>1, <1>4 DEF Observes
  <2>3. WatchesEvent'
    BY <1>1, <1>2, <1>4 DEF WatchesEvent, Paired, TypeOK
  <2> QED
    BY <2>1, <2>2, <2>3
<1> QED
  BY <1>3, <1>8, <1>9, <1>10, <1>11, <1>12

\* Steps that change none of what the invariant speaks of.
LEMMA QuietInv ==
  ASSUME TypeOK, IInv,
         \/ \E w \in Watcher, e \in Event : StartWatchingFails(w, e)
         \/ DestroyLoop
         \/ \E e \in Event : Signal(e) \/ Reset(e)
         \/ UNCHANGED vars
  PROVE  TypeOK' /\ IInv'
<1> USE ObjectWatcherAssumption DEF IInv
<1>1. /\ UNCHANGED <<alive, watch_, observers, stopping, watcher, object, did_signal,
                     allocated, wait, queue, called, leaked>>
      /\ \A w \in Watcher : watch_[w] # None => event_'[w] = event_[w]
      /\ event_' \in [Watcher -> Event \union {None}]
      /\ signaled' \subseteq Event /\ starts' \in 0 .. MaxStarts /\ signals' \in 0 .. MaxSignals
      /\ loop' = loop \/ (loop = "alive" /\ loop' = "discarding")
  <2> USE DEF TypeOK, vars, watcherVars, watchVars, loopVars, eventVars
  <2>1. CASE \E w \in Watcher, e \in Event : StartWatchingFails(w, e)
    BY <2>1 DEF StartWatchingFails
  <2>2. CASE DestroyLoop
    BY <2>2 DEF DestroyLoop, InClientCode
  <2>3. CASE \E e \in Event : Signal(e) \/ Reset(e)
    BY <2>3 DEF Signal, Reset
  <2>4. CASE UNCHANGED vars
    BY <2>4
  <2> QED
    BY <2>1, <2>2, <2>3, <2>4
<1>2. TypeOK'
  BY <1>1 DEF TypeOK
<1>3. Paired' /\ WaitsForWatcher' /\ Stops'
  BY <1>1 DEF Paired, WaitsForWatcher, Stops, Idle
<1>4. \A x \in Watch : /\ Posting(x)' <=> Posting(x)
                       /\ Queued(x)' <=> Queued(x)
                       /\ Called(x)' <=> Called(x)
                       /\ Runs(x)' <=> Runs(x)
                       /\ Held(x)' <=> Held(x)
  BY <1>1 DEF Posting, Queued, Called, Runs, Held, Has
<1>5. HandedOver' /\ OneHolder'
  BY <1>1, <1>4 DEF HandedOver, OneHolder, Once
<1>6. Observes' /\ WatchesEvent'
  BY <1>1 DEF Observes, WatchesEvent
<1> QED
  BY <1>2, <1>3, <1>5, <1>6

\* StopWatching is entered by a client, or for a watcher the loop tells.
LEMMA EnterStopInv ==
  ASSUME TypeOK, IInv,
         \/ \E w \in Watcher : StopWatching(w)
         \/ WillDestroyCurrentMessageLoop
  PROVE  TypeOK' /\ IInv'
<1> USE ObjectWatcherAssumption DEF IInv
<1>1. PICK w \in Watcher :
        /\ stopping = Idle /\ w \in alive
        /\ \E for \in {"client", "destructor", "loop"} :
             /\ stopping' = [who |-> w, for |-> for, run |-> None]
             /\ event_' = IF for = "client" THEN [event_ EXCEPT ![w] = None] ELSE event_
        /\ wait' = [x \in Watch |->
                     IF x = watch_[w] /\ wait[x] = "registered" THEN "none" ELSE wait[x]]
  <2>1. ASSUME NEW w \in Watcher, StopWatching(w)
        PROVE  /\ stopping = Idle /\ w \in alive
               /\ \E for \in {"client", "destructor", "loop"} :
                    /\ stopping' = [who |-> w, for |-> for, run |-> None]
                    /\ event_' = IF for = "client" THEN [event_ EXCEPT ![w] = None] ELSE event_
               /\ wait' = [x \in Watch |->
                            IF x = watch_[w] /\ wait[x] = "registered" THEN "none" ELSE wait[x]]
    BY <2>1 DEF StopWatching, EnterStop, InClientCode
  <2>2. ASSUME WillDestroyCurrentMessageLoop, NEW w \in observers, EnterStop(w, "loop", None)
        PROVE  /\ w \in Watcher /\ stopping = Idle /\ w \in alive
               /\ \E for \in {"client", "destructor", "loop"} :
                    /\ stopping' = [who |-> w, for |-> for, run |-> None]
                    /\ event_' = IF for = "client" THEN [event_ EXCEPT ![w] = None] ELSE event_
               /\ wait' = [x \in Watch |->
                            IF x = watch_[w] /\ wait[x] = "registered" THEN "none" ELSE wait[x]]
    <3>1. w \in Watcher /\ w \in alive
      BY <2>2 DEF Observes, Paired
    <3>2. event_' = event_ /\ stopping = Idle
      BY <2>2 DEF WillDestroyCurrentMessageLoop
    <3> QED
      BY <2>2, <3>1, <3>2 DEF EnterStop
  <2> QED
    BY <2>1, <2>2 DEF WillDestroyCurrentMessageLoop
<1>2. UNCHANGED <<alive, watch_, observers, watcher, object, did_signal, allocated,
                  queue, loop, called, leaked, signaled, signals, starts>>
  BY DEF StopWatching, WillDestroyCurrentMessageLoop, watchVars, loopVars, eventVars
<1>3. /\ stopping'.who = w /\ stopping'.run = None /\ stopping' # Idle
      /\ stopping'.for \in {"client", "destructor", "loop"}
      /\ stopping' \in [who : Watcher, for : {"client", "destructor", "run", "loop"},
                        run : Watch \union {None}]
      /\ \A v \in Watcher : v # w \/ stopping'.for # "client" => event_'[v] = event_[v]
      /\ event_' \in [Watcher -> Event \union {None}]
  BY <1>1 DEF Idle, TypeOK
<1>4. /\ wait' \in [Watch -> {"none", "registered", "called", "posting"}]
      /\ \A x \in Watch : wait'[x] # "none" => wait'[x] = wait[x]
      /\ \A x \in Watch : wait[x] = "posting" => wait'[x] = "posting"
  BY <1>1 DEF TypeOK
<1>5. TypeOK'
  BY <1>2, <1>3, <1>4 DEF TypeOK
<1>6. /\ \A x \in Watch : Posting(x)' <=> Posting(x)
      /\ \A x \in Watch : Queued(x)' <=> Queued(x)
      /\ \A x \in Watch : Called(x)' <=> Called(x)
      /\ \A x \in Watch : ~Runs(x)' /\ ~Runs(x)
  <2>1. stopping.run = None /\ stopping'.run = None
    BY <1>1, <1>3 DEF Idle
  <2> QED
    BY <1>2, <1>4, <2>1 DEF Posting, Queued, Called, Runs, Has
<1>7. \A x \in Watch : Held(x)' <=> Held(x)
  BY <1>2, <1>6 DEF Held
<1>8. Paired' /\ WaitsForWatcher'
  BY <1>2, <1>4 DEF Paired, WaitsForWatcher
<1>9. HandedOver' /\ OneHolder'
  BY <1>2, <1>6, <1>7 DEF HandedOver, OneHolder, Once
<1>10. Stops'
  BY <1>1, <1>2, <1>3 DEF Stops
<1>11. Observes'
  BY <1>2 DEF Observes
<1>12. WatchesEvent'
  BY <1>1, <1>2, <1>3, Stopping DEF WatchesEvent
<1> QED
  BY <1>5, <1>8, <1>9, <1>10, <1>11, <1>12

\* The Watch at the head of the queue.
LEMMA NextQueued ==
  ASSUME TypeOK, IInv, WatchRun
  PROVE  /\ Head(queue) \in allocated /\ Head(queue) \in Watch
         /\ did_signal[Head(queue)] /\ wait[Head(queue)] = "none"
         /\ Queued(Head(queue)) /\ ~Called(Head(queue)) /\ Head(queue) \notin leaked
         /\ queue' \in Seq(Watch) /\ Once(queue')
         /\ \A x \in Watch : Queued(x)' <=> Queued(x) /\ x # Head(queue)
         /\ stopping = Idle /\ loop = "alive"
         /\ \A x \in Watch : ~Runs(x)
<1> USE ObjectWatcherAssumption DEF IInv
<1>1. queue # <<>> /\ queue \in Seq(Watch) /\ Once(queue) /\ queue' = Tail(queue)
  BY DEF WatchRun, TypeOK, OneHolder
<1>2. /\ Once(Tail(queue))
      /\ Has(queue, Head(queue)) /\ Head(queue) \in Watch /\ Tail(queue) \in Seq(Watch)
      /\ \A x : Has(Tail(queue), x) <=> Has(queue, x) /\ x # Head(queue)
  BY <1>1, HasTail
<1>3. /\ queue' \in Seq(Watch) /\ Once(queue')
      /\ \A x \in Watch : Queued(x)' <=> Queued(x) /\ x # Head(queue)
      /\ Queued(Head(queue))
  BY <1>1, <1>2 DEF Queued, Has
<1>4. stopping = Idle /\ loop = "alive" /\ stopping.run = None
  BY DEF WatchRun, InClientCode, Idle
<1>5. Head(queue) \in allocated /\ did_signal[Head(queue)]
  BY <1>2, <1>3 DEF HandedOver, Held
<1>6. ~Posting(Head(queue)) /\ ~Called(Head(queue)) /\ Head(queue) \notin leaked
  BY <1>2, <1>3 DEF OneHolder
<1>7. wait[Head(queue)] = "none"
  BY <1>2, <1>5, <1>6 DEF WaitsForWatcher, Posting
<1> QED
  BY <1>2, <1>3, <1>4, <1>5, <1>6, <1>7 DEF Runs

\* The loop deletes a Watch whose watcher stopped.
LEMMA WatchDroppedInv ==
  ASSUME TypeOK, IInv, WatchRun, watcher[Head(queue)] = None
  PROVE  TypeOK' /\ IInv'
<1> USE ObjectWatcherAssumption DEF IInv
<1>1. PICK x \in Watch : x = Head(queue)
  BY NextQueued
<1>2. /\ allocated' = allocated \ {x}
      /\ UNCHANGED <<stopping, wait, alive, watch_, event_, observers, watcher, object,
                     did_signal, loop, called, leaked, signaled, signals, starts>>
  BY <1>1 DEF WatchRun, eventVars
<1>3. /\ x \in allocated /\ did_signal[x] /\ wait[x] = "none" /\ watcher[x] = None
      /\ Queued(x) /\ ~Called(x) /\ x \notin leaked
      /\ queue' \in Seq(Watch) /\ Once(queue')
      /\ \A y \in Watch : Queued(y)' <=> Queued(y) /\ y # x
      /\ \A y \in Watch : ~Runs(y)
  BY <1>1, NextQueued
<1>4. TypeOK'
  BY <1>2, <1>3 DEF TypeOK
<1>5. /\ \A y \in Watch : Posting(y)' <=> Posting(y)
      /\ \A y \in Watch : Called(y)' <=> Called(y)
      /\ \A y \in Watch : Runs(y)' <=> Runs(y)
  BY <1>2 DEF Posting, Called, Runs, Has
<1>6. \A y \in Watch : Held(y)' <=> Held(y) /\ y # x
  BY <1>2, <1>3, <1>5 DEF Held, Posting
<1>7. Paired' /\ WaitsForWatcher'
  <2>1. \A w \in Watcher : watch_[w] # x
    BY <1>3 DEF Paired
  <2> QED
    BY <1>2, <1>3, <2>1 DEF Paired, WaitsForWatcher
<1>8. HandedOver' /\ OneHolder'
  <2>1. HandedOver'
    BY <1>2, <1>5, <1>6 DEF HandedOver
  <2>2. OneHolder'
    BY <1>2, <1>3, <1>5 DEF OneHolder, Once
  <2> QED
    BY <2>1, <2>2
<1>9. Stops' /\ Observes' /\ WatchesEvent'
  BY <1>2 DEF Stops, Observes, WatchesEvent, Idle
<1> QED
  BY <1>4, <1>7, <1>8, <1>9

\* The loop runs a Watch, which stops its watcher.
LEMMA WatchRunInv ==
  ASSUME TypeOK, IInv, WatchRun, watcher[Head(queue)] # None
  PROVE  TypeOK' /\ IInv'
<1> USE ObjectWatcherAssumption DEF IInv
<1>1. PICK x \in Watch : x = Head(queue)
  BY NextQueued
<1>2. /\ x \in allocated /\ did_signal[x] /\ wait[x] = "none"
      /\ Queued(x) /\ ~Called(x) /\ x \notin leaked
      /\ queue' \in Seq(Watch) /\ Once(queue')
      /\ \A y \in Watch : Queued(y)' <=> Queued(y) /\ y # x
      /\ stopping = Idle
      /\ \A y \in Watch : ~Runs(y)
  BY <1>1, NextQueued
<1>3. PICK w \in Watcher : w = watcher[x]
  BY <1>1 DEF TypeOK
<1>4. /\ stopping' = [who |-> w, for |-> "run", run |-> x]
      /\ wait' = [y \in Watch |->
                   IF y = watch_[w] /\ wait[y] = "registered" THEN "none" ELSE wait[y]]
      /\ UNCHANGED <<allocated, alive, watch_, event_, observers, watcher, object,
                     did_signal, loop, called, leaked, signaled, signals, starts>>
  BY <1>1, <1>3 DEF WatchRun, EnterStop, eventVars
<1>5. watch_[w] = x /\ w \in alive
  BY <1>1, <1>2, <1>3 DEF Paired
<1>6. /\ wait' \in [Watch -> {"none", "registered", "called", "posting"}]
      /\ \A y \in Watch : wait'[y] = wait[y]
  BY <1>2, <1>4, <1>5 DEF TypeOK
<1>7. /\ stopping'.who = w /\ stopping'.run = x /\ stopping'.for = "run" /\ stopping' # Idle
      /\ stopping' \in [who : Watcher, for : {"client", "destructor", "run", "loop"},
                        run : Watch \union {None}]
      /\ x # None
  BY <1>4 DEF Idle
<1>8. TypeOK'
  BY <1>2, <1>4, <1>6, <1>7 DEF TypeOK
<1>9. /\ \A y \in Watch : Posting(y)' <=> Posting(y)
      /\ \A y \in Watch : Called(y)' <=> Called(y)
      /\ \A y \in Watch : Runs(y)' <=> y = x
  BY <1>4, <1>6, <1>7 DEF Posting, Called, Runs, Has
<1>10. \A y \in Watch : Held(y)' <=> Held(y)
  BY <1>2, <1>4, <1>9 DEF Held
<1>11. Paired' /\ WaitsForWatcher'
  BY <1>4, <1>6 DEF Paired, WaitsForWatcher
<1>12. HandedOver' /\ OneHolder'
  <2>1. HandedOver'
    BY <1>4, <1>9, <1>10 DEF HandedOver
  <2>2. OneHolder'
    BY <1>2, <1>4, <1>9 DEF OneHolder, Once
  <2> QED
    BY <2>1, <2>2
<1>13. Stops'
  BY <1>4, <1>5, <1>7 DEF Stops
<1>14. Observes'
  BY <1>4 DEF Observes
<1>15. WatchesEvent'
  BY <1>2, <1>4, <1>7, Stopping DEF WatchesEvent
<1> QED
  BY <1>8, <1>11, <1>12, <1>13, <1>14, <1>15

\* StopWatching returns to a watcher that has no Watch.
LEMMA StoppedNothingInv ==
  ASSUME TypeOK, IInv, StopReturns, watch_[stopping.who] = None
  PROVE  TypeOK' /\ IInv'
<1> USE ObjectWatcherAssumption DEF IInv
<1>1. PICK w \in Watcher : w = stopping.who
  BY Stopping DEF StopReturns
<1>2. stopping # Idle /\ watch_[w] = None /\ stopping.for # "run" /\ stopping.run = None
  BY <1>1, Stopping DEF StopReturns, Stops
<1>3. /\ stopping' = Idle
      /\ watch_' = [watch_ EXCEPT ![w] = None]
      /\ watcher' = [y \in Watch |-> IF y = None THEN Told(y) ELSE watcher[y]]
      /\ allocated' = allocated
      /\ observers' = observers \ {w}
      /\ alive' = IF stopping.for = "destructor" THEN alive \ {w} ELSE alive
      /\ UNCHANGED <<event_, called, object, did_signal, wait, queue, loop, leaked,
                     signaled, signals, starts>>
  BY <1>1, <1>2 DEF StopReturns, DeletedByStop, eventVars
<1>4. /\ UNCHANGED <<watch_, watcher, observers>>
      /\ alive' \subseteq Watcher
      /\ \A v \in Watcher : watch_[v] # None /\ v \in alive => v \in alive'
  BY <1>2, <1>3 DEF TypeOK, Observes
<1>5. TypeOK'
  BY <1>3, <1>4 DEF TypeOK
<1>6. \A y \in Watch : /\ Posting(y)' <=> Posting(y)
                       /\ Queued(y)' <=> Queued(y)
                       /\ Called(y)' <=> Called(y)
                       /\ ~Runs(y)' /\ ~Runs(y)
  BY <1>2, <1>3 DEF Posting, Queued, Called, Runs, Has, Idle
<1>7. \A y \in Watch : Held(y)' <=> Held(y)
  BY <1>3, <1>6 DEF Held
<1>8. Paired' /\ WaitsForWatcher'
  BY <1>3, <1>4 DEF Paired, WaitsForWatcher
<1>9. HandedOver' /\ OneHolder'
  BY <1>3, <1>4, <1>6, <1>7 DEF HandedOver, OneHolder, Once
<1>10. Stops' /\ Observes'
  BY <1>3, <1>4 DEF Stops, Observes, Idle
<1>11. WatchesEvent'
  BY <1>1, <1>2, <1>3, <1>4 DEF WatchesEvent, Idle
<1> QED
  BY <1>5, <1>8, <1>9, <1>10, <1>11

\* StopWatching returns: the Watch is told, and deleted unless it was handed over;
\* if it was run, its delegate is called.
LEMMA StoppedWatchInv ==
  ASSUME TypeOK, IInv, StopReturns, watch_[stopping.who] # None
  PROVE  TypeOK' /\ IInv'
<1> USE ObjectWatcherAssumption DEF IInv
<1>1. PICK w \in Watcher : w = stopping.who
  BY Stopping DEF StopReturns
<1>2. PICK x \in Watch : x = watch_[w]
  BY <1>1 DEF TypeOK
<1>3. /\ stopping # Idle /\ x # None
      /\ x \in allocated /\ watcher[x] = w /\ wait[x] = "none"
      /\ stopping.for = "run" <=> stopping.run = x
      /\ stopping.for # "run" <=> stopping.run = None
  <2>1. stopping # Idle /\ Unregistered(x)
    BY <1>1, <1>2 DEF StopReturns
  <2>2. wait[x] = "none" /\ x # None
    BY <1>2, <2>1 DEF Unregistered
  <2> QED
    BY <1>1, <1>2, <2>1, <2>2 DEF Paired, Stops
<1>4. /\ stopping' = Idle
      /\ watch_' = [watch_ EXCEPT ![w] = None]
      /\ watcher' = [y \in Watch |-> IF y = x THEN None ELSE watcher[y]]
      /\ allocated' = IF did_signal[x] THEN allocated ELSE allocated \ {x}
      /\ observers' = observers \ {w}
      /\ alive' = IF stopping.for = "destructor" THEN alive \ {w} ELSE alive
      /\ event_' = IF stopping.for = "run" THEN [event_ EXCEPT ![w] = None] ELSE event_
      /\ called' = IF stopping.for = "run" THEN <<x>> \o called ELSE called
      /\ UNCHANGED <<object, did_signal, wait, queue, loop, leaked, signaled, signals, starts>>
  <2>1. DeletedByStop(x) = IF did_signal[x] THEN {} ELSE {x}
    BY <1>3 DEF DeletedByStop
  <2> QED
    BY <1>1, <1>2, <1>3, <2>1 DEF StopReturns, Told, eventVars
<1>5. /\ watch_'[w] = None /\ watcher'[x] = None
      /\ \A v \in Watcher : v # w => watch_'[v] = watch_[v] /\ watch_[v] # x
      /\ \A v \in Watcher : v # w => event_'[v] = event_[v] /\ (v \in alive => v \in alive')
      /\ \A y \in Watch : y # x => watcher'[y] = watcher[y]
      /\ \A y \in Watch : y # x => (y \in allocated' <=> y \in allocated)
      /\ watch_' \in [Watcher -> Watch \union {None}]
      /\ watcher' \in [Watch -> Watcher \union {None}]
      /\ event_' \in [Watcher -> Event \union {None}]
      /\ alive' \subseteq Watcher /\ observers' \subseteq Watcher /\ allocated' \subseteq Watch
  BY <1>2, <1>3, <1>4 DEF TypeOK, Paired
<1>6. ASSUME stopping.for = "run"
      PROVE  did_signal[x] /\ Runs(x) /\ ~Called(x) /\ x \in allocated'
  BY <1>3, <1>4, <1>6 DEF HandedOver, OneHolder, Held, Runs
<1>7. called \in Seq(Watch) /\ Once(called)
  BY DEF TypeOK, OneHolder
<1>8. /\ called' \in Seq(Watch) /\ Once(called)'
      /\ \A y \in Watch : Called(y)' <=> Called(y) \/ Runs(y)
  <2>1. CASE stopping.for = "run"
    <3>1. /\ <<x>> \o called \in Seq(Watch)
          /\ Once(<<x>> \o called)
          /\ \A y : Has(<<x>> \o called, y) <=> Has(called, y) \/ y = x
      BY <1>6, <1>7, <2>1, HasFront DEF Called
    <3> QED
      BY <1>3, <1>4, <2>1, <3>1 DEF Called, Runs, Has, Once
  <2>2. CASE stopping.for # "run"
    BY <1>3, <1>4, <1>7, <2>2 DEF Called, Runs, Has, Once
  <2> QED
    BY <2>1, <2>2
<1>9. TypeOK'
  BY <1>4, <1>5, <1>8 DEF TypeOK
<1>10. \A y \in Watch : /\ Posting(y)' <=> Posting(y)
                        /\ Queued(y)' <=> Queued(y)
                        /\ ~Runs(y)'
  BY <1>4 DEF Posting, Queued, Runs, Has, Idle
<1>11. \A y \in Watch : Held(y)' <=> Held(y)
  BY <1>4, <1>8, <1>10 DEF Held
<1>12. Paired'
  <2>1. ASSUME NEW v \in Watcher, watch_'[v] # None
        PROVE  watch_'[v] \in allocated' /\ v \in alive' /\ watcher'[watch_'[v]] = v
    BY <1>5, <2>1 DEF Paired, TypeOK
  <2>2. ASSUME NEW y \in allocated', watcher'[y] # None
        PROVE  watch_'[watcher'[y]] = y
    <3>1. y \in Watch /\ y # x /\ watcher'[y] = watcher[y] /\ y \in allocated
      BY <1>5, <2>2
    <3>2. watch_[watcher[y]] = y /\ watcher[y] # w /\ watcher[y] \in Watcher
      BY <1>2, <2>2, <3>1 DEF Paired, TypeOK
    <3> QED
      BY <1>5, <3>1, <3>2
  <2> QED
    BY <2>1, <2>2 DEF Paired
<1>13. WaitsForWatcher'
  BY <1>3, <1>4, <1>5 DEF WaitsForWatcher
<1>14. HandedOver'
  <2>1. \A y \in Watch : Held(y)' <=> y \in allocated' /\ did_signal'[y]
    BY <1>4, <1>5, <1>11 DEF HandedOver
  <2>2. \A y \in allocated' : did_signal'[y] \/ watcher'[y] # None
    BY <1>4, <1>5 DEF HandedOver
  <2>3. \A y \in Watch : Called(y)' => watcher'[y] = None
    BY <1>3, <1>5, <1>8 DEF HandedOver, Runs
  <2> QED
    BY <2>1, <2>2, <2>3 DEF HandedOver
<1>15. OneHolder'
  <2>1. Once(queue)'
    BY <1>4 DEF OneHolder, Once
  <2>2. UNCHANGED leaked
    BY <1>4
  <2> QED
    BY <1>8, <1>10, <2>1, <2>2 DEF OneHolder
<1>16. Stops'
  BY <1>4 DEF Stops, Idle
<1>17. Observes'
  BY <1>4, <1>5 DEF Observes
<1>18. WatchesEvent'
  BY <1>1, <1>4, <1>5 DEF WatchesEvent, Idle
<1> QED
  BY <1>9, <1>12, <1>13, <1>14, <1>15, <1>16, <1>17, <1>18

LEMMA DelegateReturnsInv ==
  ASSUME TypeOK, IInv, DelegateReturns
  PROVE  TypeOK' /\ IInv'
<1> USE ObjectWatcherAssumption DEF IInv
<1>1. called # <<>> /\ called \in Seq(Watch) /\ Once(called)
  BY DEF DelegateReturns, TypeOK, OneHolder
<1>2. /\ Once(Tail(called))
      /\ Has(called, Head(called)) /\ Head(called) \in Watch /\ Tail(called) \in Seq(Watch)
      /\ \A y : Has(Tail(called), y) <=> Has(called, y) /\ y # Head(called)
  BY <1>1, HasTail
<1>3. PICK x \in Watch : x = Head(called)
  BY <1>2
<1>4. /\ allocated' = allocated \ {x}
      /\ called' = Tail(called)
      /\ UNCHANGED <<watcher, object, did_signal, alive, watch_, event_, observers, stopping,
                     wait, queue, loop, leaked, signaled, signals, starts>>
  BY <1>3 DEF DelegateReturns, watcherVars, eventVars
<1>5. /\ called' \in Seq(Watch) /\ Once(called)'
      /\ \A y \in Watch : Called(y)' <=> Called(y) /\ y # x
      /\ Called(x)
  BY <1>2, <1>3, <1>4 DEF Called, Has, Once
<1>6. TypeOK'
  BY <1>4, <1>5 DEF TypeOK
<1>7. /\ ~Posting(x) /\ ~Queued(x) /\ ~Runs(x) /\ x \notin leaked
      /\ watcher[x] = None
  BY <1>5 DEF OneHolder, HandedOver
<1>8. \A y \in Watch : /\ Posting(y)' <=> Posting(y)
                       /\ Queued(y)' <=> Queued(y)
                       /\ Runs(y)' <=> Runs(y)
  BY <1>4 DEF Posting, Queued, Runs, Has
<1>9. \A y \in Watch : Held(y)' <=> Held(y) /\ y # x
  BY <1>4, <1>5, <1>7, <1>8 DEF Held
<1>10. Paired' /\ WaitsForWatcher'
  <2>1. \A w \in Watcher : watch_[w] # x
    BY <1>7 DEF Paired
  <2>2. wait[x] = "none"
    BY <1>7 DEF WaitsForWatcher
  <2>3. Paired'
    BY <1>4, <2>1 DEF Paired
  <2>4. WaitsForWatcher'
    BY <1>4, <2>2 DEF WaitsForWatcher
  <2> QED
    BY <2>3, <2>4
<1>11. HandedOver' /\ OneHolder'
  <2>1. HandedOver'
    BY <1>4, <1>5, <1>9 DEF HandedOver
  <2>2. OneHolder'
    BY <1>4, <1>5, <1>8 DEF OneHolder, Once
  <2> QED
    BY <2>1, <2>2
<1>12. Stops' /\ Observes' /\ WatchesEvent'
  BY <1>4 DEF Stops, Observes, WatchesEvent, Idle
<1> QED
  BY <1>6, <1>10, <1>11, <1>12

\* The loop drops its queue without deleting the Watches in it.
LEMMA LeakInv ==
  ASSUME TypeOK, IInv, DeletePendingTasks \/ DestroyMembers
  PROVE  TypeOK' /\ IInv'
<1> USE ObjectWatcherAssumption DEF IInv
<1>1. /\ queue' = <<>> /\ leaked' = leaked \union ToSet(queue)
      /\ loop' \in {"notifying", "gone"}
      /\ loop' = "gone" => observers = {}
      /\ UNCHANGED <<alive, watch_, event_, observers, stopping, watcher, object, did_signal,
                     allocated, wait, called, signaled, signals, starts>>
  BY DEF DeletePendingTasks, DestroyMembers, watcherVars, watchVars, eventVars
<1>2. /\ queue' \in Seq(Watch) /\ DOMAIN queue' = {}
      /\ ToSet(queue) \subseteq Watch
      /\ \A x \in Watch : x \in ToSet(queue) <=> Queued(x)
  <2>1. queue \in Seq(Watch)
    BY DEF TypeOK
  <2>2. \A n \in DOMAIN queue : queue[n] \in Watch
    BY <2>1, Positions
  <2> QED
    BY <1>1, <2>2, EmptySequence DEF ToSet, Queued, Has
<1>3. TypeOK'
  BY <1>1, <1>2 DEF TypeOK
<1>4. \A x \in Watch : /\ Posting(x)' <=> Posting(x)
                       /\ ~Queued(x)'
                       /\ Called(x)' <=> Called(x)
                       /\ Runs(x)' <=> Runs(x)
                       /\ x \in leaked' <=> x \in leaked \/ Queued(x)
  BY <1>1, <1>2 DEF Posting, Queued, Called, Runs, Has
<1>5. \A x \in Watch : Held(x)' <=> Held(x)
  BY <1>4 DEF Held
<1>6. Paired' /\ WaitsForWatcher' /\ Stops' /\ WatchesEvent'
  BY <1>1 DEF Paired, WaitsForWatcher, Stops, WatchesEvent, Idle
<1>7. HandedOver'
  BY <1>1, <1>4, <1>5 DEF HandedOver
<1>8. OneHolder'
  BY <1>1, <1>2, <1>4 DEF OneHolder, Once
<1>9. Observes'
  BY <1>1 DEF Observes
<1> QED
  BY <1>3, <1>6, <1>7, <1>8, <1>9

\* The system's wait thread.
LEMMA WaitThreadInv ==
  ASSUME TypeOK, IInv, NEW x \in Watch, Satisfied(x) \/ DoneWaiting(x) \/ PostTask(x)
  PROVE  TypeOK' /\ IInv'
<1> USE ObjectWatcherAssumption DEF IInv
<1>1. UNCHANGED <<alive, watch_, event_, observers, stopping, watcher, object, allocated,
                  loop, called, leaked, starts, signals>>
  BY DEF Satisfied, DoneWaiting, PostTask, watcherVars, watchVars, loopVars, eventVars
<1>2. wait[x] # "none" /\ x \in allocated /\ watcher[x] # None
  BY DEF Satisfied, DoneWaiting, PostTask, WaitsForWatcher
<1>3. Paired' /\ Stops' /\ Observes' /\ WatchesEvent'
  BY <1>1 DEF Paired, Stops, Observes, WatchesEvent, Idle
<1>4. \A y \in Watch : (Called(y)' <=> Called(y)) /\ (Runs(y)' <=> Runs(y))
  BY <1>1 DEF Called, Runs, Has
<1>5. CASE Satisfied(x)
  <2>1. /\ wait[x] = "registered"
        /\ wait' = [wait EXCEPT ![x] = "called"]
        /\ signaled' \subseteq Event
        /\ UNCHANGED <<did_signal, queue>>
    BY <1>5 DEF Satisfied, watchVars, loopVars, TypeOK
  <2>2. TypeOK' /\ WaitsForWatcher'
    BY <1>1, <1>2, <2>1 DEF TypeOK, WaitsForWatcher
  <2>3. \A y \in Watch : (Posting(y)' <=> Posting(y)) /\ (Queued(y)' <=> Queued(y))
    BY <2>1 DEF TypeOK, Posting, Queued, Has
  <2>4. \A y \in Watch : Held(y)' <=> Held(y)
    BY <1>1, <1>4, <2>3 DEF Held
  <2>5. HandedOver' /\ OneHolder'
    BY <1>1, <1>4, <2>1, <2>3, <2>4 DEF HandedOver, OneHolder, Once
  <2> QED
    BY <1>3, <2>2, <2>5
<1>6. CASE DoneWaiting(x)
  <2>1. /\ wait[x] = "called" /\ ~did_signal[x]
        /\ wait' = [wait EXCEPT ![x] = "posting"]
        /\ did_signal' = [did_signal EXCEPT ![x] = TRUE]
        /\ UNCHANGED <<queue, signaled>>
    BY <1>6 DEF DoneWaiting, loopVars, eventVars, WaitsForWatcher
  <2>2. /\ wait'[x] = "posting" /\ did_signal'[x]
        /\ \A y \in Watch : y # x => wait'[y] = wait[y] /\ did_signal'[y] = did_signal[y]
    BY <2>1 DEF TypeOK
  <2>3. TypeOK' /\ WaitsForWatcher'
    BY <1>1, <1>2, <2>1, <2>2 DEF TypeOK, WaitsForWatcher
  <2>4. ~Held(x)
    BY <2>1 DEF HandedOver
  <2>5. \A y \in Watch : /\ Posting(y)' <=> Posting(y) \/ y = x
                         /\ Queued(y)' <=> Queued(y)
    BY <2>1, <2>2 DEF Posting, Queued, Has
  <2>6. \A y \in Watch : Held(y)' <=> Held(y) \/ y = x
    BY <1>1, <1>4, <2>5 DEF Held
  <2>7. HandedOver'
    <3>1. \A y \in Watch : Held(y)' <=> y \in allocated' /\ did_signal'[y]
      BY <1>1, <1>2, <2>2, <2>6 DEF HandedOver
    <3>2. \A y \in allocated' : did_signal'[y] \/ watcher'[y] # None
      BY <1>1, <1>2, <2>2 DEF HandedOver, TypeOK
    <3>3. \A y \in Watch : Called(y)' => watcher'[y] = None
      BY <1>1, <1>4 DEF HandedOver
    <3> QED
      BY <3>1, <3>2, <3>3 DEF HandedOver
  <2>8. OneHolder'
    BY <1>1, <1>4, <2>1, <2>4, <2>5 DEF OneHolder, Once, Held
  <2> QED
    BY <1>3, <2>3, <2>7, <2>8
<1>7. CASE PostTask(x)
  <2>1. /\ wait[x] = "posting" /\ did_signal[x]
        /\ wait' = [wait EXCEPT ![x] = "none"]
        /\ queue' = Append(queue, x)
        /\ UNCHANGED <<did_signal, signaled>>
    BY <1>7 DEF PostTask, watchVars, eventVars, WaitsForWatcher
  <2>2. /\ wait'[x] = "none"
        /\ \A y \in Watch : y # x => wait'[y] = wait[y]
    BY <2>1 DEF TypeOK
  <2>3. Posting(x) /\ ~Queued(x) /\ queue \in Seq(Watch) /\ Once(queue)
    BY <2>1 DEF Posting, OneHolder, TypeOK
  <2>4. /\ Append(queue, x) \in Seq(Watch) /\ Once(Append(queue, x))
        /\ \A y : Has(Append(queue, x), y) <=> Has(queue, y) \/ y = x
    BY <2>3, HasAppend DEF Queued
  <2>5. TypeOK' /\ WaitsForWatcher'
    <3>1. TypeOK'
      BY <1>1, <2>1, <2>4 DEF TypeOK
    <3>2. WaitsForWatcher'
      BY <1>1, <2>1, <2>2 DEF WaitsForWatcher
    <3> QED
      BY <3>1, <3>2
  <2>6. \A y \in Watch : /\ Posting(y)' <=> Posting(y) /\ y # x
                         /\ Queued(y)' <=> Queued(y) \/ y = x
    BY <2>1, <2>2, <2>4 DEF Posting, Queued, Has
  <2>7. \A y \in Watch : Held(y)' <=> Held(y)
    BY <1>1, <1>4, <2>3, <2>6 DEF Held
  <2>8. HandedOver'
    BY <1>1, <1>4, <2>1, <2>7 DEF HandedOver
  <2>9. Once(queue)' /\ Once(called)'
    BY <1>1, <2>1, <2>4 DEF OneHolder, Once
  <2>10. OneHolder'
    BY <1>1, <1>4, <2>3, <2>6, <2>9 DEF OneHolder
  <2> QED
    BY <1>3, <2>5, <2>8, <2>10
<1> QED
  BY <1>5, <1>6, <1>7

LEMMA NextInv ==
  ASSUME TypeOK, IInv, [Next]_vars
  PROVE  TypeOK' /\ IInv'
<1>1. ASSUME NEW w \in Watcher, NEW e \in Event, StartWatching(w, e)
      PROVE  TypeOK' /\ IInv'
  BY <1>1, StartWatchingInv
<1>2. CASE \/ \E w \in Watcher, e \in Event : StartWatchingFails(w, e)
           \/ DestroyLoop
           \/ \E e \in Event : Signal(e) \/ Reset(e)
           \/ UNCHANGED vars
  BY <1>2, QuietInv
<1>3. CASE (\E w \in Watcher : StopWatching(w)) \/ WillDestroyCurrentMessageLoop
  BY <1>3, EnterStopInv
<1>4. CASE StopReturns
  BY <1>4, StoppedNothingInv, StoppedWatchInv
<1>5. CASE WatchRun
  BY <1>5, WatchDroppedInv, WatchRunInv
<1>6. CASE DelegateReturns
  BY <1>6, DelegateReturnsInv
<1>7. CASE DeletePendingTasks \/ DestroyMembers
  BY <1>7, LeakInv
<1>8. CASE WaitThread
  BY <1>8, WaitThreadInv DEF WaitThread
<1> QED
  BY <1>1, <1>2, <1>3, <1>4, <1>5, <1>6, <1>7, <1>8 DEF Next, LoopThread

LEMMA Inductive == Spec => [](TypeOK /\ IInv)
<1>1. Init => TypeOK /\ IInv
  BY InitInv
<1>2. TypeOK /\ IInv /\ [Next]_vars => (TypeOK /\ IInv)'
  BY NextInv
<1> QED
  BY <1>1, <1>2, PTL DEF Spec

-----------------------------------------------------------------------------
(* The properties *)

\* Every variable of the watchers, their loop and the wait thread keeps its type.
THEOREM TypeCorrect == Spec => []TypeOK
<1>1. TypeOK /\ IInv => TypeOK
  OBVIOUS
<1> QED
  BY <1>1, Inductive, PTL

\* The owners that WatchesAccounted speaks of.
LEMMA OwnersAre ==
  ASSUME TypeOK, NEW x \in Watch
  PROVE  \A o : o \in Owners(x) <=>
           \/ \E w \in Watcher : watch_[w] = x /\ ~did_signal[x] /\ o = <<"watcher", w>>
           \/ Posting(x) /\ o = <<"posting", x>>
           \/ \E n \in DOMAIN queue : queue[n] = x /\ o = <<"queue", n>>
           \/ \E n \in DOMAIN called : called[n] = x /\ o = <<"called", n>>
           \/ Runs(x) /\ o = <<"stopping", x>>
           \/ x \in leaked /\ o = <<"leaked", x>>
<1>1. \A o : o \in {<<"watcher", w>> : w \in {v \in Watcher : watch_[v] = x /\ ~did_signal[x]}}
        <=> \E w \in Watcher : watch_[w] = x /\ ~did_signal[x] /\ o = <<"watcher", w>>
  OBVIOUS
<1>2. \A o : o \in {<<"posting", y>> : y \in {z \in {x} : wait[z] = "posting"}}
        <=> Posting(x) /\ o = <<"posting", x>>
  BY DEF Posting
<1>3. \A o : o \in {<<"queue", n>> : n \in {k \in DOMAIN queue : queue[k] = x}}
        <=> \E n \in DOMAIN queue : queue[n] = x /\ o = <<"queue", n>>
  OBVIOUS
<1>4. \A o : o \in {<<"called", n>> : n \in {k \in DOMAIN called : called[k] = x}}
        <=> \E n \in DOMAIN called : called[n] = x /\ o = <<"called", n>>
  OBVIOUS
<1>5. \A o : o \in {<<"stopping", y>> : y \in {z \in {x} : stopping.run = z}}
        <=> Runs(x) /\ o = <<"stopping", x>>
  BY DEF Runs
<1>6. \A o : o \in {<<"leaked", y>> : y \in leaked \intersect {x}}
        <=> x \in leaked /\ o = <<"leaked", x>>
  OBVIOUS
<1> QED
  BY <1>1, <1>2, <1>3, <1>4, <1>5, <1>6, Zenon DEF Owners

LEMMA Accounted ==
  ASSUME TypeOK, IInv, NEW x \in Watch
  PROVE  /\ x \in allocated <=> Owners(x) # {}
         /\ \A o, p \in Owners(x) : o = p
<1> USE ObjectWatcherAssumption DEF IInv
<1>1. \A o : o \in Owners(x) <=>
        \/ \E w \in Watcher : watch_[w] = x /\ ~did_signal[x] /\ o = <<"watcher", w>>
        \/ Posting(x) /\ o = <<"posting", x>>
        \/ \E n \in DOMAIN queue : queue[n] = x /\ o = <<"queue", n>>
        \/ \E n \in DOMAIN called : called[n] = x /\ o = <<"called", n>>
        \/ Runs(x) /\ o = <<"stopping", x>>
        \/ x \in leaked /\ o = <<"leaked", x>>
  BY OwnersAre
<1>2. \A w, v \in Watcher : watch_[w] = x /\ watch_[v] = x => w = v
  BY DEF Paired
<1>3. \A w \in Watcher : watch_[w] = x => x \in allocated
  BY DEF Paired
<1>4. Held(x) <=> x \in allocated /\ did_signal[x]
  BY DEF HandedOver
<1>5. /\ Posting(x) => ~Queued(x) /\ ~Called(x) /\ ~Runs(x) /\ x \notin leaked
      /\ Queued(x) => ~Called(x) /\ ~Runs(x) /\ x \notin leaked
      /\ Called(x) => ~Runs(x) /\ x \notin leaked
      /\ Runs(x) => x \notin leaked
  BY DEF OneHolder
<1>6. /\ \A n, m \in DOMAIN queue : queue[n] = x /\ queue[m] = x => n = m
      /\ \A n, m \in DOMAIN called : called[n] = x /\ called[m] = x => n = m
  BY DEF OneHolder, Once
<1>7. /\ Queued(x) <=> \E n \in DOMAIN queue : queue[n] = x
      /\ Called(x) <=> \E n \in DOMAIN called : called[n] = x
  BY DEF Queued, Called, Has
<1>8. x \in allocated /\ ~did_signal[x] => \E w \in Watcher : watch_[w] = x
  BY DEF HandedOver, Paired, TypeOK
<1>9. x \in allocated <=> Owners(x) # {}
  <2>1. Owners(x) # {} <=> Held(x) \/ \E w \in Watcher : watch_[w] = x /\ ~did_signal[x]
    <3>1. ASSUME NEW o \in Owners(x)
          PROVE  Held(x) \/ \E w \in Watcher : watch_[w] = x /\ ~did_signal[x]
      BY <1>1, <1>7, Zenon DEF Held
    <3>2. ASSUME Held(x) PROVE Owners(x) # {}
      BY <1>1, <1>7, <3>2, Zenon DEF Held
    <3>3. ASSUME NEW w \in Watcher, watch_[w] = x, ~did_signal[x] PROVE Owners(x) # {}
      BY <1>1, <3>3, Zenon
    <3> QED
      BY <3>1, <3>2, <3>3
  <2> QED
    BY <1>3, <1>4, <1>8, <2>1
<1>10. ASSUME NEW o \in Owners(x), NEW p \in Owners(x) PROVE o = p
  <2>1. CASE ~did_signal[x]
    <3>1. ~Held(x)
      BY <1>4, <2>1
    <3>2. ~Posting(x) /\ ~Queued(x) /\ ~Called(x) /\ ~Runs(x) /\ x \notin leaked
      BY <3>1 DEF Held
    <3>3. \A q \in Owners(x) : \E w \in Watcher : watch_[w] = x /\ q = <<"watcher", w>>
      BY <1>1, <1>7, <3>2, Zenon
    <3> QED
      BY <1>2, <3>3
  <2>2. CASE did_signal[x]
    <3>1. CASE Posting(x)
      <4>1. \A q \in Owners(x) : q = <<"posting", x>>
        BY <1>1, <1>5, <1>7, <2>2, <3>1, Zenon
      <4> QED
        BY <4>1
    <3>2. CASE Queued(x)
      <4>1. \A q \in Owners(x) : \E n \in DOMAIN queue : queue[n] = x /\ q = <<"queue", n>>
        BY <1>1, <1>5, <1>7, <2>2, <3>2, Zenon
      <4> QED
        BY <1>6, <4>1
    <3>3. CASE Called(x)
      <4>1. \A q \in Owners(x) : \E n \in DOMAIN called : called[n] = x /\ q = <<"called", n>>
        BY <1>1, <1>5, <1>7, <2>2, <3>3, Zenon
      <4> QED
        BY <1>6, <4>1
    <3>4. CASE Runs(x)
      <4>1. \A q \in Owners(x) : q = <<"stopping", x>>
        BY <1>1, <1>5, <1>7, <2>2, <3>4, Zenon
      <4> QED
        BY <4>1
    <3>5. CASE x \in leaked
      <4>1. \A q \in Owners(x) : q = <<"leaked", x>>
        BY <1>1, <1>5, <1>7, <2>2, <3>5, Zenon
      <4> QED
        BY <4>1
    <3>6. Held(x)
      BY <1>4, <1>9, <2>2
    <3> QED
      BY <3>1, <3>2, <3>3, <3>4, <3>5, <3>6 DEF Held
  <2> QED
    BY <2>1, <2>2
<1> QED
  BY <1>9, <1>10

\* Of the threads that use a Watch exactly one deletes it: ObjectWatcher until
\* DoneWaiting has set did_signal, the loop from then on.
THEOREM EachWatchHasOneOwner == Spec => []WatchesAccounted
<1>1. ASSUME TypeOK, IInv PROVE WatchesAccounted
  <2> USE <1>1 DEF IInv
  <2>1. \A x \in Watch : wait[x] # "none" => x \in allocated /\ watcher[x] # None
    BY DEF WaitsForWatcher
  <2>2. \A x \in allocated : watcher[x] # None => watch_[watcher[x]] = x
    BY DEF Paired
  <2>3. \A w \in Watcher : watch_[w] # None => watch_[w] \in allocated /\ w \in alive
    BY DEF Paired
  <2>4. loop = "alive" => leaked = {}
    BY DEF Observes
  <2> QED
    BY <2>1, <2>2, <2>3, <2>4, Accounted DEF WatchesAccounted
<1> QED
  BY <1>1, Inductive, PTL

\* When the loop's destructor returns, WillDestroyCurrentMessageLoop has ended
\* every wait.
THEOREM LoopOutlivesWaits == Spec => []NoPostToDeadLoop
<1>1. ASSUME TypeOK, IInv PROVE NoPostToDeadLoop
  <2> USE <1>1, ObjectWatcherAssumption DEF IInv
  <2> SUFFICES ASSUME loop = "gone"
               PROVE  /\ \A x \in Watch : wait[x] = "none"
                      /\ \A w \in Watcher : watch_[w] = None
    BY DEF NoPostToDeadLoop
  <2>1. \A w \in Watcher : watch_[w] = None
    BY DEF Observes
  <2>2. ASSUME NEW x \in Watch, wait[x] # "none" PROVE FALSE
    <3>1. x \in allocated /\ watcher[x] # None /\ watcher[x] \in Watcher
      BY <2>2 DEF WaitsForWatcher, TypeOK
    <3>2. watch_[watcher[x]] = x
      BY <3>1 DEF Paired
    <3> QED
      BY <2>1, <3>1, <3>2
  <2> QED
    BY <2>1, <2>2
<1> QED
  BY <1>1, Inductive, PTL

\* Only StopWatching on behalf of Watch::Run calls a delegate.
LEMMA OnlyRunCalls ==
  ASSUME TypeOK, IInv, [Next]_vars, Len(called') > Len(called)
  PROVE  StopReturns /\ stopping.for = "run"
<1>1. called \in Seq(Watch) /\ Len(called) \in Nat
  BY LenProperties DEF TypeOK
<1>2. called' # called
  BY <1>1
<1>3. StopReturns \/ DelegateReturns
  BY <1>2 DEF Next, WaitThread, LoopThread, vars, loopVars,
              StartWatching, StartWatchingFails, StopWatching, DestroyLoop, WatchRun,
              DeletePendingTasks, WillDestroyCurrentMessageLoop, DestroyMembers,
              Satisfied, DoneWaiting, PostTask, Signal, Reset
<1>4. ~DelegateReturns
  <2>1. ASSUME DelegateReturns PROVE Len(called') = Len(called) - 1
    BY <1>1, <2>1, HeadTailProperties DEF DelegateReturns
  <2> QED
    BY <1>1, <2>1
<1>5. stopping.for # "run" => ~StopReturns
  BY <1>2 DEF StopReturns
<1> QED
  BY <1>3, <1>4, <1>5

\* OnWaitableEventSignaled is called for what its watcher watches and was
\* signaled, however Watches that were posted earlier are still in the queue.
THEOREM NotifiesTheWatched == Spec => NotifiesWatched
<1>1. ASSUME TypeOK, IInv, [Next]_vars, Len(called') > Len(called)
      PROVE  /\ stopping.who \in alive /\ watch_[stopping.who] = stopping.run
             /\ did_signal[stopping.run]
             /\ event_[stopping.who] = object[stopping.run]
  <2> USE <1>1, ObjectWatcherAssumption DEF IInv
  <2>1. stopping.for = "run" /\ stopping # Idle
    BY OnlyRunCalls, Stopping
  <2>2. /\ stopping.who \in alive /\ stopping.who \in Watcher
        /\ watch_[stopping.who] = stopping.run /\ stopping.run # None
        /\ stopping.run \in Watch
    BY <2>1, Stopping DEF Stops
  <2>3. did_signal[stopping.run]
    BY <2>2 DEF HandedOver, Held, Runs
  <2>4. event_[stopping.who] = object[stopping.run]
    BY <2>1, <2>2 DEF WatchesEvent
  <2> QED
    BY <2>2, <2>3, <2>4
<1>2. TypeOK /\ IInv /\ [Next]_vars =>
        [Len(called') > Len(called) =>
           LET w == stopping.who
               x == stopping.run IN
             /\ w \in alive /\ watch_[w] = x
             /\ did_signal[x] /\ event_[w] = object[x]]_vars
  BY <1>1
<1> QED
  BY <1>2, Inductive, PTL DEF Spec, NotifiesWatched

-----------------------------------------------------------------------------
(* No signal is lost, and StopWatching does not wait for one *)

\* StopWatching has ended the wait, or DoneWaiting is being called;
StopEndsWait ==
  \A w \in Watcher :
    watch_[w] # None /\ stopping.who = w => wait[watch_[w]] # "registered"

\* nobody but StopWatching ends a wait that was not satisfied.
OnlyStopEndsWait ==
  \A w \in Watcher :
    watch_[w] # None /\ stopping.who # w /\ wait[watch_[w]] = "none" => did_signal[watch_[w]]

WaitInv == StopEndsWait /\ OnlyStopEndsWait

\* The guard of StopReturns holds, or the wait thread is in DoneWaiting, where
\* it waits for nobody.
StopIsAwaited ==
  stopping # Idle =>
    \/ Unregistered(watch_[stopping.who])
    \/ wait[watch_[stopping.who]] \in {"called", "posting"}

\* As long as a watcher has a Watch, its event is waited for, or the Watch is on
\* its way to the loop, waits in its queue, or is being stopped; or the loop is
\* being destroyed and has discarded it.
NoSignalLost ==
  \A w \in Watcher : watch_[w] # None =>
    \/ wait[watch_[w]] \in {"registered", "called", "posting"}
    \/ Queued(watch_[w])
    \/ stopping.who = w
    \/ loop # "alive" /\ watch_[w] \in leaked

\* StopWatching is entered.
LEMMA EnterStopWaits ==
  ASSUME TypeOK, IInv, WaitInv, NEW w \in Watcher, NEW for, NEW run, stopping = Idle,
         EnterStop(w, for, run), UNCHANGED <<watch_, did_signal>>
  PROVE  WaitInv'
<1> USE ObjectWatcherAssumption DEF IInv
<1>1. /\ stopping'.who = w /\ stopping.who = None
      /\ wait' = [x \in Watch |->
                   IF x = watch_[w] /\ wait[x] = "registered" THEN "none" ELSE wait[x]]
  BY DEF EnterStop, Idle
<1>2. \A v \in Watcher : watch_[v] # None => watch_[v] \in Watch /\ watcher[watch_[v]] = v
  BY DEF Paired, TypeOK
<1>3. StopEndsWait'
  BY <1>1, <1>2 DEF StopEndsWait
<1>4. ASSUME NEW v \in Watcher, watch_[v] # None, v # w, wait'[watch_[v]] = "none"
      PROVE  did_signal[watch_[v]]
  <2>1. watch_[v] # watch_[w]
    BY <1>2, <1>4
  <2>2. wait[watch_[v]] = "none"
    BY <1>1, <1>2, <1>4, <2>1
  <2> QED
    BY <1>1, <1>4, <2>2 DEF WaitInv, OnlyStopEndsWait
<1> QED
  BY <1>1, <1>3, <1>4 DEF WaitInv, OnlyStopEndsWait

LEMMA WaitThreadWaits ==
  ASSUME TypeOK, IInv, WaitInv, NEW x \in Watch,
         Satisfied(x) \/ DoneWaiting(x) \/ PostTask(x)
  PROVE  WaitInv'
<1> USE ObjectWatcherAssumption DEF IInv, WaitInv
<1>1. /\ UNCHANGED <<watch_, stopping>>
      /\ \A y \in Watch : y # x => wait'[y] = wait[y] /\ did_signal'[y] = did_signal[y]
      /\ wait[x] # "none" /\ wait'[x] # "registered"
      /\ wait'[x] = "none" => did_signal'[x]
  <2>1. CASE Satisfied(x)
    BY <2>1 DEF Satisfied, watcherVars, watchVars, TypeOK
  <2>2. CASE DoneWaiting(x)
    BY <2>2 DEF DoneWaiting, watcherVars, TypeOK
  <2>3. CASE PostTask(x)
    BY <2>3 DEF PostTask, watcherVars, watchVars, TypeOK, WaitsForWatcher
  <2> QED
    BY <2>1, <2>2, <2>3
<1>2. \A v \in Watcher : watch_[v] # None => watch_[v] \in Watch
  BY DEF TypeOK
<1>3. StopEndsWait'
  BY <1>1, <1>2 DEF StopEndsWait
<1>4. OnlyStopEndsWait'
  BY <1>1, <1>2 DEF OnlyStopEndsWait
<1> QED
  BY <1>3, <1>4

LEMMA NextWaits ==
  ASSUME TypeOK, IInv, WaitInv, [Next]_vars
  PROVE  WaitInv'
<1> USE ObjectWatcherAssumption DEF IInv
<1>1. ASSUME NEW w \in Watcher, NEW e \in Event, StartWatching(w, e) PROVE WaitInv'
  <2>1. stopping = Idle /\ stopping' = Idle /\ watch_[w] = None
    BY <1>1 DEF StartWatching, InClientCode
  <2>2. PICK x \in Watch \ allocated :
          /\ did_signal' = [did_signal EXCEPT ![x] = FALSE]
          /\ wait' = [wait EXCEPT ![x] = "registered"]
          /\ watch_' = [watch_ EXCEPT ![w] = x]
    BY <1>1 DEF StartWatching
  <2>3. \A v \in Watcher : watch_[v] # None => watch_[v] \in Watch /\ watch_[v] # x
    BY <2>2 DEF Paired, TypeOK
  <2>4. \A v \in Watcher : stopping.who # v
    BY <2>1 DEF Idle
  <2>5. StopEndsWait'
    BY <2>1, <2>4 DEF StopEndsWait
  <2>6. ASSUME NEW v \in Watcher, watch_'[v] # None, wait'[watch_'[v]] = "none"
        PROVE  did_signal'[watch_'[v]]
    <3>1. v # w
      BY <2>2, <2>6 DEF TypeOK
    <3>2. watch_'[v] = watch_[v] /\ watch_[v] \in Watch /\ watch_[v] # x
      BY <2>2, <2>3, <2>6, <3>1 DEF TypeOK
    <3>3. wait[watch_[v]] = "none" /\ did_signal'[watch_[v]] = did_signal[watch_[v]]
      BY <2>2, <2>6, <3>2 DEF TypeOK
    <3> QED
      BY <2>4, <2>6, <3>2, <3>3 DEF WaitInv, OnlyStopEndsWait
  <2> QED
    BY <2>5, <2>6 DEF WaitInv, OnlyStopEndsWait
<1>2. ASSUME UNCHANGED <<watch_, wait, did_signal, stopping>> PROVE WaitInv'
  BY <1>2 DEF WaitInv, StopEndsWait, OnlyStopEndsWait
<1>3. CASE \/ \E w \in Watcher, e \in Event : StartWatchingFails(w, e)
           \/ DestroyLoop \/ DelegateReturns \/ DeletePendingTasks \/ DestroyMembers
           \/ \E e \in Event : Signal(e) \/ Reset(e)
           \/ UNCHANGED vars
  BY <1>2, <1>3 DEF StartWatchingFails, DestroyLoop, DelegateReturns, DeletePendingTasks,
        DestroyMembers, Signal, Reset, vars, watcherVars, watchVars
<1>4. ASSUME NEW w \in Watcher, StopWatching(w) PROVE WaitInv'
  <2>1. /\ stopping = Idle /\ UNCHANGED <<watch_, did_signal>>
        /\ EnterStop(w, "client", None) \/ EnterStop(w, "destructor", None)
    BY <1>4 DEF StopWatching, InClientCode, watchVars
  <2> QED
    BY <2>1, EnterStopWaits
<1>5. CASE WillDestroyCurrentMessageLoop
  <2>1. /\ stopping = Idle /\ UNCHANGED <<watch_, did_signal>>
        /\ \E w \in Watcher : EnterStop(w, "loop", None)
    BY <1>5 DEF WillDestroyCurrentMessageLoop, watchVars, TypeOK
  <2> QED
    BY <2>1, EnterStopWaits
<1>6. CASE WatchRun
  <2>1. PICK x \in Watch : x = Head(queue)
    BY <1>6, HeadTailProperties DEF WatchRun, TypeOK
  <2>2. stopping = Idle /\ UNCHANGED <<watch_, did_signal>>
    BY <1>6 DEF WatchRun, InClientCode
  <2>3. CASE watcher[x] = None
    <3>1. UNCHANGED <<stopping, wait>>
      BY <1>6, <2>1, <2>3 DEF WatchRun
    <3> QED
      BY <1>2, <2>2, <3>1
  <2>4. CASE watcher[x] # None
    <3>1. EnterStop(watcher[x], "run", x) /\ watcher[x] \in Watcher
      BY <1>6, <2>1, <2>4 DEF WatchRun, TypeOK
    <3> QED
      BY <2>2, <3>1, EnterStopWaits
  <2> QED
    BY <2>3, <2>4
<1>7. CASE StopReturns
  <2>1. /\ stopping' = Idle /\ UNCHANGED <<wait, did_signal>>
        /\ watch_' = [watch_ EXCEPT ![stopping.who] = None]
        /\ stopping.who \in Watcher
    BY <1>7, Stopping DEF StopReturns
  <2>2. /\ watch_'[stopping.who] = None
        /\ \A v \in Watcher : v # stopping.who => watch_'[v] = watch_[v]
        /\ \A v \in Watcher : stopping'.who # v
    BY <2>1 DEF TypeOK, Idle
  <2>3. StopEndsWait'
    BY <2>2 DEF StopEndsWait
  <2>4. OnlyStopEndsWait'
    BY <2>1, <2>2 DEF WaitInv, OnlyStopEndsWait
  <2> QED
    BY <2>3, <2>4 DEF WaitInv
<1>8. CASE WaitThread
  BY <1>8, WaitThreadWaits DEF WaitThread
<1> QED
  BY <1>1, <1>3, <1>4, <1>5, <1>6, <1>7, <1>8 DEF Next, LoopThread

LEMMA WaitInvariance == Spec => [](TypeOK /\ IInv /\ WaitInv)
<1>1. Init => WaitInv
  BY ObjectWatcherAssumption DEF Init, WaitInv, StopEndsWait, OnlyStopEndsWait
<1>2. TypeOK /\ IInv /\ WaitInv /\ [Next]_vars => WaitInv'
  BY NextWaits
<1> QED
  BY <1>1, <1>2, Inductive, PTL DEF Spec

\* The loop's thread never waits in StopWatching for an event to be signaled: it
\* waits for DoneWaiting alone, whose thread waits for nothing of the loop's.
THEOREM StopNeverStuck == Spec => []StopIsAwaited
<1>1. TypeOK /\ IInv /\ WaitInv => StopIsAwaited
  <2> SUFFICES ASSUME TypeOK, WaitInv, stopping # Idle, ~Unregistered(watch_[stopping.who])
               PROVE  wait[watch_[stopping.who]] \in {"called", "posting"}
    BY DEF StopIsAwaited
  <2>1. watch_[stopping.who] # None /\ wait[watch_[stopping.who]] # "none"
    BY DEF Unregistered
  <2>2. stopping.who \in Watcher /\ watch_[stopping.who] \in Watch
    BY <2>1, Stopping DEF TypeOK
  <2> QED
    BY <2>1, <2>2 DEF TypeOK, WaitInv, StopEndsWait
<1> QED
  BY <1>1, WaitInvariance, PTL

\* A signal is not lost between the system's wait, the post and the loop: a
\* watch that was signaled is on its way to its delegate until StopWatching ends
\* it, or the loop's destructor discards it.
THEOREM SignalsArrive == Spec => []NoSignalLost
<1>1. TypeOK /\ IInv /\ WaitInv => NoSignalLost
  <2> USE ObjectWatcherAssumption DEF IInv
  <2> SUFFICES ASSUME TypeOK, IInv, WaitInv, NEW w \in Watcher, watch_[w] # None,
                      wait[watch_[w]] \notin {"registered", "called", "posting"},
                      stopping.who # w
               PROVE  \/ Queued(watch_[w])
                      \/ loop # "alive" /\ watch_[w] \in leaked
    BY DEF NoSignalLost
  <2>1. PICK x \in Watch : x = watch_[w]
    BY DEF TypeOK
  <2>2. x # None /\ x \in allocated /\ watcher[x] = w /\ wait[x] = "none"
    BY <2>1 DEF Paired, TypeOK
  <2>3. did_signal[x]
    BY <2>1, <2>2 DEF WaitInv, OnlyStopEndsWait
  <2>4. Held(x) /\ ~Called(x) /\ ~Posting(x)
    BY <2>2, <2>3 DEF HandedOver, Posting
  <2>5. ~Runs(x)
    <3>1. stopping.run = x => watch_[stopping.who] = x /\ stopping.who \in Watcher
      BY <2>2, Stopping DEF Stops
    <3>2. stopping.run = x => stopping.who = w
      BY <2>2, <3>1 DEF Paired
    <3> QED
      BY <3>2 DEF Runs
  <2>6. Queued(x) \/ x \in leaked
    BY <2>4, <2>5 DEF Held
  <2> QED
    BY <2>1, <2>6 DEF Observes
<1> QED
  BY <1>1, WaitInvariance, PTL

=============================================================================
