-------------------- MODULE ObserverListThreadSafeProofs --------------------
(***************************************************************************)
(* Theorems about ObserverListThreadSafe and, for Vector, the instance of  *)
(* ObserverList with variables of its own, about the list it is built on.  *)
(* First what filling and emptying vectors and stacks does, then the       *)
(* invariant of one list, then that of the lists of many loops (ListsInv), *)
(* one lemma per action, and the theorems.                                 *)
(***************************************************************************)
EXTENDS ObserverListThreadSafe, FiniteSetTheorems, SequenceTheorems, TLAPS

-----------------------------------------------------------------------------
(* Taking elements out of a vector *)

KeptPlaces(q, gone) == {i \in DOMAIN q : q[i] \notin gone}
Rank(kept, i) == Cardinality({j \in kept : j <= i})
Filtered(q, gone) ==
  [n \in 1..Cardinality(KeptPlaces(q, gone)) |->
     q[CHOOSE i \in KeptPlaces(q, gone) : Rank(KeptPlaces(q, gone), i) = n]]

\* What is not in gone is there once.
OnlyOnce(q, gone) == \A i, j \in DOMAIN q : q[i] = q[j] /\ q[i] \notin gone => i = j

\* Every number up to the size of a set of numbers is the rank of one of them.
LEMMA RanksOccur ==
  ASSUME NEW m \in Nat, NEW K \in SUBSET (1..m)
  PROVE  /\ Cardinality(K) \in Nat
         /\ \A i \in K : Rank(K, i) \in 1..Cardinality(K)
         /\ \A i, j \in K : Rank(K, i) = Rank(K, j) => i = j
         /\ \A n \in 1..Cardinality(K) : \E i \in K : Rank(K, i) = n
<1>1. IsFiniteSet(K)
  <2>1. IsFiniteSet(1..m)
    BY FS_Interval
  <2> QED BY <2>1, FS_Subset
<1>2. PICK size \in Nat : size = Cardinality(K)
  BY <1>1, FS_CardinalityType
<1>3. ASSUME NEW i \in K PROVE Rank(K, i) \in 1..size
  <2>1. {j \in K : j <= i} \in SUBSET K /\ i \in {j \in K : j <= i}
    OBVIOUS
  <2>2. /\ IsFiniteSet({j \in K : j <= i})
        /\ Cardinality({j \in K : j <= i}) \in Nat
        /\ Cardinality({j \in K : j <= i}) <= size
        /\ Cardinality({j \in K : j <= i}) # 0
    BY <1>1, <1>2, <2>1, FS_Subset, FS_CardinalityType, FS_EmptySet
  <2> QED BY <2>2 DEF Rank
<1>4. ASSUME NEW i \in K, NEW j \in K, i < j PROVE Rank(K, i) # Rank(K, j)
  <2> DEFINE A == {k \in K : k <= i}
             B == {k \in K : k <= j}
  <2>1. A \in SUBSET B /\ A # B
    <3>1. \A k \in K : k <= i => k <= j
      BY <1>4
    <3>2. j \in B /\ j \notin A
      BY <1>4
    <3> QED BY <3>1, <3>2
  <2>2. IsFiniteSet(B)
    BY <1>1, FS_Subset
  <2> HIDE DEF A, B
  <2>3. Cardinality(A) # Cardinality(B)
    BY <2>1, <2>2, FS_Subset
  <2> QED BY <2>3 DEF Rank, A, B
<1>5. \A i, j \in K : Rank(K, i) = Rank(K, j) => i = j
  <2>1. \A i, j \in K : i < j \/ j < i \/ i = j
    OBVIOUS
  <2> QED BY <1>4, <2>1
<1>6. \A n \in 1..size : \E i \in K : Rank(K, i) = n
  <2> DEFINE f == [i \in K |-> Rank(K, i)]
  <2>1. f \in Injection(K, 1..size)
    <3>1. f \in [K -> 1..size]
      BY <1>3
    <3>2. \A i, j \in K : f[i] = f[j] => i = j
      BY <1>5
    <3> HIDE DEF f
    <3> QED BY <3>1, <3>2 DEF Injection, IsInjective
  <2>2. IsFiniteSet(1..size) /\ Cardinality(1..size) = size
    BY FS_Interval
  <2>3. f \in Surjection(K, 1..size)
    BY <1>2, <2>1, <2>2, FS_Injection
  <2>4. \A n \in 1..size : \E i \in K : f[i] = n
    BY <2>3 DEF Surjection
  <2> QED BY <2>4
<1> QED BY <1>2, <1>3, <1>5, <1>6

\* The rest keeps its order; what is used of it is that nothing else is lost
\* and nothing comes twice.
LEMMA FilteredKeeps ==
  ASSUME NEW S, NEW q \in Seq(S), NEW gone, NEW w, w = Filtered(q, gone)
  PROVE  /\ w \in Seq(S)
         /\ Range(w) = Range(q) \ gone
         /\ OnlyOnce(q, gone) => OnlyOnce(w, {})
<1>1. PICK m \in Nat : m = Len(q)
  OBVIOUS
<1>2. PICK K \in SUBSET (1..m) : K = KeptPlaces(q, gone)
  <2>1. DOMAIN q = 1..m
    BY <1>1
  <2>2. KeptPlaces(q, gone) \in SUBSET (1..m)
    BY <2>1 DEF KeptPlaces
  <2> QED BY <2>2
<1>3. PICK size \in Nat : size = Cardinality(K)
  BY <1>1, RanksOccur
<1>4. w = [n \in 1..size |-> q[CHOOSE i \in K : Rank(K, i) = n]]
  BY <1>2, <1>3 DEF Filtered
<1>5. ASSUME NEW n \in 1..size
      PROVE  \E i \in K : Rank(K, i) = n /\ w[n] = q[i]
  <2>1. \E i \in K : Rank(K, i) = n
    BY <1>3, RanksOccur
  <2>2. PICK i : i = CHOOSE k \in K : Rank(K, k) = n
    OBVIOUS
  <2>3. i \in K /\ Rank(K, i) = n
    BY <2>1, <2>2
  <2>4. w[n] = q[i]
    BY <1>4, <2>2
  <2> QED BY <2>3, <2>4
<1>6. \A i \in K : i \in DOMAIN q /\ q[i] \in S /\ q[i] \notin gone
  BY <1>1, <1>2 DEF KeptPlaces
<1>7. w \in Seq(S) /\ DOMAIN w = 1..size
  <2>1. \A n \in 1..size : w[n] \in S
    BY <1>5, <1>6
  <2>2. w \in [1..size -> S]
    BY <1>4, <2>1
  <2> QED BY <2>2
<1>8. OnlyOnce(q, gone) => OnlyOnce(w, {})
  BY <1>5, <1>6, <1>7 DEF OnlyOnce
<1>9. Range(w) = Range(q) \ gone
  <2>1. \A x \in Range(w) : x \in Range(q) \ gone
    BY <1>5, <1>6, <1>7 DEF Range
  <2>2. ASSUME NEW x \in Range(q) \ gone PROVE x \in Range(w)
    <3>1. PICK k \in DOMAIN q : q[k] = x
      BY DEF Range
    <3>2. k \in K
      BY <1>2, <2>2, <3>1 DEF KeptPlaces
    <3>3. Rank(K, k) \in 1..size
      BY <1>3, <3>2, RanksOccur
    <3>4. PICK i \in K : Rank(K, i) = Rank(K, k) /\ w[Rank(K, k)] = q[i]
      BY <1>5, <3>3
    <3>5. i = k
      BY <1>1, <3>2, <3>4, RanksOccur
    <3> QED BY <1>7, <3>1, <3>3, <3>4, <3>5 DEF Range
  <2> QED BY <2>1, <2>2
<1> QED BY <1>7, <1>8, <1>9

-----------------------------------------------------------------------------
(* One list: ObserverList *)

VARIABLES notify_all, alive, observers, notify_depth, iterators, in_list, to_call

Vector == INSTANCE ObserverList WITH registered <- in_list, owed <- to_call

USE ListsAssumption

\* Each iteration has the elements it may still find before it.
Within ==
  /\ Len(to_call) = Len(iterators)
  /\ alive => \A k \in DOMAIN iterators :
       iterators[k].index <= Len(observers) /\ iterators[k].max <= Len(observers)

\* They are what it owes a call.
OwesWhatIsAhead ==
  /\ alive => \A k \in DOMAIN iterators, obs \in Observer :
       obs \in to_call[k] <=>
         \E i \in DOMAIN observers :
           /\ observers[i] = obs
           /\ iterators[k].index < i
           /\ notify_all \/ i <= iterators[k].max
  /\ ~alive => \A k \in DOMAIN to_call : to_call[k] = {}

VectorInv == Vector!ListAccounted /\ Within /\ OwesWhatIsAhead

\* The elements ahead of an iterator that is within the vector.
LEMMA AheadIs ==
  ASSUME VectorInv, alive, NEW k \in DOMAIN iterators
  PROVE  \A i : i \in Vector!Ahead(iterators[k]) <=>
           /\ i \in DOMAIN observers
           /\ iterators[k].index < i
           /\ notify_all \/ i <= iterators[k].max
           /\ observers[i] # NULL
<1>1. observers \in Seq(Observer \union {NULL}) /\ iterators \in Seq(Vector!Iterator)
  BY DEF VectorInv, Vector!ListAccounted, Vector!TypeOK
<1>2. DOMAIN observers = 1..Len(observers) /\ Len(observers) \in Nat
  BY <1>1
<1>3. iterators[k].max \in Nat /\ iterators[k].index \in Nat
  <2>1. iterators[k] \in Vector!Iterator
    BY <1>1
  <2> QED BY <2>1 DEF Vector!Iterator
<1>4. iterators[k].max <= Len(observers)
  BY DEF VectorInv, Within
<1>5. PICK n \in Nat : n = Len(observers)
  BY <1>2
<1>6. PICK m \in Nat : m = iterators[k].max
  BY <1>3
<1>7. ASSUME NEW i \in 1..n PROVE i <= Vector!MaxIndex(iterators[k]) <=> notify_all \/ i <= m
  BY <1>4, <1>5, <1>6 DEF Vector!MaxIndex
<1> QED BY <1>2, <1>5, <1>6, <1>7 DEF Vector!Ahead

LEMMA VectorInitially == Vector!Init => VectorInv
<1> SUFFICES ASSUME Vector!Init PROVE VectorInv
  OBVIOUS
<1>1. <<>> \in Seq(Observer \union {NULL}) /\ <<>> \in Seq(Vector!Iterator)
        /\ <<>> \in Seq(SUBSET Observer)
  OBVIOUS
<1>2. observers = <<>> /\ iterators = <<>> /\ to_call = <<>>
  BY DEF Vector!Init
<1>3. Vector!Range(observers) = {}
  BY <1>2 DEF Vector!Range
<1>4. Vector!ListAccounted
  BY <1>1, <1>2, <1>3 DEF Vector!Init, Vector!ListAccounted, Vector!TypeOK
<1> QED BY <1>2, <1>4 DEF Vector!Init, VectorInv, Within, OwesWhatIsAhead

\* What the types say about the variables.
LEMMA VectorTyped ==
  ASSUME VectorInv
  PROVE  /\ observers \in Seq(Observer \union {NULL})
         /\ Len(observers) \in Nat /\ DOMAIN observers = 1..Len(observers)
         /\ iterators \in Seq(Vector!Iterator)
         /\ Len(iterators) \in Nat /\ DOMAIN iterators = 1..Len(iterators)
         /\ to_call \in Seq(SUBSET Observer)
         /\ DOMAIN to_call = DOMAIN iterators /\ Len(to_call) = Len(iterators)
         /\ \A k \in DOMAIN iterators :
              /\ iterators[k] \in Vector!Iterator
              /\ iterators[k].index \in Nat /\ iterators[k].max \in Nat
              /\ to_call[k] \in SUBSET Observer
<1>1. /\ observers \in Seq(Observer \union {NULL})
      /\ iterators \in Seq(Vector!Iterator)
      /\ to_call \in Seq(SUBSET Observer)
      /\ Len(to_call) = Len(iterators)
  BY DEF VectorInv, Vector!ListAccounted, Vector!TypeOK, Within
<1>2. DOMAIN to_call = 1..Len(to_call) /\ DOMAIN iterators = 1..Len(iterators)
        /\ Len(iterators) \in Nat
  BY <1>1
<1>3. \A k \in DOMAIN iterators : iterators[k] \in Vector!Iterator /\ to_call[k] \in SUBSET Observer
  BY <1>1, <1>2
<1> QED BY <1>1, <1>2, <1>3 DEF Vector!Iterator

LEMMA VectorAdd ==
  ASSUME VectorInv, NEW obs \in Observer, Vector!AddObserver(obs)
  PROVE  VectorInv'
<1>1. PICK n \in Nat : n = Len(observers)
  BY VectorTyped
<1>2. /\ observers \in Seq(Observer \union {NULL}) /\ DOMAIN observers = 1..n
      /\ observers' = Append(observers, obs)
      /\ \A i \in 1..n : observers[i] # obs
  BY <1>1, VectorTyped DEF Vector!AddObserver, Vector!Range
<1>3. /\ observers' \in Seq(Observer \union {NULL})
      /\ Len(observers') = n + 1 /\ DOMAIN observers' = 1..(n + 1)
      /\ \A i \in 1..n : observers'[i] = observers[i]
      /\ observers'[n + 1] = obs
  BY <1>1, <1>2
<1>4. /\ \A i \in 1..n : i \in 1..(n + 1) /\ i # n + 1
      /\ \A i \in 1..(n + 1) : i \in 1..n \/ i = n + 1
      /\ n + 1 \in 1..(n + 1)
  OBVIOUS
<1>5. /\ alive /\ UNCHANGED <<notify_all, alive, notify_depth, iterators>>
      /\ in_list' = in_list \union {obs}
      /\ to_call' = [k \in DOMAIN to_call |->
                       IF notify_all THEN to_call[k] \union {obs} ELSE to_call[k]]
  BY DEF Vector!AddObserver
<1>6. to_call' \in Seq(SUBSET Observer) /\ Len(to_call') = Len(iterators)
        /\ DOMAIN to_call' = DOMAIN iterators
  BY <1>5, VectorTyped
<1>7. obs # NULL
  OBVIOUS
<1>8. Vector!ListAccounted'
  <2>1. Vector!Range(observers') = Vector!Range(observers) \union {obs}
    BY <1>2, <1>3, <1>4 DEF Vector!Range
  <2>2. Vector!TypeOK'
    BY <1>3, <1>5, <1>6 DEF VectorInv, Vector!ListAccounted, Vector!TypeOK
  <2>3. \A i, j \in DOMAIN observers' :
          observers'[i] = observers'[j] /\ observers'[i] # NULL => i = j
    <3>1. \A i, j \in 1..n : observers[i] = observers[j] /\ observers[i] # NULL => i = j
      BY <1>2, <1>5 DEF VectorInv, Vector!ListAccounted
    <3> QED BY <1>2, <1>3, <1>4, <3>1
  <2> QED BY <1>5, <1>7, <2>1, <2>2, <2>3 DEF VectorInv, Vector!ListAccounted
<1>9. Within'
  <2>1. \A k \in DOMAIN iterators :
          iterators[k].index <= n + 1 /\ iterators[k].max <= n + 1
    BY <1>1, <1>5, VectorTyped DEF VectorInv, Within
  <2> QED BY <1>3, <1>5, <1>6, <2>1 DEF Within
<1>10. OwesWhatIsAhead'
  <2> SUFFICES ASSUME NEW k \in DOMAIN iterators, NEW o \in Observer
               PROVE  o \in to_call'[k] <=>
                        \E i \in 1..(n + 1) :
                          /\ observers'[i] = o
                          /\ iterators[k].index < i
                          /\ notify_all \/ i <= iterators[k].max
    BY <1>3, <1>5 DEF OwesWhatIsAhead
  <2>1. PICK index \in Nat : index = iterators[k].index
    BY VectorTyped
  <2>2. PICK max \in Nat : max = iterators[k].max
    BY VectorTyped
  <2>3. index <= n /\ max <= n
    BY <1>1, <1>5, <2>1, <2>2 DEF VectorInv, Within
  <2>4. o \in to_call[k] <=>
          \E i \in 1..n : observers[i] = o /\ index < i /\ (notify_all \/ i <= max)
    BY <1>2, <1>5, <2>1, <2>2 DEF VectorInv, OwesWhatIsAhead
  <2>5. o \in to_call'[k] <=> o \in to_call[k] \/ (notify_all /\ o = obs)
    BY <1>5, VectorTyped
  <2>6. (\E i \in 1..(n + 1) : observers'[i] = o /\ index < i /\ (notify_all \/ i <= max))
          <=> \/ \E i \in 1..n : observers[i] = o /\ index < i /\ (notify_all \/ i <= max)
              \/ o = obs /\ notify_all
    <3>1. index < n + 1 /\ ~(n + 1 <= max)
      BY <2>3
    <3> QED BY <1>3, <1>4, <3>1
  <2> QED BY <2>1, <2>2, <2>4, <2>5, <2>6
<1> QED BY <1>8, <1>9, <1>10 DEF VectorInv

\* Observers are taken out, leaving holes or, while nothing iterates, none.
LEMMA VectorTakeOut ==
  ASSUME VectorInv, alive, NEW gone \in SUBSET Observer,
         observers' = Vector!Erased(gone), in_list' = in_list \ gone,
         to_call' = [k \in DOMAIN to_call |-> to_call[k] \ gone],
         UNCHANGED <<notify_all, alive, notify_depth, iterators>>
  PROVE  VectorInv'
<1>1. PICK n \in Nat : n = Len(observers)
  BY VectorTyped
<1>2. /\ observers \in Seq(Observer \union {NULL}) /\ DOMAIN observers = 1..n
      /\ \A i, j \in DOMAIN observers :
            observers[i] = observers[j] /\ observers[i] # NULL => i = j
      /\ notify_depth = Len(iterators) /\ notify_depth \in Nat
  BY <1>1, VectorTyped DEF VectorInv, Vector!ListAccounted, Vector!TypeOK
<1>3. to_call' \in Seq(SUBSET Observer) /\ Len(to_call') = Len(iterators)
        /\ DOMAIN to_call' = DOMAIN iterators
  BY VectorTyped
<1>4. NULL \notin gone
  OBVIOUS
<1>5. CASE notify_depth > 0
  <2>1. observers' = [i \in 1..n |-> IF observers[i] \in gone THEN NULL ELSE observers[i]]
    BY <1>2, <1>5 DEF Vector!Erased, Vector!Punched
  <2>2. \A i \in 1..n : observers[i] \in Observer \union {NULL}
    BY <1>1, <1>2
  <2>3. /\ observers' \in Seq(Observer \union {NULL})
        /\ Len(observers') = n /\ DOMAIN observers' = 1..n
    <3>1. observers' \in [1..n -> Observer \union {NULL}]
      BY <2>1, <2>2
    <3> QED BY <3>1
  <2>4. \A i \in 1..n, o \in Observer :
          observers'[i] = o <=> observers[i] = o /\ o \notin gone
    BY <1>4, <2>1
  <2>5. Vector!Range(observers') \ {NULL} = (Vector!Range(observers) \ {NULL}) \ gone
    <3>1. \A o \in Observer :
            o \in Vector!Range(observers') <=> o \in Vector!Range(observers) /\ o \notin gone
      BY <1>2, <2>3, <2>4 DEF Vector!Range
    <3>2. Vector!Range(observers') \subseteq Observer \union {NULL}
            /\ Vector!Range(observers) \subseteq Observer \union {NULL}
      BY <1>2, <2>1, <2>2, <2>3 DEF Vector!Range
    <3> QED BY <1>4, <3>1, <3>2
  <2>6. \A i, j \in DOMAIN observers' :
          observers'[i] = observers'[j] /\ observers'[i] # NULL => i = j
    BY <1>2, <2>1, <2>2, <2>3
  <2>7. Vector!TypeOK'
    BY <1>3, <2>3 DEF VectorInv, Vector!ListAccounted, Vector!TypeOK
  <2>8. Vector!ListAccounted'
    BY <1>2, <1>5, <2>5, <2>6, <2>7 DEF VectorInv, Vector!ListAccounted
  <2>9. Within'
    BY <1>1, <1>3, <2>3 DEF VectorInv, Within
  <2>10. OwesWhatIsAhead'
    <3> SUFFICES ASSUME NEW k \in DOMAIN iterators, NEW o \in Observer
                 PROVE  o \in to_call'[k] <=>
                          \E i \in 1..n :
                            /\ observers'[i] = o
                            /\ iterators[k].index < i
                            /\ notify_all \/ i <= iterators[k].max
      BY <2>3 DEF OwesWhatIsAhead
    <3>1. o \in to_call[k] <=>
            \E i \in 1..n :
              /\ observers[i] = o
              /\ iterators[k].index < i
              /\ notify_all \/ i <= iterators[k].max
      BY <1>2 DEF VectorInv, OwesWhatIsAhead
    <3>2. o \in to_call'[k] <=> o \in to_call[k] /\ o \notin gone
      BY VectorTyped
    <3> QED BY <2>4, <3>1, <3>2
  <2> QED BY <2>8, <2>9, <2>10 DEF VectorInv
<1>6. CASE ~(notify_depth > 0)
  <2>1. notify_depth = 0 /\ iterators = <<>>
    <3>1. notify_depth = 0 /\ Len(iterators) = 0
      BY <1>2, <1>6
    <3> QED BY <3>1, VectorTyped
  <2>2. observers' = Filtered(observers, gone)
    BY <1>6
       DEF Vector!Erased, Vector!Without, Vector!Cardinality, Cardinality, Filtered,
           KeptPlaces, Rank
  <2>3. /\ observers' \in Seq(Observer \union {NULL})
        /\ Range(observers') = Range(observers) \ gone
        /\ OnlyOnce(observers, gone) => OnlyOnce(observers', {})
    BY <1>2, <2>2, FilteredKeeps
  <2>4. Vector!Range(observers') = Vector!Range(observers) \ gone
    BY <2>3 DEF Range, Vector!Range
  <2>5. NULL \notin Vector!Range(observers)
    BY <2>1 DEF VectorInv, Vector!ListAccounted
  <2>6. \A i, j \in DOMAIN observers : observers[i] = observers[j] => i = j
    BY <1>2, <2>5 DEF Vector!Range
  <2>7. Vector!TypeOK'
    BY <1>3, <2>3 DEF VectorInv, Vector!ListAccounted, Vector!TypeOK
  <2>8. Vector!ListAccounted'
    BY <1>2, <2>3, <2>4, <2>5, <2>6, <2>7 DEF OnlyOnce, VectorInv, Vector!ListAccounted
  <2>9. Within' /\ OwesWhatIsAhead'
    BY <1>3, <2>1 DEF Within, OwesWhatIsAhead
  <2> QED BY <2>8, <2>9 DEF VectorInv
<1> QED BY <1>5, <1>6

LEMMA VectorDestroy ==
  ASSUME VectorInv, Vector!Destroy
  PROVE  VectorInv'
<1>1. <<>> \in Seq(Observer \union {NULL})
  OBVIOUS
<1>2. /\ observers' = <<>> /\ alive' = FALSE /\ notify_depth' = 0 /\ in_list' = {}
      /\ to_call' = [k \in DOMAIN to_call |-> {}]
      /\ UNCHANGED <<notify_all, iterators>>
  BY DEF Vector!Destroy
<1>3. to_call' \in Seq(SUBSET Observer) /\ Len(to_call') = Len(iterators)
        /\ \A k \in DOMAIN to_call' : to_call'[k] = {}
  BY <1>2, VectorTyped
<1>4. Vector!ListAccounted'
  BY <1>1, <1>2, <1>3 DEF VectorInv, Vector!ListAccounted, Vector!TypeOK
<1> QED BY <1>2, <1>3, <1>4 DEF VectorInv, Within, OwesWhatIsAhead

\* An iterator is pushed in front of the others.
LEMMA Pushed ==
  ASSUME NEW S, NEW q \in Seq(S), NEW x \in S, NEW p, p = <<x>> \o q
  PROVE  /\ p \in Seq(S) /\ Len(p) = Len(q) + 1
         /\ DOMAIN p = 1..(Len(q) + 1)
         /\ p[1] = x
         /\ \A k \in 1..Len(q) : p[k + 1] = q[k]
         /\ \A k \in DOMAIN p : k = 1 \/ (k - 1 \in DOMAIN q /\ p[k] = q[k - 1])
         /\ p # <<>> /\ Head(p) = x /\ Tail(p) = q
<1>1. PICK n \in Nat : n = Len(q)
  OBVIOUS
<1>2. p \in Seq(S) /\ Len(p) = n + 1 /\ p[1] = x
  BY <1>1
<1>3. \A k \in 2..(n + 1) : p[k] = q[k - 1]
  BY <1>1
<1>4. \A k \in 1..n : k + 1 \in 2..(n + 1) /\ (k + 1) - 1 = k
  OBVIOUS
<1>5. \A k \in 1..(n + 1) : k = 1 \/ (k \in 2..(n + 1) /\ k - 1 \in 1..n)
  OBVIOUS
<1>6. p # <<>> /\ Head(p) = x /\ Tail(p) = q
  BY <1>1, <1>2, <1>3, <1>4
<1> QED BY <1>1, <1>2, <1>3, <1>4, <1>5, <1>6

LEMMA Popped ==
  ASSUME NEW S, NEW q \in Seq(S), q # <<>>
  PROVE  /\ Tail(q) \in Seq(S)
         /\ Len(q) \in Nat /\ Len(q) >= 1 /\ Len(Tail(q)) = Len(q) - 1
         /\ 1 \in DOMAIN q /\ Head(q) = q[1] /\ Head(q) \in S
         /\ \A k \in DOMAIN Tail(q) : k + 1 \in DOMAIN q /\ k + 1 # 1 /\ Tail(q)[k] = q[k + 1]
         /\ \A k \in DOMAIN q : k = 1 \/ (k - 1 \in DOMAIN Tail(q) /\ Tail(q)[k - 1] = q[k])
<1>1. PICK n \in Nat : n = Len(q)
  OBVIOUS
<1>2. n >= 1 /\ Tail(q) \in Seq(S) /\ Len(Tail(q)) = n - 1 /\ Head(q) = q[1]
  BY <1>1
<1>3. \A k \in 1..(n - 1) : Tail(q)[k] = q[k + 1]
  BY <1>1
<1>4. \A k \in 1..(n - 1) : k + 1 \in 1..n /\ k + 1 # 1
  OBVIOUS
<1>5. \A k \in 1..n : k = 1 \/ (k - 1 \in 1..(n - 1) /\ (k - 1) + 1 = k)
  OBVIOUS
<1>6. 1 \in 1..n /\ DOMAIN q = 1..n /\ DOMAIN Tail(q) = 1..(n - 1)
  BY <1>1, <1>2
<1> QED BY <1>1, <1>2, <1>3, <1>4, <1>5, <1>6

LEMMA VectorBegin ==
  ASSUME VectorInv, Vector!BeginIteration
  PROVE  VectorInv'
<1>1. PICK n \in Nat : n = Len(observers)
  BY VectorTyped
<1>2. PICK d \in Nat : d = Len(iterators)
  BY VectorTyped
<1>3. PICK it : it = [index |-> 0, max |-> n, calling |-> NULL]
  OBVIOUS
<1>4. it \in Vector!Iterator /\ it.index = 0 /\ it.max = n
  BY <1>3 DEF Vector!Iterator
<1>5. /\ alive /\ UNCHANGED <<notify_all, alive, observers, in_list>>
      /\ notify_depth' = notify_depth + 1
      /\ iterators' = <<it>> \o iterators /\ to_call' = <<in_list>> \o to_call
  BY <1>1, <1>3 DEF Vector!BeginIteration
<1>6. in_list \in SUBSET Observer /\ notify_depth = d /\ DOMAIN observers = 1..n
        /\ iterators \in Seq(Vector!Iterator) /\ to_call \in Seq(SUBSET Observer)
        /\ Len(to_call) = d
  BY <1>1, <1>2, <1>5, VectorTyped DEF VectorInv, Vector!ListAccounted, Vector!TypeOK
<1>7. /\ iterators' \in Seq(Vector!Iterator)
      /\ Len(iterators') = d + 1 /\ DOMAIN iterators' = 1..(d + 1)
      /\ iterators'[1] = it
      /\ \A k \in 1..(d + 1) : k = 1 \/ (k - 1 \in DOMAIN iterators /\ iterators'[k] = iterators[k - 1])
  BY <1>2, <1>4, <1>5, <1>6, Pushed
<1>8. /\ to_call' \in Seq(SUBSET Observer) /\ Len(to_call') = d + 1
      /\ to_call'[1] = in_list
      /\ \A k \in 1..(d + 1) : k = 1 \/ (k - 1 \in DOMAIN to_call /\ to_call'[k] = to_call[k - 1])
  BY <1>5, <1>6, Pushed
<1>9. Vector!ListAccounted'
  <2>1. Vector!TypeOK'
    BY <1>2, <1>5, <1>6, <1>7, <1>8 DEF VectorInv, Vector!ListAccounted, Vector!TypeOK
  <2> QED BY <1>2, <1>5, <1>6, <1>7, <2>1 DEF VectorInv, Vector!ListAccounted
<1>10. Within'
  <2>1. \A k \in DOMAIN iterators : iterators[k].index <= n /\ iterators[k].max <= n
    BY <1>1, <1>5 DEF VectorInv, Within
  <2> QED BY <1>1, <1>4, <1>5, <1>7, <1>8, <2>1 DEF Within
<1>11. OwesWhatIsAhead'
  <2> SUFFICES ASSUME NEW k \in 1..(d + 1), NEW o \in Observer
               PROVE  o \in to_call'[k] <=>
                        \E i \in 1..n :
                          /\ observers[i] = o
                          /\ iterators'[k].index < i
                          /\ notify_all \/ i <= iterators'[k].max
    BY <1>5, <1>6, <1>7 DEF OwesWhatIsAhead
  <2>1. CASE k = 1
    <3>1. o \in in_list <=> \E i \in 1..n : observers[i] = o
      BY <1>5, <1>6 DEF VectorInv, Vector!ListAccounted, Vector!Range
    <3>2. \A i \in 1..n : 0 < i /\ i <= n
      OBVIOUS
    <3> QED BY <1>4, <1>7, <1>8, <2>1, <3>1, <3>2
  <2>2. CASE k # 1
    <3>1. /\ k - 1 \in DOMAIN iterators /\ iterators'[k] = iterators[k - 1]
          /\ to_call'[k] = to_call[k - 1]
      BY <1>7, <1>8, <2>2
    <3>2. PICK j \in DOMAIN iterators : j = k - 1
      BY <3>1
    <3>3. o \in to_call[j] <=>
            \E i \in 1..n :
              /\ observers[i] = o
              /\ iterators[j].index < i
              /\ notify_all \/ i <= iterators[j].max
      BY <1>5, <1>6 DEF VectorInv, OwesWhatIsAhead
    <3> QED BY <3>1, <3>2, <3>3
  <2> QED BY <2>1, <2>2
<1> QED BY <1>9, <1>10, <1>11 DEF VectorInv

\* The next element is called, and owed a call no more.
LEMMA VectorNext ==
  ASSUME VectorInv, Vector!GetNext
  PROVE  /\ VectorInv'
         /\ Head(iterators').calling \in Head(to_call)
<1>1. PICK n \in Nat : n = Len(observers)
  BY VectorTyped
<1>2. /\ alive /\ iterators # <<>> /\ UNCHANGED <<notify_all, alive, observers, notify_depth, in_list>>
  BY DEF Vector!GetNext
<1>3. 1 \in DOMAIN iterators /\ Head(iterators) = iterators[1] /\ Head(to_call) = to_call[1]
        /\ 1 \in DOMAIN to_call
  BY <1>2, VectorTyped
<1>4. PICK i \in Vector!Ahead(Head(iterators)) :
        /\ \A j \in Vector!Ahead(Head(iterators)) : i <= j
        /\ iterators' = [iterators EXCEPT ![1].index = i, ![1].calling = observers[i]]
        /\ to_call' = [to_call EXCEPT ![1] = @ \ {observers[i]}]
  BY DEF Vector!GetNext
<1>5. /\ i \in 1..n /\ iterators[1].index < i /\ (notify_all \/ i <= iterators[1].max)
      /\ observers[i] # NULL
      /\ observers[i] \in Observer
  <2>1. /\ i \in DOMAIN observers /\ iterators[1].index < i
        /\ (notify_all \/ i <= iterators[1].max) /\ observers[i] # NULL
    BY <1>2, <1>3, <1>4, AheadIs
  <2>2. observers[i] \in Observer \union {NULL}
    BY <2>1, VectorTyped
  <2> QED BY <1>1, <2>1, <2>2, VectorTyped
<1>6. /\ iterators' \in Seq(Vector!Iterator) /\ Len(iterators') = Len(iterators)
      /\ DOMAIN iterators' = DOMAIN iterators
      /\ iterators'[1].index = i /\ iterators'[1].max = iterators[1].max
      /\ iterators'[1].calling = observers[i]
      /\ \A k \in DOMAIN iterators : k # 1 => iterators'[k] = iterators[k]
  <2>1. PICK it : it = [iterators[1] EXCEPT !.index = i, !.calling = observers[i]]
    OBVIOUS
  <2>2. iterators[1] \in Vector!Iterator
    BY <1>3, VectorTyped
  <2>3. /\ it \in Vector!Iterator /\ it.index = i /\ it.max = iterators[1].max
        /\ it.calling = observers[i]
    <3>1. i \in Nat
      BY <1>5
    <3> QED BY <1>5, <2>1, <2>2, <3>1 DEF Vector!Iterator
  <2>4. iterators' = [iterators EXCEPT ![1] = it]
    BY <1>3, <1>4, <2>1, <2>2, VectorTyped DEF Vector!Iterator
  <2>5. /\ DOMAIN iterators' = DOMAIN iterators /\ iterators'[1] = it
        /\ \A k \in DOMAIN iterators : k # 1 => iterators'[k] = iterators[k]
    BY <1>3, <2>4
  <2>6. iterators' \in Seq(Vector!Iterator) /\ Len(iterators') = Len(iterators)
    BY <1>3, <2>3, <2>4, VectorTyped
  <2> QED BY <2>3, <2>5, <2>6
<1>7. /\ to_call' \in Seq(SUBSET Observer) /\ Len(to_call') = Len(to_call)
      /\ to_call'[1] = to_call[1] \ {observers[i]}
      /\ \A k \in DOMAIN iterators : k # 1 => to_call'[k] = to_call[k]
  BY <1>3, <1>4, VectorTyped
<1>8. /\ DOMAIN observers = 1..n
      /\ \A j, k \in 1..n : observers[j] = observers[k] /\ observers[j] # NULL => j = k
      /\ \A j \in 1..n : observers[j] # NULL /\ iterators[1].index < j
                           /\ (notify_all \/ j <= iterators[1].max) => i <= j
  <2>1. DOMAIN observers = 1..n
    BY <1>1, VectorTyped
  <2>2. \A j, k \in 1..n : observers[j] = observers[k] /\ observers[j] # NULL => j = k
    BY <1>2, <2>1 DEF VectorInv, Vector!ListAccounted
  <2>3. \A j \in 1..n : observers[j] # NULL /\ iterators[1].index < j
                          /\ (notify_all \/ j <= iterators[1].max) =>
                        j \in Vector!Ahead(iterators[1])
    BY <1>2, <1>3, <2>1, AheadIs
  <2> QED BY <1>3, <1>4, <2>1, <2>2, <2>3
<1>9. Vector!ListAccounted'
  <2>1. Vector!TypeOK'
    BY <1>2, <1>6, <1>7 DEF VectorInv, Vector!ListAccounted, Vector!TypeOK
  <2> QED BY <1>2, <1>6, <2>1 DEF VectorInv, Vector!ListAccounted
<1>10. Within'
  <2>1. Len(to_call') = Len(iterators')
    BY <1>6, <1>7, VectorTyped
  <2>2. ASSUME NEW k \in DOMAIN iterators
        PROVE  iterators'[k].index <= n /\ iterators'[k].max <= n
    <3>1. iterators[k].index <= n /\ iterators[k].max <= n
      BY <1>1, <1>2 DEF VectorInv, Within
    <3>2. CASE k # 1
      BY <1>6, <3>1, <3>2
    <3>3. CASE k = 1
      <4>1. i <= n
        BY <1>5
      <4> QED BY <1>6, <3>1, <3>3, <4>1
    <3> QED BY <3>2, <3>3
  <2> QED BY <1>1, <1>2, <1>6, <2>1, <2>2 DEF Within
<1>11. OwesWhatIsAhead'
  <2> SUFFICES ASSUME NEW k \in DOMAIN iterators, NEW o \in Observer
               PROVE  o \in to_call'[k] <=>
                        \E j \in 1..n :
                          /\ observers[j] = o
                          /\ iterators'[k].index < j
                          /\ notify_all \/ j <= iterators'[k].max
    BY <1>2, <1>6, <1>8 DEF OwesWhatIsAhead
  <2>1. o \in to_call[k] <=>
          \E j \in 1..n :
            /\ observers[j] = o
            /\ iterators[k].index < j
            /\ notify_all \/ j <= iterators[k].max
    BY <1>2, <1>8 DEF VectorInv, OwesWhatIsAhead
  <2>2. CASE k # 1
    BY <1>6, <1>7, <2>1, <2>2
  <2>3. CASE k = 1
    <3>1. PICK index \in Nat : index = iterators[1].index
      BY <1>3, VectorTyped
    <3>2. \A j \in 1..n : i < j => index < j
      BY <1>5, <3>1
    <3>3. \A j \in 1..n : observers[j] = o /\ index < j
                            /\ (notify_all \/ j <= iterators[1].max)
                            /\ j # i => i < j
      BY <1>5, <1>8, <3>1
    <3>4. o = observers[i] => \A j \in 1..n : observers[j] = o => j = i
      BY <1>5, <1>8
    <3>5. o \in to_call'[1] <=> o \in to_call[1] /\ o # observers[i]
      BY <1>7
    <3>6. ~(i < i)
      BY <1>5
    <3> QED BY <1>6, <2>1, <2>3, <3>1, <3>2, <3>3, <3>4, <3>5, <3>6
  <2> QED BY <2>2, <2>3
<1>12. Head(iterators').calling \in Head(to_call)
  <2>1. Head(iterators') = iterators'[1]
    BY <1>2, <1>6, VectorTyped
  <2>2. observers[i] \in to_call[1]
    BY <1>2, <1>3, <1>5, <1>8 DEF VectorInv, OwesWhatIsAhead
  <2> QED BY <1>3, <1>6, <2>1, <2>2
<1> QED BY <1>9, <1>10, <1>11, <1>12 DEF VectorInv

\* An iteration ends when nothing is ahead of it: it owes nobody a call.
LEMMA VectorEnd ==
  ASSUME VectorInv, Vector!EndIteration
  PROVE  VectorInv' /\ Head(to_call) = {}
<1>1. PICK n \in Nat : n = Len(observers)
  BY VectorTyped
<1>2. PICK d \in Nat : d = Len(iterators)
  BY VectorTyped
<1>3. /\ iterators # <<>> /\ iterators' = Tail(iterators) /\ to_call' = Tail(to_call)
      /\ UNCHANGED <<notify_all, alive, in_list>>
      /\ \/ ~alive /\ UNCHANGED <<observers, notify_depth>>
         \/ alive /\ Vector!Ahead(Head(iterators)) = {} /\ Vector!Compact
  BY DEF Vector!EndIteration
<1>4. /\ iterators \in Seq(Vector!Iterator) /\ to_call \in Seq(SUBSET Observer)
      /\ to_call # <<>> /\ DOMAIN to_call = DOMAIN iterators /\ Len(to_call) = d
      /\ DOMAIN observers = 1..n
  BY <1>1, <1>2, <1>3, VectorTyped
<1>5. /\ iterators' \in Seq(Vector!Iterator) /\ d >= 1 /\ Len(iterators') = d - 1
      /\ Head(iterators) = iterators[1] /\ 1 \in DOMAIN iterators
      /\ \A k \in DOMAIN iterators' : k + 1 \in DOMAIN iterators /\ iterators'[k] = iterators[k + 1]
  BY <1>2, <1>3, <1>4, Popped
<1>6. /\ to_call' \in Seq(SUBSET Observer) /\ Len(to_call') = d - 1
      /\ Head(to_call) = to_call[1] /\ to_call[1] \subseteq Observer
      /\ \A k \in DOMAIN to_call' : k + 1 \in DOMAIN to_call /\ to_call'[k] = to_call[k + 1]
  BY <1>3, <1>4, Popped
<1>7. DOMAIN to_call' = DOMAIN iterators'
  BY <1>5, <1>6
<1>8. CASE ~alive
  <2>1. UNCHANGED <<observers, notify_depth>>
    BY <1>3, <1>8
  <2>2. Vector!ListAccounted'
    BY <1>3, <1>5, <1>6, <1>8, <2>1 DEF VectorInv, Vector!ListAccounted, Vector!TypeOK
  <2>3. \A k \in DOMAIN to_call : to_call[k] = {}
    BY <1>8 DEF VectorInv, OwesWhatIsAhead
  <2>4. Within' /\ OwesWhatIsAhead'
    BY <1>3, <1>5, <1>6, <1>8, <2>3 DEF Within, OwesWhatIsAhead
  <2> QED BY <1>4, <1>5, <1>6, <2>2, <2>3, <2>4 DEF VectorInv
<1>9. CASE alive
  <2>1. Vector!Ahead(Head(iterators)) = {} /\ Vector!Compact
    BY <1>3, <1>9
  <2>2. notify_depth = d /\ Vector!TypeOK
    BY <1>2, <1>9 DEF VectorInv, Vector!ListAccounted
  <2>3. to_call[1] = {}
    <3>1. \A o \in Observer : o \in to_call[1] =>
            \E i \in DOMAIN observers :
              /\ observers[i] = o
              /\ iterators[1].index < i
              /\ notify_all \/ i <= iterators[1].max
      BY <1>5, <1>9 DEF VectorInv, OwesWhatIsAhead
    <3>2. ASSUME NEW o \in Observer, o \in to_call[1] PROVE FALSE
      <4>1. PICK i \in DOMAIN observers :
              /\ observers[i] = o
              /\ iterators[1].index < i
              /\ notify_all \/ i <= iterators[1].max
        BY <3>1, <3>2
      <4>2. observers[i] # NULL
        BY <4>1
      <4>3. i \in Vector!Ahead(iterators[1])
        BY <1>5, <1>9, <4>1, <4>2, AheadIs
      <4> QED BY <1>5, <2>1, <4>3
    <3> QED BY <1>6, <3>2
  <2>4. CASE notify_depth = 1
    <3>1. iterators' = <<>> /\ to_call' = <<>> /\ notify_depth' = 0
      BY <1>5, <1>6, <2>1, <2>2, <2>4 DEF Vector!Compact
    <3>2. observers' = Filtered(observers, {NULL})
      BY <2>1, <2>4
         DEF Vector!Compact, Vector!Without, Vector!Cardinality, Cardinality, Filtered,
             KeptPlaces, Rank
    <3>3. /\ observers' \in Seq(Observer \union {NULL})
          /\ Range(observers') = Range(observers) \ {NULL}
          /\ OnlyOnce(observers, {NULL}) => OnlyOnce(observers', {})
      BY <3>2, VectorTyped, FilteredKeeps
    <3>4. Vector!Range(observers') = Vector!Range(observers) \ {NULL}
      BY <3>3 DEF Range, Vector!Range
    <3>5. \A i, j \in DOMAIN observers' : observers'[i] = observers'[j] => i = j
      BY <1>9, <3>3 DEF OnlyOnce, VectorInv, Vector!ListAccounted
    <3>6. Vector!TypeOK'
      BY <1>3, <1>5, <1>6, <2>2, <3>1, <3>3 DEF Vector!TypeOK
    <3>7. Vector!ListAccounted'
      BY <1>3, <1>9, <3>1, <3>4, <3>5, <3>6 DEF VectorInv, Vector!ListAccounted
    <3>8. Within' /\ OwesWhatIsAhead'
      BY <3>1 DEF Within, OwesWhatIsAhead
    <3> QED BY <1>6, <2>3, <3>7, <3>8 DEF VectorInv
  <2>5. CASE notify_depth # 1
    <3>1. UNCHANGED observers /\ notify_depth' = d - 1 /\ d - 1 \in Nat /\ d - 1 # 0
      BY <1>5, <2>1, <2>2, <2>5 DEF Vector!Compact
    <3>2. Vector!TypeOK'
      BY <1>3, <1>5, <1>6, <2>2, <3>1 DEF Vector!TypeOK
    <3>3. Vector!ListAccounted'
      BY <1>3, <1>5, <1>9, <3>1, <3>2 DEF VectorInv, Vector!ListAccounted
    <3>4. Within'
      BY <1>3, <1>5, <1>6, <1>9, <3>1 DEF VectorInv, Within
    <3>5. OwesWhatIsAhead'
      BY <1>3, <1>5, <1>6, <1>7, <1>9, <3>1 DEF VectorInv, OwesWhatIsAhead
    <3> QED BY <1>6, <2>3, <3>3, <3>4, <3>5 DEF VectorInv
  <2> QED BY <2>4, <2>5
<1> QED BY <1>8, <1>9

LEMMA VectorAlways == Vector!Spec => []VectorInv
<1>1. VectorInv /\ [Vector!Next]_(Vector!vars) => VectorInv'
  <2> SUFFICES ASSUME VectorInv, [Vector!Next]_(Vector!vars) PROVE VectorInv'
    OBVIOUS
  <2>1. ASSUME NEW obs \in Observer, Vector!RemoveObserver(obs) PROVE VectorInv'
    BY <2>1, VectorTakeOut DEF Vector!RemoveObserver, Vector!Unregister
  <2>2. ASSUME Vector!Clear PROVE VectorInv'
    BY <2>2, VectorTakeOut DEF Vector!Clear, Vector!Unregister
  <2>3. ASSUME UNCHANGED Vector!vars PROVE VectorInv'
    BY <2>3 DEF Vector!vars, VectorInv, Vector!ListAccounted, Vector!TypeOK, Within,
               OwesWhatIsAhead, Vector!Ahead, Vector!MaxIndex
  <2> QED BY <2>1, <2>2, <2>3, VectorAdd, VectorDestroy, VectorBegin, VectorNext, VectorEnd
          DEF Vector!Next
<1> QED BY <1>1, VectorInitially, PTL DEF Vector!Spec

\* Whatever observers do to a list, also in the middle of nested iterations,
\* it holds those registered, each once, and no hole outlives the iterations.
THEOREM ListsAreAccounted == Vector!Spec => []Vector!ListAccounted
<1>1. VectorInv => Vector!ListAccounted
  BY DEF VectorInv
<1> QED BY <1>1, VectorAlways, PTL

\* GetNext gives an iteration only observers it owes a call.
THEOREM NextIsOwed == Vector!Spec => Vector!NotifiesOnlyOwed
<1>1. VectorInv /\ [Vector!Next]_(Vector!vars) =>
        [Vector!GetNext => Head(iterators').calling \in Head(to_call)]_(Vector!vars)
  BY VectorNext
<1> QED BY <1>1, VectorAlways, PTL DEF Vector!Spec, Vector!NotifiesOnlyOwed

\* And when it ends it owes nobody a call.
THEOREM AllAreCalled == Vector!Spec => Vector!NotifiesAllOwed
<1>1. VectorInv /\ [Vector!Next]_(Vector!vars) =>
        [Vector!EndIteration => Head(to_call) = {}]_(Vector!vars)
  BY VectorEnd
<1> QED BY <1>1, VectorAlways, PTL DEF Vector!Spec, Vector!NotifiesAllOwed

-----------------------------------------------------------------------------
(* The lists of many loops: the invariant *)

\* A loop has a context in the map or is iterating over it.
Holds(t, c) == observer_lists[t] = c \/ c \in InUse(t)

Exist == \A c \in Context : c \in allocated <=> \E t \in Loop : Holds(t, c)

Apart ==
  \A t, u \in Loop, c \in Context : Holds(t, c) /\ Holds(u, c) => t = u

\* How many of the calls on a stack iterate over context c.
CountOn(s, c) == Cardinality({i \in DOMAIN s : s[i].context = c})

\* notify_depth_ counts the iterations, all on one stack.
Depths ==
  \A c \in Context :
    /\ \A t \in Loop : c \in InUse(t) => depth[c] = CountOn(stack[t], c)
    /\ (\A t \in Loop : c \notin InUse(t)) => depth[c] = 0

\* No context is empty but those that do not exist; an observer is in a list
\* once, and holes only while it is iterated over.
Vectors ==
  \A c \in Context :
    /\ OnlyOnce(list[c], {NULL})
    /\ depth[c] = 0 => NULL \notin Range(list[c])
    /\ c \in allocated <=> list[c] # <<>>

\* The registered observers are in the list the map has for their loop.
RegisteredAreListed ==
  /\ \A t \in Loop :
       IF observer_lists[t] = NULL
       THEN registered[t] = {}
       ELSE registered[t] = Range(list[observer_lists[t]]) \ {NULL}
  /\ \A c \in Context :
       (\A t \in Loop : observer_lists[t] # c) => Range(list[c]) \subseteq {NULL}

\* An iterator will find an observer.
Finds(q, it, obs) ==
  \E i \in DOMAIN q : q[i] = obs /\ it.index < i /\ (NOTIFY_ALL \/ i <= it.max)

\* A notification is still in the queue of the loop, for the context it has now,
\* or in an iteration over that context that has not come to the observer.
OnItsWay(t, obs, n) ==
  \/ \E k \in DOMAIN queue[t] : queue[t][k] = [context |-> observer_lists[t], note |-> n]
  \/ \E k \in DOMAIN stack[t] :
       /\ stack[t][k].context = observer_lists[t] /\ stack[t][k].note = n
       /\ Finds(list[observer_lists[t]], stack[t][k], obs)

Delivering(t) ==
  \A obs \in Observer, n \in 1..MaxNotes :
    <<obs, n>> \in owed[t] => obs \in registered[t] /\ OnItsWay(t, obs, n)

Delivered == \A t \in Loop : Delivering(t)

ListsInv == Exist /\ Apart /\ Depths /\ Vectors /\ RegisteredAreListed /\ Delivered

-----------------------------------------------------------------------------
(* Facts about frames, vectors and counts *)

LEMMA ListsTyped ==
  ASSUME TypeOK
  PROVE  /\ \A c \in Context :
              /\ list[c] \in Seq(Observer \union {NULL})
              /\ Len(list[c]) \in Nat /\ DOMAIN list[c] = 1..Len(list[c])
              /\ depth[c] \in Nat
         /\ \A t \in Loop :
              /\ observer_lists[t] \in Context \union {NULL}
              /\ queue[t] \in Seq([context : Context, note : 1..MaxNotes])
              /\ stack[t] \in Seq(Frame)
              /\ registered[t] \in SUBSET Observer
              /\ owed[t] \in SUBSET (Observer \X (1..MaxNotes))
              /\ DOMAIN stack[t] = 1..Len(stack[t]) /\ Len(stack[t]) \in Nat
              /\ \A k \in DOMAIN stack[t] : stack[t][k] \in Frame
         /\ NULL \notin Context /\ NULL \notin Observer
<1>1. \A c \in Context : list[c] \in Seq(Observer \union {NULL}) /\ depth[c] \in Nat
  BY DEF TypeOK
<1>2. ASSUME NEW S, NEW q \in Seq(S)
      PROVE  /\ Len(q) \in Nat /\ DOMAIN q = 1..Len(q)
             /\ \A k \in DOMAIN q : q[k] \in S
  OBVIOUS
<1>3. \A t \in Loop :
        /\ observer_lists[t] \in Context \union {NULL}
        /\ queue[t] \in Seq([context : Context, note : 1..MaxNotes])
        /\ stack[t] \in Seq(Frame)
        /\ registered[t] \in SUBSET Observer
        /\ owed[t] \in SUBSET (Observer \X (1..MaxNotes))
  BY DEF TypeOK
<1>4. NULL \notin Context /\ NULL \notin Observer
  OBVIOUS
<1>5. \A c \in Context : Len(list[c]) \in Nat /\ DOMAIN list[c] = 1..Len(list[c])
  BY <1>1, <1>2
<1>6. \A t \in Loop :
        /\ DOMAIN stack[t] = 1..Len(stack[t]) /\ Len(stack[t]) \in Nat
        /\ \A k \in DOMAIN stack[t] : stack[t][k] \in Frame
  BY <1>2, <1>3
<1> QED BY <1>1, <1>3, <1>4, <1>5, <1>6

\* What GetNext may find, for an iterator of any age.
LEMMA WhatIsAhead ==
  ASSUME TypeOK, NEW c \in Context, NEW it \in Frame
  PROVE  \A i : i \in L(c)!Ahead(it) <=>
           /\ i \in DOMAIN list[c] /\ list[c][i] # NULL
           /\ it.index < i /\ (NOTIFY_ALL \/ i <= it.max)
<1>1. PICK n \in Nat : n = Len(list[c])
  BY ListsTyped
<1>2. DOMAIN list[c] = 1..n
  BY <1>1, ListsTyped
<1>3. PICK m \in Nat : m = it.max
  BY DEF Frame
<1>4. ASSUME NEW i \in 1..n PROVE i <= L(c)!MaxIndex(it) <=> NOTIFY_ALL \/ i <= m
  BY <1>1, <1>3 DEF L!MaxIndex
<1> QED BY <1>2, <1>3, <1>4 DEF L!Ahead

LEMMA CountTyped ==
  ASSUME NEW s \in Seq(Frame), NEW c
  PROVE  /\ CountOn(s, c) \in Nat
         /\ CountOn(s, c) = 0 <=> \A i \in DOMAIN s : s[i].context # c
<1>1. IsFiniteSet(DOMAIN s)
  <2>1. Len(s) \in Nat /\ DOMAIN s = 1..Len(s)
    OBVIOUS
  <2> QED BY <2>1, FS_Interval
<1>2. IsFiniteSet({i \in DOMAIN s : s[i].context = c})
  BY <1>1, FS_Subset
<1>3. CountOn(s, c) \in Nat
  BY <1>2, FS_CardinalityType DEF CountOn
<1>4. CountOn(s, c) = 0 <=> {i \in DOMAIN s : s[i].context = c} = {}
  BY <1>2, FS_EmptySet DEF CountOn
<1> QED BY <1>3, <1>4

LEMMA CountPopped ==
  ASSUME NEW s \in Seq(Frame), s # <<>>, NEW c
  PROVE  CountOn(s, c) =
           CountOn(Tail(s), c) + (IF Head(s).context = c THEN 1 ELSE 0)
<1> DEFINE A == {i \in DOMAIN s : s[i].context = c}
           B == {i \in DOMAIN Tail(s) : Tail(s)[i].context = c}
           f == [i \in B |-> i + 1]
<1>1. /\ Tail(s) \in Seq(Frame) /\ 1 \in DOMAIN s /\ Head(s) = s[1]
      /\ \A k \in DOMAIN Tail(s) : k + 1 \in DOMAIN s /\ k + 1 # 1 /\ Tail(s)[k] = s[k + 1]
      /\ \A k \in DOMAIN s : k = 1 \/ (k - 1 \in DOMAIN Tail(s) /\ Tail(s)[k - 1] = s[k])
  BY Popped
<1>2. IsFiniteSet(A) /\ IsFiniteSet(B)
  <2>1. ASSUME NEW q \in Seq(Frame) PROVE IsFiniteSet(DOMAIN q)
    <3>1. Len(q) \in Nat /\ DOMAIN q = 1..Len(q)
      OBVIOUS
    <3> QED BY <3>1, FS_Interval
  <2>2. IsFiniteSet(DOMAIN s) /\ IsFiniteSet(DOMAIN Tail(s))
    BY <1>1, <2>1
  <2> QED BY <2>2, FS_Subset
<1>3. Cardinality(A \ {1}) = Cardinality(B)
  <2>1. B \subseteq Int /\ A \subseteq Int
    <3>1. DOMAIN s \subseteq Int /\ DOMAIN Tail(s) \subseteq Int
      BY <1>1
    <3> QED BY <3>1
  <2>2. f \in [B -> A \ {1}]
    BY <1>1
  <2>3. \A i, j \in B : f[i] = f[j] => i = j
    BY <2>1
  <2>4. ASSUME NEW k \in A \ {1} PROVE \E i \in B : f[i] = k
    <3>1. k - 1 \in B /\ k \in Int
      BY <1>1, <2>1
    <3>2. f[k - 1] = k
      BY <3>1
    <3> QED BY <3>1, <3>2
  <2> HIDE DEF f, A, B
  <2>5. f \in Bijection(B, A \ {1})
    BY <2>2, <2>3, <2>4 DEF Bijection, Injection, Surjection, IsInjective
  <2>6. ExistsBijection(B, A \ {1})
    BY <2>5 DEF ExistsBijection
  <2> QED BY <1>2, <2>6, FS_Bijection
<1>4. Cardinality(A) \in Nat /\ Cardinality(B) \in Nat
  BY <1>2, FS_CardinalityType
<1>5. Cardinality(A \ {1}) = IF 1 \in A THEN Cardinality(A) - 1 ELSE Cardinality(A)
  BY <1>2, FS_RemoveElement
<1>6. 1 \in A <=> Head(s).context = c
  BY <1>1
<1> HIDE DEF A, B
<1>7. Cardinality(A) = Cardinality(B) + (IF Head(s).context = c THEN 1 ELSE 0)
  BY <1>3, <1>4, <1>5, <1>6
<1> QED BY <1>7 DEF CountOn, A, B

\* Whether a context is in use can be told by its depth.
LEMMA DepthTells ==
  ASSUME TypeOK, Depths, NEW c \in Context
  PROVE  depth[c] = 0 <=> \A t \in Loop : c \notin InUse(t)
<1>1. ASSUME NEW t \in Loop, c \in InUse(t) PROVE depth[c] # 0
  <2>1. depth[c] = CountOn(stack[t], c)
    BY <1>1 DEF Depths
  <2>2. \E i \in DOMAIN stack[t] : stack[t][i].context = c
    BY <1>1 DEF InUse
  <2>3. stack[t] \in Seq(Frame)
    BY ListsTyped
  <2> QED BY <2>1, <2>2, <2>3, CountTyped
<1> QED BY <1>1 DEF Depths

\* What RemoveObserver makes of the vector of context c.
TakenOut(w, c, obs) ==
  /\ w \in Seq(Observer \union {NULL})
  /\ OnlyOnce(w, {NULL})
  /\ Range(w) \ {NULL} = (Range(list[c]) \ {NULL}) \ {obs}
  /\ depth[c] = 0 => NULL \notin Range(w)
  /\ depth[c] # 0 =>
       /\ Len(w) = Len(list[c]) /\ DOMAIN w = DOMAIN list[c]
       /\ \A i \in DOMAIN w, o \in Observer : w[i] = o <=> list[c][i] = o /\ o # obs

\* RemoveObserver takes the observer out of the vector and nothing else.
LEMMA ErasedFrom ==
  ASSUME TypeOK, Vectors, NEW c \in Context, NEW obs \in Observer,
         NEW w, w = L(c)!Erased({obs})
  PROVE  TakenOut(w, c, obs)
<1>1. PICK n \in Nat : n = Len(list[c])
  BY ListsTyped
<1>2. list[c] \in Seq(Observer \union {NULL}) /\ DOMAIN list[c] = 1..n
        /\ OnlyOnce(list[c], {NULL}) /\ depth[c] \in Nat
        /\ obs # NULL /\ (depth[c] = 0 => NULL \notin Range(list[c]))
  BY <1>1, ListsTyped DEF Vectors
<1> USE DEF TakenOut
<1>3. CASE depth[c] = 0
  <2>1. w = Filtered(list[c], {obs})
    BY <1>3
       DEF L!Erased, L!Without, L!Cardinality, Cardinality, Filtered, KeptPlaces, Rank
  <2>2. /\ w \in Seq(Observer \union {NULL})
        /\ Range(w) = Range(list[c]) \ {obs}
        /\ OnlyOnce(list[c], {obs}) => OnlyOnce(w, {})
    BY <1>2, <2>1, FilteredKeeps
  <2>3. OnlyOnce(list[c], {obs})
    BY <1>2, <1>3 DEF OnlyOnce, Range
  <2>4. OnlyOnce(w, {NULL})
    BY <2>2, <2>3 DEF OnlyOnce
  <2> QED BY <1>2, <1>3, <2>2, <2>4
<1>4. CASE depth[c] # 0
  <2>1. w = [i \in 1..n |-> IF list[c][i] \in {obs} THEN NULL ELSE list[c][i]]
    <3>1. depth[c] > 0
      BY <1>2, <1>4
    <3> QED BY <1>2, <3>1 DEF L!Erased, L!Punched
  <2>2. \A i \in 1..n : list[c][i] \in Observer \union {NULL}
    BY <1>1, <1>2
  <2>3. w \in Seq(Observer \union {NULL}) /\ Len(w) = n /\ DOMAIN w = 1..n
    <3>1. w \in [1..n -> Observer \union {NULL}]
      BY <2>1, <2>2
    <3>2. w \in Seq(Observer \union {NULL}) /\ DOMAIN w = 1..n
      <4>1. ASSUME NEW S, NEW q \in [1..n -> S] PROVE q \in Seq(S) /\ DOMAIN q = 1..n
        BY SeqDef
      <4> QED BY <3>1, <4>1
    <3>3. Len(w) = n
      BY <3>2, LenProperties
    <3> QED BY <3>2, <3>3
  <2>4. \A i \in 1..n, o \in Observer : w[i] = o <=> list[c][i] = o /\ o # obs
    BY <1>2, <2>1
  <2>5. OnlyOnce(w, {NULL})
    BY <1>2, <2>1, <2>3 DEF OnlyOnce
  <2>6. Range(w) \ {NULL} = (Range(list[c]) \ {NULL}) \ {obs}
    <3>1. Range(w) \subseteq Observer \union {NULL}
            /\ Range(list[c]) \subseteq Observer \union {NULL}
      BY <1>2, <2>1, <2>2, <2>3 DEF Range
    <3>2. \A o \in Observer : o \in Range(w) <=> o \in Range(list[c]) /\ o # obs
      BY <1>2, <2>3, <2>4 DEF Range
    <3> QED BY <3>1, <3>2
  <2> QED BY <1>1, <1>2, <1>4, <2>3, <2>4, <2>5, <2>6
<1> QED BY <1>3, <1>4

-----------------------------------------------------------------------------
(* The invariant holds at first and every step keeps it *)

LEMMA ListsAtFirst == Init => TypeOK /\ ListsInv
<1> SUFFICES ASSUME Init PROVE TypeOK /\ ListsInv
  OBVIOUS
<1> USE DEF Init
<1>1. /\ \A t \in Loop : observer_lists[t] = NULL /\ queue[t] = <<>> /\ stack[t] = <<>>
                         /\ registered[t] = {} /\ owed[t] = {}
      /\ \A c \in Context : list[c] = <<>> /\ depth[c] = 0
  OBVIOUS
<1>2. TypeOK
  <2>1. \A S : <<>> \in Seq(S)
    OBVIOUS
  <2> QED BY <2>1, ListsAssumption DEF TypeOK
<1>3. \A t \in Loop : InUse(t) = {}
  <2>1. DOMAIN <<>> = {}
    OBVIOUS
  <2> QED BY <1>1, <2>1 DEF InUse
<1>4. \A t \in Loop, c \in Context : ~Holds(t, c)
  BY <1>1, <1>3, <1>2, ListsTyped DEF Holds
<1>5. Exist
  BY <1>4 DEF Exist
<1>6. Apart
  BY <1>4 DEF Apart
<1>7. Depths
  BY <1>1, <1>3 DEF Depths
<1>8. Range(<<>>) = {} /\ \A gone : OnlyOnce(<<>>, gone)
  BY DEF Range, OnlyOnce
<1>9. Vectors
  BY <1>1, <1>8 DEF Vectors
<1>10. RegisteredAreListed
  BY <1>1, <1>8 DEF RegisteredAreListed
<1>11. Delivered
  BY <1>1 DEF Delivered, Delivering
<1> QED BY <1>2, <1>5, <1>6, <1>7, <1>9, <1>10, <1>11 DEF ListsInv

\* A loop is owed the calls it was as long as nothing of it changes.
LEMMA OthersDeliver ==
  ASSUME TypeOK, RegisteredAreListed, NEW u \in Loop, Delivering(u),
         queue'[u] = queue[u], stack'[u] = stack[u],
         observer_lists'[u] = observer_lists[u],
         registered'[u] = registered[u], owed'[u] = owed[u],
         observer_lists[u] # NULL => list'[observer_lists[u]] = list[observer_lists[u]]
  PROVE  Delivering(u)'
<1> SUFFICES ASSUME NEW o \in Observer, NEW n \in 1..MaxNotes, <<o, n>> \in owed[u]
             PROVE  o \in registered'[u] /\ OnItsWay(u, o, n)'
  BY DEF Delivering
<1>1. o \in registered[u] /\ OnItsWay(u, o, n)
  BY DEF Delivering
<1>2. observer_lists[u] # NULL
  BY <1>1 DEF RegisteredAreListed
<1>3. list'[observer_lists[u]] = list[observer_lists[u]]
  BY <1>2
<1> QED BY <1>1, <1>3 DEF OnItsWay

LEMMA AddKeeps ==
  ASSUME TypeOK, ListsInv, NEW t \in Loop, NEW obs \in Observer, AddObserver(t, obs)
  PROVE  TypeOK' /\ ListsInv'
<1>1. Exist /\ Apart /\ Depths /\ Vectors /\ RegisteredAreListed /\ Delivered
  BY DEF ListsInv
<1>2. PICK c \in Context :
        /\ (observer_lists[t] = NULL /\ c \notin allocated) \/ observer_lists[t] = c
        /\ observer_lists' = [observer_lists EXCEPT ![t] = c]
        /\ allocated' = allocated \union {c}
        /\ list' = [list EXCEPT ![c] = Append(list[c], obs)]
  <2>1. observer_lists[t] \in Context \union {NULL}
    BY ListsTyped
  <2> QED BY <2>1 DEF AddObserver
<1>3. /\ registered' = [registered EXCEPT ![t] = registered[t] \union {obs}]
      /\ obs \notin registered[t]
      /\ depth' = depth /\ queue' = queue /\ stack' = stack /\ notes' = notes
      /\ clients' = clients /\ owed' = owed
  BY DEF AddObserver
<1>4. /\ observer_lists'[t] = c /\ list'[c] = Append(list[c], obs)
      /\ registered'[t] = registered[t] \union {obs}
      /\ \A u \in Loop : u # t => observer_lists'[u] = observer_lists[u]
                                  /\ registered'[u] = registered[u]
      /\ \A d \in Context : d # c => list'[d] = list[d]
      /\ \A u \in Loop : InUse(u)' = InUse(u)
  BY <1>2, <1>3 DEF TypeOK, InUse
<1>5. list[c] \in Seq(Observer \union {NULL}) /\ obs \in Observer \union {NULL} /\ obs # NULL
  BY ListsTyped
<1>6. /\ Append(list[c], obs) \in Seq(Observer \union {NULL})
      /\ Append(list[c], obs) # <<>>
      /\ Append(list[c], obs)[Len(list[c]) + 1] = obs
      /\ Len(list[c]) \in Nat /\ DOMAIN list[c] = 1..Len(list[c])
      /\ DOMAIN Append(list[c], obs) = 1..(Len(list[c]) + 1)
      /\ \A i \in 1..Len(list[c]) : Append(list[c], obs)[i] = list[c][i]
  BY <1>5
<1>7. Range(Append(list[c], obs)) = Range(list[c]) \union {obs}
  BY <1>6 DEF Range
<1>8. TypeOK'
  BY <1>2, <1>3, <1>6 DEF TypeOK
<1>9. c \notin allocated => list[c] = <<>> /\ \A u \in Loop : ~Holds(u, c)
  BY <1>1 DEF Vectors, Exist
<1>10. obs \notin Range(list[c])
  <2>1. CASE observer_lists[t] = c
    <3>1. registered[t] = Range(list[c]) \ {NULL}
      BY <1>1, <2>1, ListsTyped DEF RegisteredAreListed
    <3> QED BY <1>3, <1>5, <3>1
  <2>2. CASE c \notin allocated
    BY <1>9, <2>2 DEF Range
  <2> QED BY <1>2, <2>1, <2>2
<1>11. \A u \in Loop, d \in Context : Holds(u, d)' <=> Holds(u, d) \/ (u = t /\ d = c)
  <2>1. \A u \in Loop, d \in Context : observer_lists'[u] = d <=>
                                       observer_lists[u] = d \/ (u = t /\ d = c)
    BY <1>2, <1>4, ListsTyped
  <2> QED BY <1>4, <2>1 DEF Holds
<1>12. Exist'
  BY <1>1, <1>2, <1>11 DEF Exist
<1>13. Apart'
  <2>1. \A u \in Loop : Holds(u, c) => u = t
    <3>1. CASE observer_lists[t] = c
      BY <1>1, <3>1 DEF Apart, Holds
    <3> QED BY <1>2, <1>9, <3>1
  <2> QED BY <1>1, <1>11, <2>1 DEF Apart
<1>14. Depths'
  BY <1>1, <1>3, <1>4 DEF Depths
<1>15. Vectors'
  <2>1. OnlyOnce(Append(list[c], obs), {NULL})
    <3>1. \A i \in 1..Len(list[c]) : list[c][i] # obs
      BY <1>6, <1>10 DEF Range
    <3>2. \A i \in DOMAIN Append(list[c], obs) :
            i \in 1..Len(list[c]) \/ i = Len(list[c]) + 1
      BY <1>6
    <3> QED BY <1>1, <1>6, <3>1, <3>2 DEF OnlyOnce, Vectors
  <2>2. depth[c] = 0 => NULL \notin Range(Append(list[c], obs))
    BY <1>1, <1>5, <1>7 DEF Vectors
  <2> QED BY <1>1, <1>2, <1>3, <1>4, <1>6, <2>1, <2>2 DEF Vectors
<1>16. RegisteredAreListed'
  <2>1. registered[t] = Range(list[c]) \ {NULL}
    <3>1. CASE observer_lists[t] = c
      BY <1>1, <3>1, ListsTyped DEF RegisteredAreListed
    <3>2. CASE observer_lists[t] = NULL /\ c \notin allocated
      BY <1>1, <1>9, <3>2 DEF RegisteredAreListed, Range
    <3> QED BY <1>2, <3>1, <3>2
  <2>2. registered'[t] = Range(list'[c]) \ {NULL}
    BY <1>4, <1>5, <1>7, <2>1
  <2>3. \A u \in Loop : u # t => observer_lists[u] # c
    BY <1>4, <1>13, <1>11 DEF Apart, Holds
  <2>4. ASSUME NEW u \in Loop, u # t
        PROVE  registered'[u] = IF observer_lists'[u] = NULL THEN {}
                                ELSE Range(list'[observer_lists'[u]]) \ {NULL}
    <3>1. observer_lists[u] = NULL \/ (observer_lists[u] \in Context
                                      /\ list'[observer_lists[u]] = list[observer_lists[u]])
      BY <1>4, <2>3, <2>4, ListsTyped
    <3>2. registered[u] = IF observer_lists[u] = NULL THEN {}
                          ELSE Range(list[observer_lists[u]]) \ {NULL}
      BY <1>1 DEF RegisteredAreListed
    <3>3. registered'[u] = registered[u] /\ observer_lists'[u] = observer_lists[u]
      BY <1>4, <2>4
    <3> QED BY <3>1, <3>2, <3>3
  <2>5. ASSUME NEW d \in Context, \A u \in Loop : observer_lists'[u] # d
        PROVE  Range(list'[d]) \subseteq {NULL}
    <3>1. d # c /\ \A u \in Loop : observer_lists[u] # d
      BY <1>2, <1>4, <2>5, ListsTyped
    <3> QED BY <1>1, <1>4, <3>1 DEF RegisteredAreListed
  <2> QED BY <1>4, <2>2, <2>4, <2>5, ListsTyped DEF RegisteredAreListed
<1>17. Delivered'
  <2>1. \A u \in Loop : Delivering(u)
    BY <1>1 DEF Delivered
  <2>2. ASSUME NEW u \in Loop, u # t PROVE Delivering(u)'
    <3>1. observer_lists[u] # NULL => list'[observer_lists[u]] = list[observer_lists[u]]
      <4>1. observer_lists[u] # c
        BY <1>4, <1>13, <1>11, <2>2 DEF Apart, Holds
      <4> QED BY <1>4, <4>1, ListsTyped
    <3> QED BY <1>1, <1>3, <1>4, <2>1, <2>2, <3>1, OthersDeliver
  <2>3. Delivering(t)'
    <3> SUFFICES ASSUME NEW o \in Observer, NEW n \in 1..MaxNotes, <<o, n>> \in owed[t]
                 PROVE  o \in registered'[t] /\ OnItsWay(t, o, n)'
      BY <1>3 DEF Delivering
    <3>1. o \in registered[t] /\ OnItsWay(t, o, n)
      BY <2>1 DEF Delivering
    <3>2. observer_lists[t] = c
      BY <1>1, <1>2, <3>1 DEF RegisteredAreListed
    <3>3. \A it : Finds(list[c], it, o) => Finds(list'[c], it, o)
      <4>1. \A i \in DOMAIN list[c] : i \in DOMAIN list'[c] /\ list'[c][i] = list[c][i]
        BY <1>4, <1>6
      <4> QED BY <4>1 DEF Finds
    <3> QED BY <1>3, <1>4, <3>1, <3>2, <3>3 DEF OnItsWay
  <2> QED BY <2>2, <2>3 DEF Delivered
<1> QED BY <1>8, <1>12, <1>13, <1>14, <1>15, <1>16, <1>17 DEF ListsInv

LEMMA RemoveKeeps ==
  ASSUME TypeOK, ListsInv, NEW t \in Loop, NEW obs \in Observer, RemoveObserver(t, obs)
  PROVE  TypeOK' /\ ListsInv'
<1>1. Exist /\ Apart /\ Depths /\ Vectors /\ RegisteredAreListed /\ Delivered
  BY DEF ListsInv
<1>2. PICK c \in Context : c = observer_lists[t]
  BY ListsTyped DEF RemoveObserver
<1>3. PICK kept : kept = L(c)!Erased({obs})
  OBVIOUS
<1>4. /\ observer_lists' = IF LastOne(c, obs)
                           THEN [observer_lists EXCEPT ![t] = NULL]
                           ELSE observer_lists
      /\ list' = [list EXCEPT ![c] = kept]
      /\ allocated' = IF kept = <<>> THEN allocated \ {c} ELSE allocated
      /\ registered' = [registered EXCEPT ![t] = registered[t] \ {obs}]
      /\ owed' = [owed EXCEPT ![t] = {pair \in owed[t] : pair[1] # obs}]
      /\ depth' = depth /\ queue' = queue /\ stack' = stack /\ notes' = notes
      /\ clients' = clients
  BY <1>2, <1>3 DEF RemoveObserver, Kept
<1>5. /\ kept \in Seq(Observer \union {NULL})
      /\ OnlyOnce(kept, {NULL})
      /\ Range(kept) \ {NULL} = (Range(list[c]) \ {NULL}) \ {obs}
      /\ depth[c] = 0 => NULL \notin Range(kept)
      /\ depth[c] # 0 =>
           /\ Len(kept) = Len(list[c]) /\ DOMAIN kept = DOMAIN list[c]
           /\ \A i \in DOMAIN kept, o \in Observer : kept[i] = o <=> list[c][i] = o /\ o # obs
  <2>1. TakenOut(kept, c, obs)
    BY <1>1, <1>3, ErasedFrom
  <2> QED BY <2>1 DEF TakenOut
<1>6. /\ list'[c] = kept /\ \A d \in Context : d # c => list'[d] = list[d]
      /\ registered'[t] = registered[t] \ {obs}
      /\ owed'[t] = {pair \in owed[t] : pair[1] # obs}
      /\ \A u \in Loop : u # t => /\ observer_lists'[u] = observer_lists[u]
                                  /\ registered'[u] = registered[u]
                                  /\ owed'[u] = owed[u]
      /\ \A u \in Loop : InUse(u)' = InUse(u)
      /\ observer_lists'[t] = IF LastOne(c, obs) THEN NULL ELSE c
  BY <1>2, <1>4 DEF TypeOK, InUse
<1>7. /\ obs # NULL /\ c # NULL
      /\ list[c] \in Seq(Observer \union {NULL}) /\ Len(list[c]) \in Nat
      /\ DOMAIN list[c] = 1..Len(list[c])
      /\ registered[t] = Range(list[c]) \ {NULL}
  BY <1>1, <1>2, ListsTyped DEF RegisteredAreListed
<1>8. c \in allocated /\ list[c] # <<>>
  BY <1>1, <1>2 DEF Exist, Holds, Vectors
<1>9. kept = <<>> => depth[c] = 0 /\ LastOne(c, obs)
  <2> SUFFICES ASSUME kept = <<>> PROVE depth[c] = 0 /\ LastOne(c, obs)
    OBVIOUS
  <2>1. depth[c] = 0
    <3>1. Len(list[c]) # 0
      BY <1>7, <1>8
    <3> QED BY <1>5, <3>1
  <2>2. Range(kept) = {}
    BY DEF Range
  <2>3. \A i \in DOMAIN list[c] : list[c][i] = obs
    <3>1. Range(list[c]) \ {NULL} \subseteq {obs} /\ NULL \notin Range(list[c])
      BY <1>1, <1>5, <2>1, <2>2 DEF Vectors
    <3> QED BY <3>1 DEF Range
  <2>4. 1 \in DOMAIN list[c] /\ \A i \in DOMAIN list[c] : i = 1
    <3>1. 1 \in DOMAIN list[c]
      BY <1>7, <1>8
    <3> QED BY <1>1, <1>7, <2>3, <3>1 DEF Vectors, OnlyOnce
  <2>5. Len(list[c]) = 1
    <3>1. PICK n \in Nat : n = Len(list[c])
      BY <1>7
    <3>2. 1 \in 1..n /\ (n \in 1..n => n = 1)
      BY <1>7, <2>4, <3>1
    <3> QED BY <3>1, <3>2
  <2> QED BY <2>1, <2>3, <2>4, <2>5 DEF LastOne, Range
<1>10. LastOne(c, obs) => registered'[t] = {} /\ Range(kept) \subseteq {NULL}
                          /\ (depth[c] = 0 => kept = <<>>)
  <2> SUFFICES ASSUME LastOne(c, obs)
               PROVE  registered'[t] = {} /\ Range(kept) \subseteq {NULL}
                         /\ (depth[c] = 0 => kept = <<>>)
    OBVIOUS
  <2>1. Range(list[c]) = {obs}
    <3>1. DOMAIN list[c] = {1} /\ obs \in Range(list[c])
      BY <1>7 DEF LastOne
    <3> QED BY <3>1 DEF Range
  <2>2. Range(kept) \subseteq {NULL}
    BY <1>5, <2>1
  <2>3. depth[c] = 0 => Range(kept) = {}
    BY <1>5, <2>2
  <2>4. Range(kept) = {} => kept = <<>>
    <3>1. Len(kept) \in Nat /\ DOMAIN kept = 1..Len(kept)
      BY <1>5
    <3>2. 1 \in DOMAIN kept => Range(kept) # {}
      BY DEF Range
    <3> QED BY <1>5, <3>1, <3>2
  <2> QED BY <1>6, <1>7, <2>1, <2>2, <2>3, <2>4
<1>11. TypeOK'
  <2>1. observer_lists' \in [Loop -> Context \union {NULL}]
    BY <1>4 DEF TypeOK
  <2>2. owed'[t] \in SUBSET (Observer \X (1..MaxNotes))
    BY <1>6 DEF TypeOK
  <2>3. owed' \in [Loop -> SUBSET (Observer \X (1..MaxNotes))]
    BY <1>4, <1>6, <2>2 DEF TypeOK
  <2>4. list' \in [Context -> Seq(Observer \union {NULL})]
    BY <1>4, <1>5 DEF TypeOK
  <2>5. registered' \in [Loop -> SUBSET Observer] /\ allocated' \in SUBSET Context
    BY <1>4 DEF TypeOK
  <2> QED BY <1>4, <2>1, <2>3, <2>4, <2>5 DEF TypeOK
<1>12. \A u \in Loop, d \in Context : Holds(u, d)' => Holds(u, d)
  BY <1>2, <1>6, <1>7 DEF Holds
<1>13. \A u \in Loop : observer_lists[u] = c \/ c \in InUse(u) => u = t
  BY <1>1, <1>2 DEF Apart, Holds
<1>14. Exist'
  <2>1. ASSUME NEW d \in Context, d # c PROVE (d \in allocated <=> \E u \in Loop : Holds(u, d))'
    <3>1. \A u \in Loop : Holds(u, d)' <=> Holds(u, d)
      BY <1>2, <1>6, <1>7, <2>1, ListsTyped DEF Holds
    <3>2. d \in allocated' <=> d \in allocated
      BY <1>4, <2>1
    <3> QED BY <1>1, <3>1, <3>2 DEF Exist
  <2>2. (c \in allocated <=> \E u \in Loop : Holds(u, c))'
    <3>1. CASE kept = <<>>
      <4>1. \A u \in Loop : c \notin InUse(u)
        BY <1>1, <1>9, <3>1, DepthTells
      <4>2. \A u \in Loop : observer_lists'[u] # c
        BY <1>6, <1>7, <1>9, <1>13, <3>1
      <4> QED BY <1>4, <1>6, <3>1, <4>1, <4>2 DEF Holds
    <3>2. CASE kept # <<>>
      <4>1. Holds(t, c)'
        <5>1. CASE ~LastOne(c, obs)
          BY <1>6, <5>1 DEF Holds
        <5>2. CASE LastOne(c, obs)
          <6>1. \E u \in Loop : c \in InUse(u)
            BY <1>1, <1>10, <3>2, <5>2, DepthTells
          <6> QED BY <1>6, <1>13, <6>1 DEF Holds
        <5> QED BY <5>1, <5>2
      <4> QED BY <1>4, <1>8, <3>2, <4>1
    <3> QED BY <3>1, <3>2
  <2> QED BY <2>1, <2>2 DEF Exist
<1>15. Apart'
  BY <1>1, <1>12 DEF Apart
<1>16. Depths'
  BY <1>1, <1>4, <1>6 DEF Depths
<1>17. Vectors'
  <2>1. ASSUME NEW d \in Context, d # c
        PROVE  (/\ OnlyOnce(list[d], {NULL})
                /\ depth[d] = 0 => NULL \notin Range(list[d])
                /\ d \in allocated <=> list[d] # <<>>)'
    BY <1>1, <1>4, <1>6, <2>1 DEF Vectors
  <2>2. (/\ OnlyOnce(list[c], {NULL})
         /\ depth[c] = 0 => NULL \notin Range(list[c])
         /\ c \in allocated <=> list[c] # <<>>)'
    BY <1>4, <1>5, <1>6, <1>8
  <2> QED BY <2>1, <2>2 DEF Vectors
<1>18. RegisteredAreListed'
  <2>1. ASSUME NEW u \in Loop
        PROVE  registered'[u] = IF observer_lists'[u] = NULL THEN {}
                                ELSE Range(list'[observer_lists'[u]]) \ {NULL}
    <3>1. CASE u = t
      BY <1>5, <1>6, <1>7, <1>10, <3>1
    <3>2. CASE u # t
      <4>1. observer_lists[u] = NULL \/ list'[observer_lists[u]] = list[observer_lists[u]]
        BY <1>6, <1>13, <3>2, ListsTyped
      <4>2. registered[u] = IF observer_lists[u] = NULL THEN {}
                            ELSE Range(list[observer_lists[u]]) \ {NULL}
        BY <1>1 DEF RegisteredAreListed
      <4>3. registered'[u] = registered[u] /\ observer_lists'[u] = observer_lists[u]
        BY <1>6, <3>2
      <4> QED BY <4>1, <4>2, <4>3
    <3> QED BY <3>1, <3>2
  <2>2. ASSUME NEW d \in Context, \A u \in Loop : observer_lists'[u] # d
        PROVE  Range(list'[d]) \subseteq {NULL}
    <3>1. CASE d = c
      BY <1>6, <1>10, <2>2, <3>1
    <3>2. CASE d # c
      BY <1>1, <1>2, <1>6, <2>2, <3>2 DEF RegisteredAreListed
    <3> QED BY <3>1, <3>2
  <2> QED BY <2>1, <2>2 DEF RegisteredAreListed
<1>19. Delivered'
  <2>1. \A u \in Loop : Delivering(u)
    BY <1>1 DEF Delivered
  <2>2. ASSUME NEW u \in Loop, u # t PROVE Delivering(u)'
    <3>1. observer_lists[u] # NULL => list'[observer_lists[u]] = list[observer_lists[u]]
      BY <1>6, <1>13, <2>2, ListsTyped
    <3> QED BY <1>1, <1>4, <1>6, <2>1, <2>2, <3>1, OthersDeliver
  <2>3. Delivering(t)'
    <3> SUFFICES ASSUME NEW o \in Observer, NEW n \in 1..MaxNotes, <<o, n>> \in owed'[t]
                 PROVE  o \in registered'[t] /\ OnItsWay(t, o, n)'
      BY DEF Delivering
    <3>1. <<o, n>> \in owed[t] /\ o # obs
      BY <1>6
    <3>2. o \in registered[t] /\ OnItsWay(t, o, n)
      BY <2>1, <3>1 DEF Delivering
    <3>3. o \in registered'[t]
      BY <1>6, <3>1, <3>2
    <3>4. observer_lists'[t] = c
      BY <1>6, <1>10, <3>3
    <3>5. CASE \E k \in DOMAIN queue[t] : queue[t][k] = [context |-> c, note |-> n]
      BY <1>4, <3>3, <3>4, <3>5 DEF OnItsWay
    <3>6. CASE \E k \in DOMAIN stack[t] :
                 /\ stack[t][k].context = c /\ stack[t][k].note = n
                 /\ Finds(list[c], stack[t][k], o)
      <4>1. c \in InUse(t)
        BY <3>6 DEF InUse
      <4>2. depth[c] # 0
        BY <1>1, <4>1, DepthTells
      <4>3. \A it : Finds(list[c], it, o) => Finds(kept, it, o)
        BY <1>5, <3>1, <4>2 DEF Finds
      <4> QED BY <1>4, <1>6, <3>3, <3>4, <3>6, <4>3 DEF OnItsWay
    <3> QED BY <1>2, <3>2, <3>5, <3>6 DEF OnItsWay
  <2> QED BY <2>2, <2>3 DEF Delivered
<1> QED BY <1>11, <1>14, <1>15, <1>16, <1>17, <1>18, <1>19 DEF ListsInv


\* Steps that leave the map, the lists and the registrations alone keep the
\* conjuncts that are about them.
LEMMA MapKeeps ==
  ASSUME Vectors, RegisteredAreListed,
         UNCHANGED <<observer_lists, allocated, list, registered>>,
         \A c \in Context : depth'[c] = 0 => depth[c] = 0
  PROVE  Vectors' /\ RegisteredAreListed'
<1>1. Vectors'
  BY DEF Vectors
<1>2. RegisteredAreListed'
  BY DEF RegisteredAreListed
<1> QED BY <1>1, <1>2

LEMMA Added ==
  ASSUME NEW S, NEW q \in Seq(S), NEW x \in S, NEW p, p = Append(q, x)
  PROVE  /\ p \in Seq(S)
         /\ \E k \in DOMAIN p : p[k] = x
         /\ \A k \in DOMAIN q : k \in DOMAIN p /\ p[k] = q[k]
<1>1. PICK n \in Nat : n = Len(q)
  OBVIOUS
<1>2. p \in Seq(S) /\ DOMAIN p = 1..(n + 1) /\ DOMAIN q = 1..n
        /\ p[n + 1] = x /\ \A k \in 1..n : p[k] = q[k]
  BY <1>1
<1>3. n + 1 \in 1..(n + 1) /\ \A k \in 1..n : k \in 1..(n + 1)
  OBVIOUS
<1> QED BY <1>2, <1>3

LEMMA NotifyKeeps ==
  ASSUME TypeOK, ListsInv, NEW t \in Loop, Notify(t)
  PROVE  TypeOK' /\ ListsInv'
<1>1. Exist /\ Apart /\ Depths /\ Vectors /\ RegisteredAreListed /\ Delivered
  BY DEF ListsInv
<1>2. PICK now \in 1..MaxNotes : now = notes + 1
  BY ListsAssumption DEF Notify, TypeOK
<1>3. /\ notes' = now
      /\ queue' = [l \in Loop |->
                     IF observer_lists[l] = NULL THEN queue[l]
                     ELSE Append(queue[l], [context |-> observer_lists[l], note |-> now])]
      /\ owed' = [l \in Loop |-> owed[l] \union (registered[l] \X {now})]
      /\ UNCHANGED <<observer_lists, allocated, list, depth, stack, clients, registered>>
  BY <1>2 DEF Notify
<1>4. ASSUME NEW l \in Loop, observer_lists[l] # NULL
      PROVE  LET call == [context |-> observer_lists[l], note |-> now]
                 q == Append(queue[l], call)
             IN  /\ queue'[l] = q
                 /\ q \in Seq([context : Context, note : 1..MaxNotes])
                 /\ \E k \in DOMAIN q : q[k] = call
                 /\ \A k \in DOMAIN queue[l] : k \in DOMAIN q /\ q[k] = queue[l][k]
  <2>1. PICK call \in [context : Context, note : 1..MaxNotes] :
          call = [context |-> observer_lists[l], note |-> now]
    BY <1>4, ListsTyped
  <2>2. queue[l] \in Seq([context : Context, note : 1..MaxNotes])
    BY ListsTyped
  <2>3. PICK q : q = Append(queue[l], call)
    OBVIOUS
  <2>4. /\ q \in Seq([context : Context, note : 1..MaxNotes])
        /\ \E k \in DOMAIN q : q[k] = call
        /\ \A k \in DOMAIN queue[l] : k \in DOMAIN q /\ q[k] = queue[l][k]
    BY <2>1, <2>2, <2>3, Added
  <2>5. queue'[l] = q
    BY <1>3, <1>4, <2>1, <2>3
  <2> QED BY <2>1, <2>3, <2>4, <2>5
<1>5. TypeOK'
  <2>1. queue' \in [Loop -> Seq([context : Context, note : 1..MaxNotes])]
    <3>1. \A l \in Loop : queue'[l] \in Seq([context : Context, note : 1..MaxNotes])
      BY <1>3, <1>4, ListsTyped
    <3> QED BY <1>3, <3>1
  <2>2. owed' \in [Loop -> SUBSET (Observer \X (1..MaxNotes))]
    <3>1. \A l \in Loop : owed'[l] \in SUBSET (Observer \X (1..MaxNotes))
      BY <1>3, ListsTyped
    <3> QED BY <1>3, <3>1
  <2>3. notes' \in 0..MaxNotes
    BY <1>3
  <2> QED BY <1>3, <2>1, <2>2, <2>3 DEF TypeOK
<1>6. \A u \in Loop : InUse(u)' = InUse(u) /\ \A c \in Context : Holds(u, c)' <=> Holds(u, c)
  BY <1>3 DEF InUse, Holds
<1>7. Exist' /\ Apart'
  BY <1>1, <1>3, <1>6 DEF Exist, Apart
<1>8. Depths'
  BY <1>1, <1>3, <1>6 DEF Depths
<1>9. Vectors' /\ RegisteredAreListed'
  BY <1>1, <1>3, MapKeeps
<1>10. Delivered'
  <2> SUFFICES ASSUME NEW l \in Loop, NEW o \in Observer, NEW n \in 1..MaxNotes,
                      <<o, n>> \in owed'[l]
               PROVE  o \in registered'[l] /\ OnItsWay(l, o, n)'
    BY DEF Delivered, Delivering
  <2>1. \/ <<o, n>> \in owed[l]
        \/ o \in registered[l] /\ n = now
    BY <1>3
  <2>2. CASE <<o, n>> \in owed[l]
    <3>1. o \in registered[l] /\ OnItsWay(l, o, n)
      BY <1>1, <2>2 DEF Delivered, Delivering
    <3>2. observer_lists[l] # NULL
      BY <1>1, <3>1 DEF RegisteredAreListed
    <3>3. CASE \E k \in DOMAIN queue[l] : queue[l][k] = [context |-> observer_lists[l], note |-> n]
      <4>1. \E k \in DOMAIN queue'[l] : queue'[l][k] = [context |-> observer_lists[l], note |-> n]
        BY <1>4, <3>2, <3>3
      <4> QED BY <1>3, <3>1, <4>1 DEF OnItsWay
    <3>4. CASE \E k \in DOMAIN stack[l] :
                 /\ stack[l][k].context = observer_lists[l] /\ stack[l][k].note = n
                 /\ Finds(list[observer_lists[l]], stack[l][k], o)
      BY <1>3, <3>1, <3>4 DEF OnItsWay
    <3> QED BY <3>1, <3>3, <3>4 DEF OnItsWay
  <2>3. CASE o \in registered[l] /\ n = now
    <3>1. observer_lists[l] # NULL
      BY <1>1, <2>3 DEF RegisteredAreListed
    <3>2. \E k \in DOMAIN queue'[l] : queue'[l][k] = [context |-> observer_lists[l], note |-> n]
      BY <1>4, <2>3, <3>1
    <3> QED BY <1>3, <2>3, <3>2 DEF OnItsWay
  <2> QED BY <2>1, <2>2, <2>3
<1> QED BY <1>5, <1>7, <1>8, <1>9, <1>10 DEF ListsInv

LEMMA NotifyWrapperKeeps ==
  ASSUME TypeOK, ListsInv, NEW t \in Loop, NotifyWrapper(t)
  PROVE  TypeOK' /\ ListsInv'
<1>1. Exist /\ Apart /\ Depths /\ Vectors /\ RegisteredAreListed /\ Delivered
  BY DEF ListsInv
<1>2. /\ queue[t] # <<>> /\ queue[t] \in Seq([context : Context, note : 1..MaxNotes])
      /\ queue' = [queue EXCEPT ![t] = Tail(queue[t])]
      /\ UNCHANGED <<observer_lists, allocated, list, notes, clients, registered, owed>>
  BY ListsTyped DEF NotifyWrapper
<1>3. /\ Head(queue[t]) \in [context : Context, note : 1..MaxNotes]
      /\ Tail(queue[t]) \in Seq([context : Context, note : 1..MaxNotes])
      /\ \A k \in DOMAIN queue[t] :
           k = 1 \/ (k - 1 \in DOMAIN Tail(queue[t]) /\ Tail(queue[t])[k - 1] = queue[t][k])
      /\ Head(queue[t]) = queue[t][1]
  BY <1>2, Popped
<1>4. PICK c \in Context, n \in 1..MaxNotes : Head(queue[t]) = [context |-> c, note |-> n]
  BY <1>3
<1>5. /\ queue'[t] = Tail(queue[t])
      /\ \A u \in Loop : u # t => queue'[u] = queue[u]
      /\ queue' \in [Loop -> Seq([context : Context, note : 1..MaxNotes])]
  BY <1>2, <1>3 DEF TypeOK
<1>6. CASE observer_lists[t] # c
  <2>1. UNCHANGED <<depth, stack>>
    BY <1>4, <1>6 DEF NotifyWrapper, IsCurrent
  <2>2. TypeOK'
    BY <1>2, <1>5, <2>1 DEF TypeOK
  <2>3. \A u \in Loop : InUse(u)' = InUse(u) /\ \A d \in Context : Holds(u, d)' <=> Holds(u, d)
    BY <1>2, <2>1 DEF InUse, Holds
  <2>4. Exist' /\ Apart'
    BY <1>1, <1>2, <2>3 DEF Exist, Apart
  <2>5. Depths'
    BY <1>1, <2>1, <2>3 DEF Depths
  <2>6. Vectors' /\ RegisteredAreListed'
    BY <1>1, <1>2, <2>1, MapKeeps
  <2>7. ASSUME NEW u \in Loop PROVE Delivering(u)'
    <3>1. Delivering(u)
      BY <1>1 DEF Delivered
    <3>2. CASE u # t
      BY <1>1, <1>2, <1>5, <2>1, <3>1, <3>2, OthersDeliver
    <3>3. CASE u = t
      <4> SUFFICES ASSUME NEW o \in Observer, NEW m \in 1..MaxNotes, <<o, m>> \in owed[t]
                   PROVE  o \in registered'[t] /\ OnItsWay(t, o, m)'
        BY <1>2, <3>3 DEF Delivering
      <4>1. o \in registered[t] /\ OnItsWay(t, o, m)
        BY <3>1, <3>3 DEF Delivering
      <4>2. ASSUME NEW k \in DOMAIN queue[t],
                   queue[t][k] = [context |-> observer_lists[t], note |-> m]
            PROVE  k - 1 \in DOMAIN queue'[t] /\ queue'[t][k - 1] = queue[t][k]
        <5>1. k # 1
          BY <1>3, <1>4, <1>6, <4>2
        <5> QED BY <1>3, <1>5, <5>1
      <4> QED BY <1>2, <2>1, <4>1, <4>2 DEF OnItsWay
    <3> QED BY <3>2, <3>3
  <2>8. Delivered'
    BY <2>7 DEF Delivered
  <2> QED BY <2>2, <2>4, <2>5, <2>6, <2>8 DEF ListsInv
<1>7. CASE observer_lists[t] = c
  <2>1. PICK frame \in Frame :
          /\ frame.context = c /\ frame.note = n /\ frame.index = 0
          /\ frame.max = Len(list[c])
          /\ stack' = [stack EXCEPT ![t] = <<frame>> \o stack[t]]
    <3>1. PICK frame : frame = [context |-> c, note |-> n, index |-> 0,
                                max |-> Len(list[c]), calling |-> NULL]
      OBVIOUS
    <3>2. Len(list[c]) \in Nat
      BY ListsTyped
    <3>3. frame \in Frame /\ frame.context = c /\ frame.note = n /\ frame.index = 0
            /\ frame.max = Len(list[c])
      BY <3>1, <3>2 DEF Frame
    <3>4. stack' = [stack EXCEPT ![t] = <<frame>> \o stack[t]]
      BY <1>4, <1>7, <3>1 DEF NotifyWrapper, IsCurrent
    <3> QED BY <3>3, <3>4
  <2>2. depth' = [depth EXCEPT ![c] = depth[c] + 1]
    BY <1>4, <1>7 DEF NotifyWrapper, IsCurrent
  <2>3. stack[t] \in Seq(Frame)
    BY ListsTyped
  <2>4. PICK s \in Seq(Frame) :
          /\ s = <<frame>> \o stack[t] /\ s # <<>>
          /\ Head(s) = frame /\ Tail(s) = stack[t]
          /\ 1 \in DOMAIN s /\ s[1] = frame
          /\ \A k \in DOMAIN s : k = 1 \/ (k - 1 \in DOMAIN stack[t] /\ stack[t][k - 1] = s[k])
          /\ \A k \in DOMAIN stack[t] : k + 1 \in DOMAIN s /\ s[k + 1] = stack[t][k]
    <3>1. PICK s : s = <<frame>> \o stack[t]
      OBVIOUS
    <3>2. /\ s \in Seq(Frame) /\ s # <<>> /\ Head(s) = frame /\ Tail(s) = stack[t]
          /\ s[1] = frame
      BY <2>3, <3>1, Pushed
    <3>3. /\ 1 \in DOMAIN s
          /\ \A k \in DOMAIN stack[t] : k + 1 \in DOMAIN s /\ stack[t][k] = s[k + 1]
          /\ \A k \in DOMAIN s :
               k = 1 \/ (k - 1 \in DOMAIN stack[t] /\ stack[t][k - 1] = s[k])
      BY <3>2, Popped
    <3> QED BY <3>1, <3>2, <3>3
  <2>5. stack'[t] = s /\ \A u \in Loop : u # t => stack'[u] = stack[u]
    BY <2>1, <2>4 DEF TypeOK
  <2>6. /\ depth'[c] = depth[c] + 1 /\ depth[c] \in Nat
        /\ \A d \in Context : d # c => depth'[d] = depth[d]
    BY <2>2 DEF TypeOK
  <2>7. TypeOK'
    <3>1. stack' \in [Loop -> Seq(Frame)]
      BY <2>1, <2>4 DEF TypeOK
    <3>2. depth' \in [Context -> Nat]
      BY <2>2, <2>6 DEF TypeOK
    <3> QED BY <1>2, <1>5, <3>1, <3>2 DEF TypeOK
  <2>8. /\ InUse(t)' = InUse(t) \union {c}
        /\ \A u \in Loop : u # t => InUse(u)' = InUse(u)
    <3>1. \A d : d \in InUse(t)' <=> d \in InUse(t) \/ d = c
      <4>1. ASSUME NEW d \in InUse(t)' PROVE d \in InUse(t) \/ d = c
        <5>1. PICK k \in DOMAIN s : s[k].context = d
          BY <2>5 DEF InUse
        <5> QED BY <2>1, <2>4, <5>1 DEF InUse
      <4>2. ASSUME NEW d, d \in InUse(t) \/ d = c PROVE d \in InUse(t)'
        <5>1. \E k \in DOMAIN s : s[k].context = d
          <6>1. CASE d = c
            BY <2>1, <2>4, <6>1
          <6>2. CASE d \in InUse(t)
            <7>1. PICK k \in DOMAIN stack[t] : stack[t][k].context = d
              BY <6>2 DEF InUse
            <7> QED BY <2>4, <7>1
          <6> QED BY <4>2, <6>1, <6>2
        <5> QED BY <2>5, <5>1 DEF InUse
      <4> QED BY <4>1, <4>2
    <3> QED BY <2>5, <3>1 DEF InUse
  <2>9. \A u \in Loop, d \in Context : Holds(u, d)' <=> Holds(u, d)
    BY <1>2, <1>7, <2>8 DEF Holds
  <2>10. Exist' /\ Apart'
    BY <1>1, <1>2, <2>9 DEF Exist, Apart
  <2>11. Depths'
    <3>1. \A d \in Context : CountOn(s, d) = CountOn(stack[t], d) + (IF d = c THEN 1 ELSE 0)
      <4>1. \A d \in Context :
              CountOn(s, d) = CountOn(Tail(s), d) + (IF Head(s).context = d THEN 1 ELSE 0)
        BY <2>4, CountPopped
      <4>2. Head(s).context = c
        BY <2>1, <2>4
      <4>3. \A d \in Context : CountOn(Tail(s), d) = CountOn(stack[t], d)
        BY <2>4
      <4> QED BY <4>1, <4>2, <4>3
    <3>2. \A d \in Context : CountOn(stack[t], d) \in Nat
      BY <2>3, CountTyped
    <3>3. c \in InUse(t) => depth[c] = CountOn(stack[t], c)
      BY <1>1 DEF Depths
    <3>4. c \notin InUse(t) => depth[c] = 0 /\ CountOn(stack[t], c) = 0
      <4>1. \A u \in Loop : c \in InUse(u) => u = t
        BY <1>1, <1>7 DEF Apart, Holds
      <4>2. c \notin InUse(t) => \A i \in DOMAIN stack[t] : stack[t][i].context # c
        BY DEF InUse
      <4> QED BY <1>1, <2>3, <4>1, <4>2, CountTyped DEF Depths
    <3>5. depth'[c] = CountOn(s, c)
      BY <2>6, <3>1, <3>3, <3>4
    <3>6. \A u \in Loop : u # t => c \notin InUse(u)
      BY <1>1, <1>7 DEF Apart, Holds
    <3>7. ASSUME NEW d \in Context, d # c
          PROVE  /\ \A u \in Loop : d \in InUse(u)' => depth'[d] = CountOn(stack'[u], d)
                 /\ (\A u \in Loop : d \notin InUse(u)') => depth'[d] = 0
      <4>1. \A u \in Loop : CountOn(stack'[u], d) = CountOn(stack[u], d)
        BY <2>5, <3>1, <3>2, <3>7
      <4>2. \A u \in Loop : d \in InUse(u)' <=> d \in InUse(u)
        BY <2>8, <3>7
      <4> QED BY <1>1, <2>6, <3>7, <4>1, <4>2 DEF Depths
    <3>8. \A u \in Loop : c \in InUse(u)' => depth'[c] = CountOn(stack'[u], c)
      BY <2>5, <2>8, <3>5, <3>6
    <3>9. c \in InUse(t)'
      BY <2>8
    <3> QED BY <3>7, <3>8, <3>9 DEF Depths
  <2>12. Vectors' /\ RegisteredAreListed'
    <3>1. \A d \in Context : depth'[d] = 0 => depth[d] = 0
      BY <2>6
    <3> QED BY <1>1, <1>2, <3>1, MapKeeps
  <2>13. ASSUME NEW u \in Loop PROVE Delivering(u)'
    <3>1. Delivering(u)
      BY <1>1 DEF Delivered
    <3>2. CASE u # t
      BY <1>1, <1>2, <1>5, <2>5, <3>1, <3>2, OthersDeliver
    <3>3. CASE u = t
      <4> SUFFICES ASSUME NEW o \in Observer, NEW m \in 1..MaxNotes, <<o, m>> \in owed[t]
                   PROVE  o \in registered'[t] /\ OnItsWay(t, o, m)'
        BY <1>2, <3>3 DEF Delivering
      <4>1. o \in registered[t] /\ OnItsWay(t, o, m)
        BY <3>1, <3>3 DEF Delivering
      <4>2. CASE m = n
        <5>1. o \in Range(list[c])
          <6>1. registered[t] = Range(list[c]) \ {NULL}
            BY <1>1, <1>7, ListsTyped DEF RegisteredAreListed
          <6> QED BY <4>1, <6>1
        <5>2. \E i \in DOMAIN list[c] : list[c][i] = o /\ 0 < i /\ i <= Len(list[c])
          <6>1. PICK len \in Nat : len = Len(list[c])
            BY ListsTyped
          <6>2. PICK i \in DOMAIN list[c] : list[c][i] = o
            BY <5>1 DEF Range
          <6>3. i \in 1..len
            BY <6>1, <6>2, ListsTyped
          <6>4. 0 < i /\ i <= len
            BY <6>3
          <6> QED BY <6>1, <6>2, <6>4
        <5>3. Finds(list[c], frame, o)
          BY <2>1, <5>2 DEF Finds
        <5>4. s[1].context = c /\ s[1].note = m /\ Finds(list[c], s[1], o)
          BY <2>1, <2>4, <4>2, <5>3
        <5> QED BY <1>2, <1>7, <2>4, <2>5, <4>1, <5>4 DEF OnItsWay
      <4>3. CASE m # n
        <5>1. CASE \E k \in DOMAIN queue[t] : queue[t][k] = [context |-> c, note |-> m]
          <6>1. PICK k \in DOMAIN queue[t] : queue[t][k] = [context |-> c, note |-> m]
            BY <5>1
          <6>2. k # 1
            BY <1>3, <1>4, <4>3, <6>1
          <6>3. k - 1 \in DOMAIN queue'[t] /\ queue'[t][k - 1] = [context |-> c, note |-> m]
            BY <1>3, <1>5, <6>1, <6>2
          <6> QED BY <1>2, <1>7, <4>1, <6>3 DEF OnItsWay
        <5>2. CASE \E k \in DOMAIN stack[t] :
                     /\ stack[t][k].context = c /\ stack[t][k].note = m
                     /\ Finds(list[c], stack[t][k], o)
          <6>1. PICK k \in DOMAIN stack[t] :
                     /\ stack[t][k].context = c /\ stack[t][k].note = m
                     /\ Finds(list[c], stack[t][k], o)
            BY <5>2
          <6>2. k + 1 \in DOMAIN s /\ s[k + 1] = stack[t][k]
            BY <2>4
          <6> QED BY <1>2, <1>7, <2>5, <4>1, <6>1, <6>2 DEF OnItsWay
        <5> QED BY <1>7, <4>1, <5>1, <5>2 DEF OnItsWay
      <4> QED BY <4>2, <4>3
    <3> QED BY <3>2, <3>3
  <2>14. Delivered'
    BY <2>13 DEF Delivered
  <2> QED BY <2>7, <2>10, <2>11, <2>12, <2>14 DEF ListsInv
<1> QED BY <1>6, <1>7


\* An iterator that finds an observer iterates over the context the map has for
\* its loop: in the contexts the map no longer has, nobody is left.
LEMMA WhoIsCalled ==
  ASSUME TypeOK, ListsInv, NEW t \in Loop, stack[t] # <<>>,
         NEW i \in L(Head(stack[t]).context)!Ahead(Head(stack[t]))
  PROVE  /\ Head(stack[t]).context = observer_lists[t]
         /\ list[observer_lists[t]][i] \in registered[t]
         /\ i \in DOMAIN list[observer_lists[t]]
<1>1. Apart /\ RegisteredAreListed
  BY DEF ListsInv
<1>2. stack[t] \in Seq(Frame)
  BY ListsTyped
<1>3. 1 \in DOMAIN stack[t] /\ Head(stack[t]) = stack[t][1] /\ Head(stack[t]) \in Frame
  BY <1>2, Popped
<1>4. PICK c \in Context, top \in Frame : top = Head(stack[t]) /\ c = top.context
  BY <1>3 DEF Frame
<1>5. c \in InUse(t)
  BY <1>3, <1>4 DEF InUse
<1>6. i \in L(c)!Ahead(top)
  BY <1>4
<1>7. i \in DOMAIN list[c] /\ list[c][i] # NULL
  BY <1>6, WhatIsAhead
<1>8. list[c][i] \in Range(list[c])
  BY <1>7 DEF Range
<1>9. PICK u \in Loop : observer_lists[u] = c
  BY <1>1, <1>7, <1>8 DEF RegisteredAreListed
<1>10. u = t
  BY <1>1, <1>5, <1>9 DEF Apart, Holds
<1>11. registered[t] = Range(list[c]) \ {NULL}
  BY <1>1, <1>9, <1>10, ListsTyped DEF RegisteredAreListed
<1> QED BY <1>4, <1>7, <1>8, <1>9, <1>10, <1>11

LEMMA RunMethodKeeps ==
  ASSUME TypeOK, ListsInv, NEW t \in Loop, RunMethod(t)
  PROVE  TypeOK' /\ ListsInv'
<1>1. Exist /\ Apart /\ Depths /\ Vectors /\ RegisteredAreListed /\ Delivered
  BY DEF ListsInv
<1>2. /\ stack[t] # <<>> /\ stack[t] \in Seq(Frame)
      /\ UNCHANGED <<observer_lists, allocated, list, depth, queue, notes, clients, registered>>
  BY ListsTyped DEF RunMethod
<1>3. 1 \in DOMAIN stack[t] /\ Head(stack[t]) = stack[t][1] /\ Head(stack[t]) \in Frame
  BY <1>2, Popped
<1>4. PICK c \in Context, top \in Frame :
        top = Head(stack[t]) /\ c = top.context /\ top.note \in 1..MaxNotes
  BY <1>3 DEF Frame
<1>5. PICK i \in L(c)!Ahead(top) :
        /\ \A j \in L(c)!Ahead(top) : i <= j
        /\ stack' = [stack EXCEPT ![t][1].index = i, ![t][1].calling = list[c][i]]
        /\ owed' = [owed EXCEPT ![t] = owed[t] \ {<<list[c][i], top.note>>}]
  BY <1>4 DEF RunMethod
<1>6. c = observer_lists[t] /\ list[c][i] \in registered[t] /\ i \in DOMAIN list[c]
  BY <1>2, <1>4, <1>5, WhoIsCalled
<1>7. i \in Nat /\ list[c][i] \in Observer
  BY <1>6, ListsTyped
<1>8. PICK called \in Frame :
        /\ called.context = c /\ called.note = top.note /\ called.max = top.max
        /\ called.index = i
        /\ called = [[top EXCEPT !.index = i] EXCEPT !.calling = list[c][i]]
  BY <1>4, <1>7 DEF Frame
<1>9. PICK s : s = [stack[t] EXCEPT ![1] = called]
  OBVIOUS
<1>10. /\ DOMAIN s = DOMAIN stack[t] /\ s[1] = called
       /\ \A k \in DOMAIN stack[t] : k # 1 => s[k] = stack[t][k]
  BY <1>3, <1>9
<1>11. s \in Seq(Frame)
  <2>1. PICK m \in Nat : m = Len(stack[t])
    BY <1>2
  <2>2. stack[t] \in [1..m -> Frame]
    BY <1>2, <2>1
  <2>3. s \in [1..m -> Frame]
    BY <1>9, <2>2
  <2> QED BY <2>3
<1>12. /\ stack' = [stack EXCEPT ![t] = s]
       /\ stack'[t] = s /\ \A u \in Loop : u # t => stack'[u] = stack[u]
  <2>1. stack' = [stack EXCEPT ![t] = [stack[t] EXCEPT ![1] =
                    [[stack[t][1] EXCEPT !.index = i] EXCEPT !.calling = list[c][i]]]]
    BY <1>3, <1>5 DEF TypeOK
  <2>2. stack[t][1] = top
    BY <1>3, <1>4
  <2>3. stack' = [stack EXCEPT ![t] = s]
    BY <1>8, <1>9, <2>1, <2>2
  <2> QED BY <2>3 DEF TypeOK
<1>13. /\ owed'[t] = owed[t] \ {<<list[c][i], top.note>>}
       /\ \A u \in Loop : u # t => owed'[u] = owed[u]
  BY <1>5 DEF TypeOK
<1>14. TypeOK'
  <2>1. stack' \in [Loop -> Seq(Frame)]
    BY <1>11, <1>12 DEF TypeOK
  <2>2. owed' \in [Loop -> SUBSET (Observer \X (1..MaxNotes))]
    BY <1>5, ListsTyped DEF TypeOK
  <2> QED BY <1>2, <2>1, <2>2 DEF TypeOK
<1>15. \A k \in DOMAIN stack[t] : s[k].context = stack[t][k].context
                                  /\ s[k].note = stack[t][k].note
  BY <1>3, <1>4, <1>8, <1>10
<1>16. \A u \in Loop : InUse(u)' = InUse(u)
  <2>1. InUse(t)' = {s[k].context : k \in DOMAIN s}
    BY <1>12 DEF InUse
  <2>2. {s[k].context : k \in DOMAIN s} = {stack[t][k].context : k \in DOMAIN stack[t]}
    BY <1>10, <1>15
  <2>3. InUse(t)' = InUse(t)
    BY <2>1, <2>2 DEF InUse
  <2>4. \A u \in Loop : u # t => InUse(u)' = InUse(u)
    BY <1>12 DEF InUse
  <2> QED BY <2>3, <2>4
<1>17. \A u \in Loop, d \in Context : Holds(u, d)' <=> Holds(u, d)
  BY <1>2, <1>16 DEF Holds
<1>18. Exist' /\ Apart'
  BY <1>1, <1>2, <1>17 DEF Exist, Apart
<1>19. Depths'
  <2>1. \A d \in Context : CountOn(s, d) = CountOn(stack[t], d)
    <3>1. \A d \in Context : {k \in DOMAIN s : s[k].context = d} =
                             {k \in DOMAIN stack[t] : stack[t][k].context = d}
      BY <1>10, <1>15
    <3> QED BY <3>1 DEF CountOn
  <2>2. \A u \in Loop, d \in Context : CountOn(stack'[u], d) = CountOn(stack[u], d)
    BY <1>12, <2>1
  <2> QED BY <1>1, <1>2, <1>16, <2>2 DEF Depths
<1>20. Vectors' /\ RegisteredAreListed'
  BY <1>1, <1>2, MapKeeps
<1>21. ASSUME NEW u \in Loop PROVE Delivering(u)'
  <2>1. Delivering(u)
    BY <1>1 DEF Delivered
  <2>2. CASE u # t
    BY <1>1, <1>2, <1>12, <1>13, <2>1, <2>2, OthersDeliver
  <2>3. CASE u = t
    <3> SUFFICES ASSUME NEW o \in Observer, NEW m \in 1..MaxNotes, <<o, m>> \in owed'[t]
                 PROVE  o \in registered'[t] /\ OnItsWay(t, o, m)'
      BY <2>3 DEF Delivering
    <3>1. <<o, m>> \in owed[t] /\ ~(o = list[c][i] /\ m = top.note)
      BY <1>13
    <3>2. o \in registered[t] /\ OnItsWay(t, o, m)
      BY <2>1, <2>3, <3>1 DEF Delivering
    <3>3. CASE \E k \in DOMAIN queue[t] : queue[t][k] = [context |-> c, note |-> m]
      BY <1>2, <1>6, <3>2, <3>3 DEF OnItsWay
    <3>4. CASE \E k \in DOMAIN stack[t] :
                 /\ stack[t][k].context = c /\ stack[t][k].note = m
                 /\ Finds(list[c], stack[t][k], o)
      <4>1. PICK k \in DOMAIN stack[t] :
                 /\ stack[t][k].context = c /\ stack[t][k].note = m
                 /\ Finds(list[c], stack[t][k], o)
        BY <3>4
      <4>2. Finds(list[c], s[k], o)
        <5>1. CASE k # 1
          BY <1>10, <4>1, <5>1
        <5>2. CASE k = 1
          <6>1. top.note = m /\ o # list[c][i] /\ Finds(list[c], top, o)
            BY <1>3, <1>4, <3>1, <4>1, <5>2
          <6>2. PICK j \in DOMAIN list[c] :
                  list[c][j] = o /\ top.index < j /\ (NOTIFY_ALL \/ j <= top.max)
            BY <6>1 DEF Finds
          <6>3. o # NULL
            BY ListsTyped
          <6>4. j \in L(c)!Ahead(top)
            BY <6>2, <6>3, WhatIsAhead
          <6>5. i <= j /\ i # j /\ i \in Nat /\ j \in Nat
            BY <1>5, <1>7, <6>1, <6>2, <6>4, ListsTyped
          <6>6. i < j
            BY <6>5
          <6>7. called.index < j /\ (NOTIFY_ALL \/ j <= called.max)
            BY <1>8, <6>2, <6>6
          <6>8. Finds(list[c], called, o)
            BY <6>2, <6>7 DEF Finds
          <6> QED BY <1>10, <5>2, <6>8
        <5> QED BY <5>1, <5>2
      <4>3. k \in DOMAIN s /\ s[k].context = c /\ s[k].note = m
        BY <1>10, <1>15, <4>1
      <4> QED BY <1>2, <1>6, <1>12, <3>2, <4>2, <4>3 DEF OnItsWay
    <3> QED BY <1>6, <3>2, <3>3, <3>4 DEF OnItsWay
  <2> QED BY <2>2, <2>3
<1>22. Delivered'
  BY <1>21 DEF Delivered
<1> QED BY <1>14, <1>18, <1>19, <1>20, <1>22 DEF ListsInv


\* What the end of an iteration makes of the vector of its context.
Compacted(w, c) ==
  /\ w \in Seq(Observer \union {NULL})
  /\ OnlyOnce(w, {NULL})
  /\ Range(w) \ {NULL} = Range(list[c]) \ {NULL}
  /\ depth[c] = 1 => NULL \notin Range(w)
  /\ depth[c] # 1 => w = list[c]

LEMMA CompactedFrom ==
  ASSUME TypeOK, Vectors, NEW c \in Context,
         NEW w, w = IF depth[c] = 1 THEN L(c)!Without({NULL}) ELSE list[c]
  PROVE  Compacted(w, c)
<1>1. list[c] \in Seq(Observer \union {NULL}) /\ OnlyOnce(list[c], {NULL})
  BY ListsTyped DEF Vectors
<1>2. CASE depth[c] # 1
  BY <1>1, <1>2 DEF Compacted
<1>3. CASE depth[c] = 1
  <2>1. w = Filtered(list[c], {NULL})
    BY <1>3 DEF L!Without, L!Cardinality, Cardinality, Filtered, KeptPlaces, Rank
  <2>2. /\ w \in Seq(Observer \union {NULL})
        /\ Range(w) = Range(list[c]) \ {NULL}
        /\ OnlyOnce(w, {})
    BY <1>1, <2>1, FilteredKeeps
  <2>3. OnlyOnce(w, {NULL})
    BY <2>2 DEF OnlyOnce
  <2> QED BY <1>3, <2>2, <2>3 DEF Compacted
<1> QED BY <1>2, <1>3

LEMMA NotifyReturnsKeeps ==
  ASSUME TypeOK, ListsInv, NEW t \in Loop, NotifyReturns(t)
  PROVE  TypeOK' /\ ListsInv'
<1>1. Exist /\ Apart /\ Depths /\ Vectors /\ RegisteredAreListed /\ Delivered
  BY DEF ListsInv
<1>2. stack[t] # <<>> /\ stack[t] \in Seq(Frame)
  BY ListsTyped DEF NotifyReturns
<1>3. PICK rest : rest = Tail(stack[t])
  OBVIOUS
<1>4. /\ rest \in Seq(Frame)
      /\ 1 \in DOMAIN stack[t] /\ Head(stack[t]) = stack[t][1] /\ Head(stack[t]) \in Frame
      /\ \A k \in DOMAIN rest : k + 1 \in DOMAIN stack[t] /\ rest[k] = stack[t][k + 1]
      /\ \A k \in DOMAIN stack[t] : k = 1 \/ (k - 1 \in DOMAIN rest /\ rest[k - 1] = stack[t][k])
  BY <1>2, <1>3, Popped
<1>5. PICK c \in Context, top \in Frame : top = Head(stack[t]) /\ c = top.context
  BY <1>4 DEF Frame
<1>6. PICK w : w = IF depth[c] = 1 THEN L(c)!Without({NULL}) ELSE list[c]
  OBVIOUS
<1>7. /\ L(c)!Ahead(top) = {}
      /\ depth' = [depth EXCEPT ![c] = depth[c] - 1]
      /\ list' = [list EXCEPT ![c] = w]
      /\ IF w = <<>>
         THEN EraseFromMap(t, c) /\ allocated' = allocated \ {c}
         ELSE UNCHANGED <<observer_lists, allocated>>
      /\ stack' = [stack EXCEPT ![t] = rest]
      /\ UNCHANGED <<queue, notes, clients, registered, owed>>
  BY <1>3, <1>5, <1>6 DEF NotifyReturns
<1>8. /\ w \in Seq(Observer \union {NULL})
      /\ OnlyOnce(w, {NULL})
      /\ Range(w) \ {NULL} = Range(list[c]) \ {NULL}
      /\ depth[c] = 1 => NULL \notin Range(w)
      /\ depth[c] # 1 => w = list[c]
  <2>1. Compacted(w, c)
    BY <1>1, <1>6, CompactedFrom
  <2> QED BY <2>1 DEF Compacted
<1>9. c \in InUse(t) /\ \A u \in Loop : observer_lists[u] = c \/ c \in InUse(u) => u = t
  <2>1. c \in InUse(t)
    BY <1>4, <1>5 DEF InUse
  <2> QED BY <1>1, <2>1 DEF Apart, Holds
<1>10. c \in allocated /\ list[c] # <<>>
  BY <1>1, <1>9 DEF Exist, Holds, Vectors
<1>11. \A d \in Context :
         /\ CountOn(rest, d) \in Nat
         /\ CountOn(stack[t], d) = CountOn(rest, d) + (IF c = d THEN 1 ELSE 0)
  <2>1. \A d \in Context : CountOn(stack[t], d) =
                           CountOn(Tail(stack[t]), d) + (IF Head(stack[t]).context = d THEN 1 ELSE 0)
    BY <1>2, CountPopped
  <2>2. \A d \in Context : CountOn(Tail(stack[t]), d) = CountOn(rest, d)
    BY <1>3
  <2>3. Head(stack[t]).context = c
    BY <1>5
  <2>4. \A d \in Context : CountOn(rest, d) \in Nat
    BY <1>4, CountTyped
  <2> QED BY <2>1, <2>2, <2>3, <2>4
<1>12. depth[c] = CountOn(rest, c) + 1 /\ CountOn(rest, c) \in Nat
  <2>1. depth[c] = CountOn(stack[t], c)
    BY <1>1, <1>9 DEF Depths
  <2> QED BY <1>11, <2>1
<1>13. /\ depth'[c] = CountOn(rest, c) /\ \A d \in Context : d # c => depth'[d] = depth[d]
       /\ depth' \in [Context -> Nat]
  <2>1. depth[c] - 1 = CountOn(rest, c)
    BY <1>12
  <2> QED BY <1>7, <1>12, <2>1 DEF TypeOK
<1>14. /\ list'[c] = w /\ \A d \in Context : d # c => list'[d] = list[d]
       /\ stack'[t] = rest /\ \A u \in Loop : u # t => stack'[u] = stack[u]
  BY <1>7 DEF TypeOK
<1>15. /\ observer_lists'[t] = IF w = <<>> /\ observer_lists[t] = c THEN NULL ELSE observer_lists[t]
       /\ \A u \in Loop : u # t => observer_lists'[u] = observer_lists[u]
       /\ observer_lists' \in [Loop -> Context \union {NULL}]
  BY <1>7 DEF EraseFromMap, TypeOK
<1>16. c # NULL
  BY ListsTyped
<1>17. /\ \A d \in Context : d # c => (d \in InUse(t)' <=> d \in InUse(t))
       /\ c \in InUse(t)' <=> CountOn(rest, c) # 0
       /\ \A u \in Loop : u # t => InUse(u)' = InUse(u)
  <2>1. \A d : d \in InUse(t)' <=> \E k \in DOMAIN rest : rest[k].context = d
    BY <1>14 DEF InUse
  <2>2. ASSUME NEW d \in Context, d # c PROVE d \in InUse(t)' <=> d \in InUse(t)
    <3>1. ASSUME NEW k \in DOMAIN stack[t], stack[t][k].context = d
          PROVE  \E j \in DOMAIN rest : rest[j].context = d
      <4>1. k # 1
        BY <1>4, <1>5, <2>2, <3>1
      <4> QED BY <1>4, <3>1, <4>1
    <3>2. ASSUME NEW k \in DOMAIN rest, rest[k].context = d
          PROVE  \E j \in DOMAIN stack[t] : stack[t][j].context = d
      BY <1>4, <3>2
    <3> QED BY <2>1, <3>1, <3>2 DEF InUse
  <2>3. c \in InUse(t)' <=> CountOn(rest, c) # 0
    BY <1>4, <2>1, CountTyped
  <2>4. \A u \in Loop : u # t => InUse(u)' = InUse(u)
    BY <1>14 DEF InUse
  <2> QED BY <2>2, <2>3, <2>4
<1>18. w = <<>> => CountOn(rest, c) = 0 /\ Range(list[c]) \subseteq {NULL}
  <2> SUFFICES ASSUME w = <<>> PROVE CountOn(rest, c) = 0 /\ Range(list[c]) \subseteq {NULL}
    OBVIOUS
  <2>1. depth[c] = 1
    BY <1>8, <1>10
  <2>2. Range(w) = {}
    BY DEF Range
  <2>3. Range(list[c]) \subseteq {NULL}
    BY <1>8, <2>2
  <2> QED BY <1>12, <2>1, <2>3
<1>19. w # <<>> /\ CountOn(rest, c) = 0 => observer_lists[t] = c
  <2> SUFFICES ASSUME w # <<>>, CountOn(rest, c) = 0 PROVE observer_lists[t] = c
    OBVIOUS
  <2>1. NULL \notin Range(w)
    BY <1>8, <1>12
  <2>2. Range(w) # {}
    <3>1. Len(w) \in Nat /\ DOMAIN w = 1..Len(w) /\ Len(w) # 0
      BY <1>8
    <3>2. 1 \in DOMAIN w
      BY <3>1
    <3> QED BY <3>2 DEF Range
  <2>3. ~(Range(list[c]) \subseteq {NULL})
    BY <1>8, <2>1, <2>2
  <2>4. PICK u \in Loop : observer_lists[u] = c
    BY <1>1, <2>3 DEF RegisteredAreListed
  <2> QED BY <1>9, <2>4
<1>20. TypeOK'
  <2>1. stack' \in [Loop -> Seq(Frame)]
    BY <1>4, <1>7 DEF TypeOK
  <2>2. list' \in [Context -> Seq(Observer \union {NULL})]
    BY <1>7, <1>8 DEF TypeOK
  <2>3. allocated' \in SUBSET Context
    BY <1>7 DEF TypeOK
  <2> QED BY <1>7, <1>13, <1>15, <2>1, <2>2, <2>3 DEF TypeOK
<1>21. \A u \in Loop, d \in Context : d # c => (Holds(u, d)' <=> Holds(u, d))
  <2>1. \A u \in Loop, d \in Context : d # c => (observer_lists'[u] = d <=> observer_lists[u] = d)
    BY <1>15, ListsTyped
  <2> QED BY <1>17, <2>1 DEF Holds
<1>22. Exist'
  <2>1. ASSUME NEW d \in Context, d # c PROVE (d \in allocated <=> \E u \in Loop : Holds(u, d))'
    <3>1. d \in allocated' <=> d \in allocated
      BY <1>7, <2>1
    <3> QED BY <1>1, <1>21, <2>1, <3>1 DEF Exist
  <2>2. (c \in allocated <=> \E u \in Loop : Holds(u, c))'
    <3>1. CASE w = <<>>
      <4>1. \A u \in Loop : c \notin InUse(u)'
        BY <1>9, <1>17, <1>18, <3>1
      <4>2. \A u \in Loop : observer_lists'[u] # c
        BY <1>9, <1>15, <1>16, <3>1
      <4>3. c \notin allocated'
        BY <1>7, <3>1
      <4> QED BY <4>1, <4>2, <4>3 DEF Holds
    <3>2. CASE w # <<>>
      <4>1. Holds(t, c)'
        BY <1>15, <1>17, <1>19, <3>2 DEF Holds
      <4>2. c \in allocated'
        BY <1>7, <1>10, <3>2
      <4> QED BY <4>1, <4>2
    <3> QED BY <3>1, <3>2
  <2> QED BY <2>1, <2>2 DEF Exist
<1>23. Apart'
  <2>1. \A u \in Loop : Holds(u, c)' => u = t
    <3>1. \A u \in Loop : u # t => observer_lists'[u] # c /\ c \notin InUse(u)'
      BY <1>9, <1>15, <1>17
    <3> QED BY <3>1 DEF Holds
  <2> QED BY <1>1, <1>21, <2>1 DEF Apart
<1>24. Depths'
  <2>1. ASSUME NEW d \in Context, d # c
        PROVE  /\ \A u \in Loop : d \in InUse(u)' => depth'[d] = CountOn(stack'[u], d)
               /\ (\A u \in Loop : d \notin InUse(u)') => depth'[d] = 0
    <3>1. \A u \in Loop : CountOn(stack'[u], d) = CountOn(stack[u], d)
      BY <1>11, <1>14, <2>1
    <3>2. \A u \in Loop : d \in InUse(u)' <=> d \in InUse(u)
      BY <1>17, <2>1
    <3> QED BY <1>1, <1>13, <2>1, <3>1, <3>2 DEF Depths
  <2>2. \A u \in Loop : c \in InUse(u)' => depth'[c] = CountOn(stack'[u], c)
    BY <1>9, <1>13, <1>14, <1>17
  <2>3. (\A u \in Loop : c \notin InUse(u)') => depth'[c] = 0
    BY <1>13, <1>17
  <2> QED BY <2>1, <2>2, <2>3 DEF Depths
<1>25. Vectors'
  <2>1. ASSUME NEW d \in Context, d # c
        PROVE  (/\ OnlyOnce(list[d], {NULL})
                /\ depth[d] = 0 => NULL \notin Range(list[d])
                /\ d \in allocated <=> list[d] # <<>>)'
    BY <1>1, <1>7, <1>13, <1>14, <2>1 DEF Vectors
  <2>2. depth'[c] = 0 => NULL \notin Range(w)
    BY <1>8, <1>12, <1>13
  <2>3. c \in allocated' <=> w # <<>>
    BY <1>7, <1>10
  <2> QED BY <1>8, <1>14, <2>1, <2>2, <2>3 DEF Vectors
<1>26. RegisteredAreListed'
  <2>1. ASSUME NEW u \in Loop
        PROVE  registered'[u] = IF observer_lists'[u] = NULL THEN {}
                                ELSE Range(list'[observer_lists'[u]]) \ {NULL}
    <3>1. registered'[u] = registered[u]
      BY <1>7
    <3>2. registered[u] = IF observer_lists[u] = NULL THEN {}
                          ELSE Range(list[observer_lists[u]]) \ {NULL}
      BY <1>1 DEF RegisteredAreListed
    <3>3. CASE observer_lists[u] = c
      <4>1. u = t /\ registered[u] = Range(list[c]) \ {NULL}
        BY <1>9, <1>16, <3>2, <3>3
      <4>2. w = <<>> => registered[u] = {}
        BY <1>18, <4>1
      <4> QED BY <1>8, <1>14, <1>15, <1>16, <3>1, <3>3, <4>1, <4>2
    <3>4. CASE observer_lists[u] # c
      <4>1. observer_lists'[u] = observer_lists[u]
        BY <1>15, <3>4
      <4>2. observer_lists[u] = NULL \/ list'[observer_lists[u]] = list[observer_lists[u]]
        BY <1>14, <3>4, ListsTyped
      <4> QED BY <3>1, <3>2, <4>1, <4>2
    <3> QED BY <3>3, <3>4
  <2>2. ASSUME NEW d \in Context, \A u \in Loop : observer_lists'[u] # d
        PROVE  Range(list'[d]) \subseteq {NULL}
    <3>1. CASE d = c
      <4>1. CASE w = <<>>
        BY <1>14, <3>1, <4>1 DEF Range
      <4>2. CASE w # <<>>
        <5>1. \A u \in Loop : observer_lists[u] # c
          BY <1>15, <2>2, <3>1, <4>2
        <5>2. Range(list[c]) \subseteq {NULL}
          BY <1>1, <5>1 DEF RegisteredAreListed
        <5> QED BY <1>8, <1>14, <3>1, <5>2
      <4> QED BY <4>1, <4>2
    <3>2. CASE d # c
      <4>1. \A u \in Loop : observer_lists[u] # d
        BY <1>15, <2>2, <3>2
      <4> QED BY <1>1, <1>14, <3>2, <4>1 DEF RegisteredAreListed
    <3> QED BY <3>1, <3>2
  <2> QED BY <2>1, <2>2 DEF RegisteredAreListed
<1>27. ASSUME NEW u \in Loop PROVE Delivering(u)'
  <2>1. Delivering(u)
    BY <1>1 DEF Delivered
  <2>2. CASE u # t
    <3>1. observer_lists[u] # NULL => list'[observer_lists[u]] = list[observer_lists[u]]
      BY <1>9, <1>14, <2>2, ListsTyped
    <3> QED BY <1>1, <1>7, <1>14, <1>15, <2>1, <2>2, <3>1, OthersDeliver
  <2>3. CASE u = t
    <3> SUFFICES ASSUME NEW o \in Observer, NEW m \in 1..MaxNotes, <<o, m>> \in owed[t]
                 PROVE  o \in registered'[t] /\ OnItsWay(t, o, m)'
      BY <1>7, <2>3 DEF Delivering
    <3>1. o \in registered[t] /\ OnItsWay(t, o, m)
      BY <2>1, <2>3 DEF Delivering
    <3>2. observer_lists'[t] = observer_lists[t]
      <4>1. w = <<>> => observer_lists[t] # c
        <5>1. observer_lists[t] = c => registered[t] = Range(list[c]) \ {NULL}
          BY <1>1, <1>16 DEF RegisteredAreListed
        <5> QED BY <1>18, <3>1, <5>1
      <4> QED BY <1>15, <4>1
    <3>3. CASE \E k \in DOMAIN queue[t] :
                 queue[t][k] = [context |-> observer_lists[t], note |-> m]
      BY <1>7, <3>1, <3>2, <3>3 DEF OnItsWay
    <3>4. CASE \E k \in DOMAIN stack[t] :
                 /\ stack[t][k].context = observer_lists[t] /\ stack[t][k].note = m
                 /\ Finds(list[observer_lists[t]], stack[t][k], o)
      <4>1. PICK k \in DOMAIN stack[t] :
                 /\ stack[t][k].context = observer_lists[t] /\ stack[t][k].note = m
                 /\ Finds(list[observer_lists[t]], stack[t][k], o)
        BY <3>4
      <4>2. k # 1
        <5> SUFFICES ASSUME k = 1 PROVE FALSE
          OBVIOUS
        <5>1. observer_lists[t] = c /\ Finds(list[c], top, o)
          BY <1>4, <1>5, <4>1
        <5>2. PICK j \in DOMAIN list[c] :
                list[c][j] = o /\ top.index < j /\ (NOTIFY_ALL \/ j <= top.max)
          BY <5>1 DEF Finds
        <5>3. o # NULL
          BY ListsTyped
        <5>4. j \in L(c)!Ahead(top)
          BY <5>2, <5>3, WhatIsAhead
        <5> QED BY <1>7, <5>4
      <4>3. k - 1 \in DOMAIN rest /\ rest[k - 1] = stack[t][k]
        BY <1>4, <4>2
      <4>4. list'[observer_lists[t]] = list[observer_lists[t]]
        <5>1. CASE observer_lists[t] = c
          <6>1. rest \in Seq(Frame) /\ rest[k - 1].context = c
            BY <1>4, <4>1, <4>3, <5>1
          <6>2. CountOn(rest, c) # 0
            BY <4>3, <6>1, CountTyped
          <6>3. depth[c] # 1
            BY <1>12, <6>2
          <6> QED BY <1>8, <1>14, <5>1, <6>3
        <5>2. CASE observer_lists[t] # c
          <6>1. observer_lists[t] \in Context
            BY <1>1, <3>1, ListsTyped DEF RegisteredAreListed
          <6> QED BY <1>14, <5>2, <6>1
        <5> QED BY <5>1, <5>2
      <4>5. /\ k - 1 \in DOMAIN stack'[t]
            /\ stack'[t][k - 1].context = observer_lists'[t] /\ stack'[t][k - 1].note = m
            /\ Finds(list'[observer_lists'[t]], stack'[t][k - 1], o)
        BY <1>14, <3>2, <4>1, <4>3, <4>4
      <4> QED BY <3>1, <4>5, <1>7 DEF OnItsWay
    <3>5. o \in registered'[t]
      BY <1>7, <3>1
    <3> QED BY <3>1, <3>3, <3>4, <3>5 DEF OnItsWay
  <2> QED BY <2>2, <2>3
<1>28. Delivered'
  BY <1>27 DEF Delivered
<1> QED BY <1>20, <1>22, <1>23, <1>24, <1>25, <1>26, <1>28 DEF ListsInv


LEMMA ReleaseKeeps == TypeOK /\ ListsInv /\ Release => TypeOK' /\ ListsInv'
<1> SUFFICES ASSUME TypeOK, ListsInv, Release PROVE TypeOK' /\ ListsInv'
  OBVIOUS
<1>1. Exist /\ Apart /\ Depths /\ Vectors /\ RegisteredAreListed /\ Delivered
  BY DEF ListsInv
<1>2. /\ clients' = FALSE
      /\ UNCHANGED <<observer_lists, allocated, list, depth, queue, stack, notes, registered,
                     owed>>
  BY DEF Release
<1>3. TypeOK'
  BY <1>2 DEF TypeOK
<1>4. \A u \in Loop : InUse(u)' = InUse(u) /\ \A d \in Context : Holds(u, d)' <=> Holds(u, d)
  BY <1>2 DEF InUse, Holds
<1>5. Exist' /\ Apart'
  BY <1>1, <1>2, <1>4 DEF Exist, Apart
<1>6. Depths'
  BY <1>1, <1>2, <1>4 DEF Depths
<1>7. Vectors' /\ RegisteredAreListed'
  BY <1>1, <1>2, MapKeeps
<1>8. \A u \in Loop : Delivering(u)'
  <2>1. \A u \in Loop : Delivering(u)
    BY <1>1 DEF Delivered
  <2> QED BY <1>1, <1>2, <2>1, OthersDeliver
<1> QED BY <1>3, <1>5, <1>6, <1>7, <1>8 DEF ListsInv, Delivered

LEMMA DestroyKeeps == TypeOK /\ ListsInv /\ Destroy => TypeOK' /\ ListsInv'
<1> SUFFICES ASSUME TypeOK, ListsInv, Destroy PROVE TypeOK' /\ ListsInv'
  OBVIOUS
<1>1. Exist /\ Apart /\ Depths /\ Vectors /\ RegisteredAreListed /\ Delivered
  BY DEF ListsInv
<1>2. /\ \A t \in Loop : queue[t] = <<>> /\ stack[t] = <<>>
      /\ allocated' = allocated \ Range(observer_lists)
      /\ observer_lists' = [t \in Loop |-> NULL]
      /\ list' = [c \in Context |-> <<>>]
      /\ registered' = [t \in Loop |-> {}]
      /\ UNCHANGED <<depth, queue, stack, notes, clients, owed>>
  BY DEF Destroy
<1>3. DOMAIN <<>> = {} /\ Range(<<>>) = {} /\ \A gone : OnlyOnce(<<>>, gone)
  BY DEF Range, OnlyOnce
<1>4. \A t \in Loop : InUse(t) = {} /\ InUse(t)' = {}
  BY <1>2, <1>3 DEF InUse
<1>5. allocated' = {}
  <2>1. ASSUME NEW c \in allocated PROVE c \in Range(observer_lists)
    <3>1. c \in Context
      BY DEF TypeOK
    <3>2. PICK t \in Loop : Holds(t, c)
      BY <1>1, <3>1 DEF Exist
    <3>3. observer_lists[t] = c
      BY <1>4, <3>2 DEF Holds
    <3>4. t \in DOMAIN observer_lists
      BY DEF TypeOK
    <3> QED BY <3>3, <3>4 DEF Range
  <2> QED BY <1>2, <2>1
<1>6. TypeOK'
  <2>1. \A S : <<>> \in Seq(S)
    OBVIOUS
  <2> QED BY <1>2, <1>5, <2>1 DEF TypeOK
<1>7. \A t \in Loop, c \in Context : ~Holds(t, c)'
  BY <1>2, <1>4, ListsTyped DEF Holds
<1>8. Exist' /\ Apart'
  BY <1>5, <1>7 DEF Exist, Apart
<1>9. \A c \in Context : depth[c] = 0
  BY <1>1, <1>4 DEF Depths
<1>10. Depths'
  BY <1>2, <1>4, <1>9 DEF Depths
<1>11. Vectors'
  BY <1>2, <1>3, <1>5 DEF Vectors
<1>12. RegisteredAreListed'
  BY <1>2, <1>3 DEF RegisteredAreListed
<1>13. Delivered'
  <2>1. ASSUME NEW t \in Loop, NEW o \in Observer, NEW n \in 1..MaxNotes, <<o, n>> \in owed[t]
        PROVE  FALSE
    <3>1. OnItsWay(t, o, n)
      BY <1>1, <2>1 DEF Delivered, Delivering
    <3> QED BY <1>2, <1>3, <3>1 DEF OnItsWay
  <2> QED BY <1>2, <2>1 DEF Delivered, Delivering
<1> QED BY <1>6, <1>8, <1>10, <1>11, <1>12, <1>13 DEF ListsInv

LEMMA ListsStep == TypeOK /\ ListsInv /\ [Next]_vars => TypeOK' /\ ListsInv'
<1> SUFFICES ASSUME TypeOK, ListsInv, [Next]_vars PROVE TypeOK' /\ ListsInv'
  OBVIOUS
<1>1. ASSUME NEW t \in Loop, NEW obs \in Observer, AddObserver(t, obs)
      PROVE  TypeOK' /\ ListsInv'
  BY <1>1, AddKeeps
<1>2. ASSUME NEW t \in Loop, NEW obs \in Observer, RemoveObserver(t, obs)
      PROVE  TypeOK' /\ ListsInv'
  BY <1>2, RemoveKeeps
<1>3. ASSUME NEW t \in Loop, Notify(t) PROVE TypeOK' /\ ListsInv'
  BY <1>3, NotifyKeeps
<1>4. ASSUME NEW t \in Loop, NotifyWrapper(t) PROVE TypeOK' /\ ListsInv'
  BY <1>4, NotifyWrapperKeeps
<1>5. ASSUME NEW t \in Loop, RunMethod(t) PROVE TypeOK' /\ ListsInv'
  BY <1>5, RunMethodKeeps
<1>6. ASSUME NEW t \in Loop, NotifyReturns(t) PROVE TypeOK' /\ ListsInv'
  BY <1>6, NotifyReturnsKeeps
<1>7. CASE Release
  BY <1>7, ReleaseKeeps
<1>8. CASE Destroy
  BY <1>8, DestroyKeeps
<1>9. CASE UNCHANGED vars
  <2>1. UNCHANGED <<observer_lists, allocated, list, depth, queue, stack, notes, clients,
                    registered, owed>>
    BY <1>9 DEF vars
  <2>2. TypeOK'
    BY <2>1 DEF TypeOK
  <2>3. \A u \in Loop : InUse(u)' = InUse(u) /\ \A d \in Context : Holds(u, d)' <=> Holds(u, d)
    BY <2>1 DEF InUse, Holds
  <2>4. Exist' /\ Apart'
    BY <2>1, <2>3 DEF ListsInv, Exist, Apart
  <2>5. Depths'
    BY <2>1, <2>3 DEF ListsInv, Depths
  <2>6. Vectors' /\ RegisteredAreListed'
    BY <2>1, MapKeeps DEF ListsInv
  <2>7. \A u \in Loop : Delivering(u)'
    BY <2>1, OthersDeliver DEF ListsInv, Delivered
  <2> QED BY <2>2, <2>4, <2>5, <2>6, <2>7 DEF ListsInv, Delivered
<1> QED BY <1>1, <1>2, <1>3, <1>4, <1>5, <1>6, <1>7, <1>8, <1>9 DEF Next

LEMMA ListsInvariant == Spec => [](TypeOK /\ ListsInv)
BY ListsAtFirst, ListsStep, PTL DEF Spec

-----------------------------------------------------------------------------
(* Theorems *)

\* The variables have their types: sequences of observers and holes, frames with
\* an iterator each, depths that never become negative.
THEOREM TypeCorrect == Spec => []TypeOK
BY ListsInvariant, PTL

\* Contexts are neither used after they were deleted nor leaked nor shared, and
\* hold exactly the registered observers: see ContextsAccounted.
THEOREM ContextsAreAccounted == Spec => []ContextsAccounted
<1>1. TypeOK /\ ListsInv => ContextsAccounted
  <2> SUFFICES ASSUME TypeOK, ListsInv PROVE ContextsAccounted
    OBVIOUS
  <2>1. Exist /\ Apart /\ RegisteredAreListed
    BY DEF ListsInv
  <2>2. \A x : x \in Range(observer_lists) <=> \E t \in Loop : observer_lists[t] = x
    BY DEF TypeOK, Range
  <2>3. \A t \in Loop : InUse(t) \subseteq Context
    <3>1. ASSUME NEW t \in Loop, NEW k \in DOMAIN stack[t] PROVE stack[t][k].context \in Context
      BY ListsTyped DEF Frame
    <3> QED BY <3>1 DEF InUse
  <2>4. allocated = (Range(observer_lists) \ {NULL}) \union UNION {InUse(t) : t \in Loop}
    <3>1. ASSUME NEW x \in allocated
          PROVE  x \in Range(observer_lists) \ {NULL} \/ \E t \in Loop : x \in InUse(t)
      <4>1. x \in Context /\ x # NULL
        BY ListsTyped DEF TypeOK
      <4> QED BY <2>1, <2>2, <4>1 DEF Exist, Holds
    <3>2. ASSUME NEW x \in Range(observer_lists) \ {NULL} PROVE x \in allocated
      <4>1. PICK t \in Loop : observer_lists[t] = x
        BY <2>2
      <4>2. x \in Context
        BY <4>1, ListsTyped
      <4> QED BY <2>1, <4>1, <4>2 DEF Exist, Holds
    <3>3. ASSUME NEW t \in Loop, NEW x \in InUse(t) PROVE x \in allocated
      BY <2>1, <2>3 DEF Exist, Holds
    <3> QED BY <3>1, <3>2, <3>3
  <2>5. ASSUME NEW t \in Loop, NEW u \in Loop, t # u
        PROVE  (InUse(t) \union {observer_lists[t]}) \intersect
               (InUse(u) \union {observer_lists[u]}) \subseteq {NULL}
    <3>1. ASSUME NEW x \in InUse(t) \union {observer_lists[t]},
                 x \in InUse(u) \union {observer_lists[u]}
          PROVE  x = NULL
      <4>1. x \in Context \union {NULL}
        BY <2>3, ListsTyped
      <4> QED BY <2>1, <2>5, <3>1, <4>1 DEF Apart, Holds
    <3> QED BY <3>1
  <2>6. \A t \in Loop :
          registered[t] = IF observer_lists[t] = NULL THEN {}
                          ELSE Range(list[observer_lists[t]]) \ {NULL}
    BY <2>1 DEF RegisteredAreListed
  <2>7. \A c \in Context \ Range(observer_lists) : Range(list[c]) \subseteq {NULL}
    BY <2>1, <2>2 DEF RegisteredAreListed
  <2> QED BY <2>4, <2>5, <2>6, <2>7 DEF ContextsAccounted
<1> QED BY <1>1, ListsInvariant, PTL

\* No notification is lost: what is owed is on its way, so nothing is owed on a
\* loop that has no call of NotifyWrapper in its queue or on its stack.
THEOREM EveryoneIsNotified == Spec => []EveryoneNotified
<1>1. TypeOK /\ ListsInv => EveryoneNotified
  <2> SUFFICES ASSUME TypeOK, ListsInv,
                      NEW t \in Loop, queue[t] = <<>>, stack[t] = <<>>
               PROVE  owed[t] = {}
    BY DEF EveryoneNotified
  <2>1. DOMAIN <<>> = {}
    OBVIOUS
  <2>2. ASSUME NEW o \in Observer, NEW n \in 1..MaxNotes, <<o, n>> \in owed[t] PROVE FALSE
    <3>1. OnItsWay(t, o, n)
      BY <2>2 DEF ListsInv, Delivered, Delivering
    <3> QED BY <2>1, <3>1 DEF OnItsWay
  <2>3. owed[t] \subseteq Observer \X (1..MaxNotes)
    BY ListsTyped
  <2> QED BY <2>2, <2>3
<1> QED BY <1>1, ListsInvariant, PTL

\* An observer is called only while it is registered on that very loop, from an
\* iteration over the context the map has for the loop: see NotifiesRegistered.
THEOREM CallsAreRegistered == Spec => NotifiesRegistered
<1>1. TypeOK /\ ListsInv /\ [Next]_vars =>
        [\A t \in Loop : RunMethod(t) =>
           /\ Head(stack'[t]).calling \in registered[t]
           /\ Head(stack[t]).context = observer_lists[t]]_vars
  <2> SUFFICES ASSUME TypeOK, ListsInv, NEW t \in Loop, RunMethod(t)
               PROVE  /\ Head(stack'[t]).calling \in registered[t]
                      /\ Head(stack[t]).context = observer_lists[t]
    OBVIOUS
  <2>1. stack[t] # <<>> /\ stack[t] \in Seq(Frame)
    BY ListsTyped DEF RunMethod
  <2>2. 1 \in DOMAIN stack[t] /\ Head(stack[t]) = stack[t][1] /\ Head(stack[t]) \in Frame
    BY <2>1, Popped
  <2>3. PICK c \in Context, top \in Frame : top = Head(stack[t]) /\ c = top.context
    BY <2>2 DEF Frame
  <2>4. PICK i \in L(c)!Ahead(top) :
          stack' = [stack EXCEPT ![t][1].index = i, ![t][1].calling = list[c][i]]
    BY <2>3 DEF RunMethod
  <2>5. c = observer_lists[t] /\ list[c][i] \in registered[t]
    BY <2>1, <2>3, <2>4, WhoIsCalled
  <2>6. stack'[t] = [stack[t] EXCEPT ![1] = [[stack[t][1] EXCEPT !.index = i]
                                             EXCEPT !.calling = list[c][i]]]
    BY <2>2, <2>4 DEF TypeOK
  <2>7. Head(stack'[t]).calling = list[c][i]
    <3>1. DOMAIN stack'[t] = DOMAIN stack[t] /\ stack'[t][1].calling = list[c][i]
      BY <2>2, <2>6 DEF Frame
    <3>2. Head(stack'[t]) = stack'[t][1]
      OBVIOUS
    <3> QED BY <3>1, <3>2
  <2> QED BY <2>3, <2>5, <2>7
<1> QED BY <1>1, ListsInvariant, PTL DEF Spec, NotifiesRegistered


=============================================================================
