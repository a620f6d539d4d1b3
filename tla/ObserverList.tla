----------------------------- MODULE ObserverList -----------------------------
(***************************************************************************)
(* ObserverListBase (src/base/observer_list.h): a vector of observers that *)
(* may be changed, iterated again or destroyed by the very observers an    *)
(* iteration (FOR_EACH_OBSERVER) calls. While an iteration goes on, removed *)
(* observers leave holes, closed when the outermost one ends.              *)
(***************************************************************************)
EXTENDS Naturals, Sequences, FiniteSets, Functions

CONSTANTS
  Observer,
  NULL,           \* a hole in the vector
  MaxSize,        \* bound: the length of the vector
  MaxDepth        \* bound: how deeply iterations are nested

ASSUME ObserverListAssumption ==
  /\ NULL \notin Observer
  /\ MaxSize \in Nat
  /\ MaxDepth \in Nat

VARIABLES
  notify_all,     \* type_, set for good by the constructor: NOTIFY_ALL, observers
                  \* added meanwhile are notified too, or NOTIFY_EXISTING_ONLY
  alive,         \* FALSE: the list was destroyed, its weak pointers are null
  observers,
  notify_depth,
  iterators,     \* the stack of iterators, innermost first
  registered,    \* history: what clients added and did not remove
  owed           \* history, per iterator: whom the iteration has yet to call

vars == <<notify_all, alive, observers, notify_depth, iterators, registered, owed>>

\* index_ is the next element, counted from 0; max_index_ is max or, in a
\* NOTIFY_ALL list, as good as infinite.
Iterator == [index : Nat, max : Nat, calling : Observer \union {NULL}]

Init ==
  /\ notify_all \in BOOLEAN
  /\ alive = TRUE
  /\ observers = <<>>
  /\ notify_depth = 0
  /\ iterators = <<>>
  /\ registered = {}
  /\ owed = <<>>

\* Client code: outside every iteration, or in an observer being called.
InClientCode == iterators # <<>> => Head(iterators).calling # NULL

AddObserver(obs) ==
  /\ InClientCode
  /\ alive
  /\ obs \notin Range(observers)
  /\ Len(observers) < MaxSize
  /\ observers' = Append(observers, obs)
  /\ registered' = registered \union {obs}
  /\ owed' = [i \in DOMAIN owed |-> IF notify_all THEN owed[i] \union {obs} ELSE owed[i]]
  /\ UNCHANGED <<notify_all, alive, notify_depth, iterators>>

\* NULL in the place of those in gone.
Punched(gone) ==
  [i \in DOMAIN observers |-> IF observers[i] \in gone THEN NULL ELSE observers[i]]

\* The elements not in gone, in their order.
Without(gone) ==
  LET kept == {i \in DOMAIN observers : observers[i] \notin gone}
      Nth(n) == CHOOSE i \in kept : Cardinality({j \in kept : j <= i}) = n
  IN  [n \in 1..Cardinality(kept) |-> observers[Nth(n)]]

Unregister(gone) ==
  /\ registered' = registered \ gone
  /\ owed' = [i \in DOMAIN owed |-> owed[i] \ gone]
  /\ UNCHANGED <<notify_all, alive, notify_depth, iterators>>

\* Mutant: removed from the vector in the middle of an iteration.
ErasesAtOnce(gone) == Without(gone)

\* RemoveObserver and Clear leave holes while an iteration goes on.
Erased(gone) == IF notify_depth > 0 THEN Punched(gone) ELSE Without(gone)

RemoveObserver(obs) ==
  /\ InClientCode
  /\ alive
  /\ obs \in Range(observers)
  /\ observers' = Erased({obs})
  /\ Unregister({obs})

Clear ==
  /\ InClientCode
  /\ alive
  /\ observers' = Erased(Observer)
  /\ Unregister(Observer)

\* ~ObserverListBase, under the feet of whatever iterations there are.
Destroy ==
  /\ InClientCode
  /\ alive
  /\ alive' = FALSE
  /\ observers' = <<>>
  /\ notify_depth' = 0
  /\ registered' = {}
  /\ owed' = [i \in DOMAIN owed |-> {}]
  /\ UNCHANGED <<notify_all, iterators>>

-----------------------------------------------------------------------------

\* The constructor of Iterator.
BeginIteration ==
  /\ InClientCode
  /\ alive
  /\ Len(iterators) < MaxDepth
  /\ notify_depth' = notify_depth + 1
  /\ iterators' = <<[index |-> 0, max |-> Len(observers), calling |-> NULL]>> \o iterators
  /\ owed' = <<registered>> \o owed
  /\ UNCHANGED <<notify_all, alive, observers, registered>>

\* Mutant: max_index_ is ignored.
MaxForgotten(it) == Len(observers)

\* max_index of GetNext.
MaxIndex(it) ==
  IF notify_all \/ Len(observers) < it.max THEN Len(observers) ELSE it.max

\* The elements GetNext may still find.
Ahead(it) ==
  {i \in DOMAIN observers : it.index < i /\ i <= MaxIndex(it) /\ observers[i] # NULL}

\* The observer called last has returned, GetNext finds the next one.
GetNext ==
  /\ iterators # <<>> /\ alive
  /\ \E i \in Ahead(Head(iterators)) :
       /\ \A j \in Ahead(Head(iterators)) : i <= j
       /\ iterators' = [iterators EXCEPT ![1].index = i, ![1].calling = observers[i]]
       /\ owed' = [owed EXCEPT ![1] = @ \ {observers[i]}]
  /\ UNCHANGED <<notify_all, alive, observers, notify_depth, registered>>

\* Mutant: the holes are not closed.
NoCompact ==
  /\ notify_depth' = notify_depth - 1
  /\ UNCHANGED observers

\* The destructor of Iterator, on a list that is still there.
Compact ==
  /\ notify_depth' = notify_depth - 1
  /\ observers' = IF notify_depth = 1 THEN Without({NULL}) ELSE observers

\* GetNext returns NULL: no element is left, or no list.
EndIteration ==
  /\ iterators # <<>>
  /\ \/ ~alive /\ UNCHANGED <<observers, notify_depth>>
     \/ alive /\ Ahead(Head(iterators)) = {} /\ Compact
  /\ iterators' = Tail(iterators)
  /\ owed' = Tail(owed)
  /\ UNCHANGED <<notify_all, alive, registered>>

Next ==
  \/ \E obs \in Observer : AddObserver(obs) \/ RemoveObserver(obs)
  \/ Clear
  \/ Destroy
  \/ BeginIteration
  \/ GetNext
  \/ EndIteration

Spec == Init /\ [][Next]_vars

-----------------------------------------------------------------------------
(* Properties *)

TypeOK ==
  /\ notify_all \in BOOLEAN
  /\ alive \in BOOLEAN
  /\ observers \in Seq(Observer \union {NULL})
  /\ notify_depth \in Nat
  /\ iterators \in Seq(Iterator)
  /\ registered \in SUBSET Observer
  /\ owed \in Seq(SUBSET Observer)

\* The vector holds the registered observers, each once, and holes only while
\* an iteration goes on; notify_depth counts the iterations.
ListAccounted ==
  /\ TypeOK
  /\ alive =>
       /\ Range(observers) \ {NULL} = registered
       /\ \A i, j \in DOMAIN observers :
            observers[i] = observers[j] /\ observers[i] # NULL => i = j
       /\ notify_depth = Len(iterators)
       /\ notify_depth = 0 => NULL \notin Range(observers)

\* Whatever observers do to the list, an iteration calls only observers it
\* owes a call: registered, not called before in it unless added anew, and
\* with NOTIFY_EXISTING_ONLY not added since it began. After the list was
\* destroyed it calls nobody.
NotifiesOnlyOwed ==
  [][ GetNext => Head(iterators').calling \in Head(owed) ]_vars

\* When an iteration ends it has called everybody it owed a call.
NotifiesAllOwed == [][ EndIteration => Head(owed) = {} ]_vars

=============================================================================
