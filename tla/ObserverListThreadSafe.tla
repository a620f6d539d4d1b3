------------------------ MODULE ObserverListThreadSafe ------------------------
(***************************************************************************)
(* ObserverListThreadSafe (src/base/observer_list_threadsafe.h): per       *)
(* message loop a context with an ObserverList of its own, found through a *)
(* map under list_lock_. Notify posts the address of each context to its   *)
(* loop; NotifyWrapper looks there whether the map still has it. Observers *)
(* add, remove, notify and run nested loops while they are called, and     *)
(* whoever leaves a context empty deletes it.                              *)
(***************************************************************************)
EXTENDS Naturals, Sequences, Functions, FiniteSets

CONSTANTS
  Loop,           \* message loops, each with its thread
  Observer,
  Context,        \* addresses of contexts; one that was deleted is used again
  NULL,
  NOTIFY_ALL,
  MaxNotes,       \* bound: calls of Notify
  MaxSize,        \* bound: the length of a list
  MaxDepth        \* bound: how deeply loops are nested on a thread

ASSUME ListsAssumption ==
  /\ NULL \notin Observer \union Context
  /\ NOTIFY_ALL \in BOOLEAN
  /\ MaxNotes \in Nat /\ MaxSize \in Nat /\ MaxDepth \in Nat

VARIABLES
  observer_lists, \* of each loop: its context, or NULL
  allocated,      \* the contexts that exist
  list,           \* of each context: its vector of observers
  depth,          \* of each context: notify_depth_
  queue,          \* of each loop: the posted calls of NotifyWrapper
  stack,          \* of each thread: the calls it is in, innermost first
  notes,          \* how often Notify was called
  clients,        \* TRUE while clients hold a reference to the object
  registered,     \* history, of each loop: what was added and not removed
  owed            \* history, of each loop: <<observer, note>> to be delivered

vars == <<observer_lists, allocated, list, depth, queue, stack, notes, clients,
          registered, owed>>

\* The list in context c.
L(c) == INSTANCE ObserverList WITH
          notify_all <- NOTIFY_ALL, alive <- c \in allocated,
          observers <- list[c], notify_depth <- depth[c],
          iterators <- <<>>, registered <- {}, owed <- <<>>

\* A call of NotifyWrapper with its iterator.
Frame == [context : Context, note : 1..MaxNotes, index : Nat, max : Nat,
          calling : Observer \union {NULL}]

Init ==
  /\ observer_lists = [t \in Loop |-> NULL]
  /\ allocated = {}
  /\ list = [c \in Context |-> <<>>]
  /\ depth = [c \in Context |-> 0]
  /\ queue = [t \in Loop |-> <<>>]
  /\ stack = [t \in Loop |-> <<>>]
  /\ notes = 0
  /\ clients = TRUE
  /\ registered = [t \in Loop |-> {}]
  /\ owed = [t \in Loop |-> {}]

\* Thread t is in client code: outside the list, or in an observer.
InClientCode(t) == stack[t] # <<>> => Head(stack[t]).calling # NULL

-----------------------------------------------------------------------------

AddObserver(t, obs) ==
  /\ clients /\ InClientCode(t)
  /\ obs \notin registered[t]
  /\ \E c \in IF observer_lists[t] = NULL THEN Context \ allocated ELSE {observer_lists[t]} :
       /\ Len(list[c]) < MaxSize
       /\ observer_lists' = [observer_lists EXCEPT ![t] = c]
       /\ allocated' = allocated \union {c}
       /\ list' = [list EXCEPT ![c] = Append(@, obs)]
  /\ registered' = [registered EXCEPT ![t] = @ \union {obs}]
  /\ UNCHANGED <<depth, queue, stack, notes, clients, owed>>

\* Mutant: an observer is not removed while the list is iterated over.
KeptMeanwhile(c, obs) == IF depth[c] > 0 THEN list[c] ELSE L(c)!Erased({obs})

Kept(c, obs) == L(c)!Erased({obs})

\* RemoveObserver is about to remove what alone is left in the list.
LastOne(c, obs) == obs \in Range(list[c]) /\ Len(list[c]) = 1

RemoveObserver(t, obs) ==
  /\ clients /\ InClientCode(t)
  /\ observer_lists[t] # NULL
  /\ LET c == observer_lists[t]
         kept == Kept(c, obs)
     IN /\ observer_lists' = IF LastOne(c, obs)
                             THEN [observer_lists EXCEPT ![t] = NULL]
                             ELSE observer_lists
        /\ list' = [list EXCEPT ![c] = kept]
        /\ allocated' = IF kept = <<>> THEN allocated \ {c} ELSE allocated
  /\ registered' = [registered EXCEPT ![t] = @ \ {obs}]
  /\ owed' = [owed EXCEPT ![t] = {pair \in @ : pair[1] # obs}]
  /\ UNCHANGED <<depth, queue, stack, notes, clients>>

\* Under list_lock_ the call is posted to every loop that has observers.
Notify(t) ==
  /\ clients /\ InClientCode(t)
  /\ notes < MaxNotes
  /\ notes' = notes + 1
  /\ queue' = [l \in Loop |->
                 IF observer_lists[l] = NULL THEN queue[l]
                 ELSE Append(queue[l], [context |-> observer_lists[l], note |-> notes'])]
  /\ owed' = [l \in Loop |-> owed[l] \union (registered[l] \X {notes'})]
  /\ UNCHANGED <<observer_lists, allocated, list, depth, stack, clients, registered>>

\* Mutant: the context is not looked up.
Trusted(t, c) == TRUE

\* What NotifyWrapper asks the map.
IsCurrent(t, c) == observer_lists[t] = c

\* The loop, maybe nested in an observer, runs NotifyWrapper; it begins to
\* iterate or returns.
NotifyWrapper(t) ==
  /\ InClientCode(t)
  /\ Len(stack[t]) < MaxDepth
  /\ queue[t] # <<>>
  /\ LET call == Head(queue[t]) IN
       IF IsCurrent(t, call.context)
       THEN /\ depth' = [depth EXCEPT ![call.context] = @ + 1]
            /\ stack' = [stack EXCEPT ![t] =
                 <<[context |-> call.context, note |-> call.note, index |-> 0,
                    max |-> Len(list[call.context]), calling |-> NULL]>> \o @]
       ELSE UNCHANGED <<depth, stack>>
  /\ queue' = [queue EXCEPT ![t] = Tail(@)]
  /\ UNCHANGED <<observer_lists, allocated, list, notes, clients, registered, owed>>

\* The observer called last returned, the iterator finds the next one.
RunMethod(t) ==
  /\ stack[t] # <<>>
  /\ LET top == Head(stack[t])
         ahead == L(top.context)!Ahead(top)
     IN \E i \in ahead :
          /\ \A j \in ahead : i <= j
          /\ stack' = [stack EXCEPT ![t][1].index = i,
                                    ![t][1].calling = list[top.context][i]]
          /\ owed' = [owed EXCEPT ![t] = @ \ {<<list[top.context][i], top.note>>}]
  /\ UNCHANGED <<observer_lists, allocated, list, depth, queue, notes, clients, registered>>

\* Mutant: whatever context the loop has is erased.
EraseAny(t, c) == observer_lists' = [observer_lists EXCEPT ![t] = NULL]

\* The emptied context leaves the map, if another one has not taken its place.
EraseFromMap(t, c) ==
  observer_lists' = [observer_lists EXCEPT ![t] = IF @ = c THEN NULL ELSE @]

\* The iteration ends; the context goes if nothing is left in it.
NotifyReturns(t) ==
  /\ stack[t] # <<>>
  /\ LET c == Head(stack[t]).context
         compacted == IF depth[c] = 1 THEN L(c)!Without({NULL}) ELSE list[c]
     IN /\ L(c)!Ahead(Head(stack[t])) = {}
        /\ depth' = [depth EXCEPT ![c] = @ - 1]
        /\ list' = [list EXCEPT ![c] = compacted]
        /\ IF compacted = <<>>
           THEN EraseFromMap(t, c) /\ allocated' = allocated \ {c}
           ELSE UNCHANGED <<observer_lists, allocated>>
  /\ stack' = [stack EXCEPT ![t] = Tail(@)]
  /\ UNCHANGED <<queue, notes, clients, registered, owed>>

\* Clients drop their references; posted and running calls hold their own.
Release ==
  /\ clients
  /\ clients' = FALSE
  /\ UNCHANGED <<observer_lists, allocated, list, depth, queue, stack, notes, registered, owed>>

\* ~ObserverListThreadSafe, when the last reference is gone.
Destroy ==
  /\ ~clients
  /\ \A t \in Loop : queue[t] = <<>> /\ stack[t] = <<>>
  /\ allocated' = allocated \ Range(observer_lists)
  /\ observer_lists' = [t \in Loop |-> NULL]
  /\ list' = [c \in Context |-> <<>>]
  /\ registered' = [t \in Loop |-> {}]
  /\ UNCHANGED <<depth, queue, stack, notes, clients, owed>>

Next ==
  \/ \E t \in Loop :
       \/ \E obs \in Observer : AddObserver(t, obs) \/ RemoveObserver(t, obs)
       \/ Notify(t)
       \/ NotifyWrapper(t)
       \/ RunMethod(t)
       \/ NotifyReturns(t)
  \/ Release
  \/ Destroy

Spec == Init /\ [][Next]_vars

-----------------------------------------------------------------------------
(* Properties *)

TypeOK ==
  /\ observer_lists \in [Loop -> Context \union {NULL}]
  /\ allocated \in SUBSET Context
  /\ list \in [Context -> Seq(Observer \union {NULL})]
  /\ depth \in [Context -> Nat]
  /\ queue \in [Loop -> Seq([context : Context, note : 1..MaxNotes])]
  /\ stack \in [Loop -> Seq(Frame)]
  /\ notes \in 0..MaxNotes
  /\ clients \in BOOLEAN
  /\ registered \in [Loop -> SUBSET Observer]
  /\ owed \in [Loop -> SUBSET (Observer \X (1..MaxNotes))]

InUse(t) == {stack[t][i].context : i \in DOMAIN stack[t]}

\* Contexts are neither used after they were deleted nor leaked nor shared
\* between loops: those that exist are the ones in the map, for one loop each,
\* and those a call that will delete them is still iterating over. The observers
\* registered on a loop are the ones in the list the map has for it; a context the
\* map no longer has holds nobody.
ContextsAccounted ==
  /\ TypeOK
  /\ allocated = (Range(observer_lists) \ {NULL}) \union UNION {InUse(t) : t \in Loop}
  /\ \A t, u \in Loop : t # u =>
       (InUse(t) \union {observer_lists[t]}) \intersect
       (InUse(u) \union {observer_lists[u]}) \subseteq {NULL}
  /\ \A t \in Loop :
       registered[t] = IF observer_lists[t] = NULL THEN {}
                       ELSE Range(list[observer_lists[t]]) \ {NULL}
  /\ \A c \in Context \ Range(observer_lists) : Range(list[c]) \subseteq {NULL}

\* A call reaches only observers registered on its own loop, in an iteration
\* over the context the map has for that loop now.
NotifiesRegistered ==
  [][\A t \in Loop : RunMethod(t) =>
       /\ Head(stack'[t]).calling \in registered[t]
       /\ Head(stack[t]).context = observer_lists[t]]_vars

\* No notification is lost: once a loop has no call left in its queue and on its
\* stack, every observer that was registered all the time since some Notify has
\* been called for it, although contexts came, went and had their addresses
\* used again meanwhile.
EveryoneNotified ==
  \A t \in Loop : queue[t] = <<>> /\ stack[t] = <<>> => owed[t] = {}

=============================================================================
