---------------------------- MODULE PathService ----------------------------
(***************************************************************************)
(* PathService (src/base/path_service.cpp): a table from keys to paths     *)
(* with a cache, overrides and providers. Get takes the lock once to look  *)
(* into the cache, once to look into the overrides and once to store what  *)
(* a provider computed: threads interleave between the three. The          *)
(* providers of DIR_EXE and DIR_SOURCE_ROOT call Get again                 *)
(* (src/base/base_paths.cpp).                                              *)
(***************************************************************************)
EXTENDS Naturals, Sequences

CONSTANTS
  Thread,
  Directory  \* the directories keys are overridden with

VARIABLES
  cache,
  overrides,
  registered,  \* whether a provider of USER_KEY was prepended to providers
  calls,       \* the stack of Gets each thread is in, innermost first
  raced        \* history: a key was overridden while a thread was computing one

vars == <<cache, overrides, registered, calls, raced>>

\* A key whose provider asks the system, the two above it, and one only a
\* registered provider serves.
Key == {"FILE_EXE", "DIR_EXE", "DIR_SOURCE_ROOT", "USER_KEY"}

\* A path is the one it was computed from and the DirNames applied to it.
Path == [of : Directory \union {"system"}, up : 0..3]
NoPath == [of |-> "none", up |-> 0]

\* The key a provider starts from, and the levels it goes up from there (for
\* DIR_SOURCE_ROOT in a tree that holds the source).
Needs == [DIR_EXE |-> "FILE_EXE", DIR_SOURCE_ROOT |-> "DIR_EXE"]
Levels == [DIR_EXE |-> 1, DIR_SOURCE_ROOT |-> 2]

DirName(path, levels) == [path EXCEPT !.up = @ + levels]

\* A call of Get: the lookup it does next, and in "add" the provider's answer,
\* which is never empty.
Call == [key : Key, pc : {"cache", "overrides", "provider"}, path : {NoPath}]
          \union [key : Key, pc : {"add"}, path : Path]

Init ==
  /\ cache = [k \in Key |-> NoPath]
  /\ overrides = [k \in Key |-> NoPath]
  /\ registered = FALSE
  /\ calls = [th \in Thread |-> <<>>]
  /\ raced = FALSE

-----------------------------------------------------------------------------

Enter(key) == [key |-> key, pc |-> "cache", path |-> NoPath]

Get(th, key) ==
  /\ calls[th] = <<>>
  /\ calls' = [calls EXCEPT ![th] = <<Enter(key)>>]
  /\ UNCHANGED <<cache, overrides, registered, raced>>

In(th, pc) == calls[th] # <<>> /\ Head(calls[th]).pc = pc

\* The innermost Get goes on to another lookup.
GoTo(th, pc, path) ==
  calls' = [calls EXCEPT ![th] =
              <<[Head(@) EXCEPT !.pc = pc, !.path = path]>> \o Tail(@)]

\* The innermost Get returns: to the client, or to the provider that called it.
Return(th, path) ==
  LET outer == Tail(calls[th])
  IN  calls' = [calls EXCEPT ![th] =
        IF outer = <<>> THEN <<>>
        ELSE <<[Head(outer) EXCEPT !.pc = "add",
                  !.path = DirName(path, Levels[Head(outer).key])]>> \o Tail(outer)]

GetFromCache(th) ==
  /\ In(th, "cache")
  /\ LET found == cache[Head(calls[th]).key]
     IN  IF found # NoPath THEN Return(th, found) ELSE GoTo(th, "overrides", NoPath)
  /\ UNCHANGED <<cache, overrides, registered, raced>>

GetFromOverrides(th) ==
  /\ In(th, "overrides")
  /\ LET found == overrides[Head(calls[th]).key]
     IN  IF found # NoPath THEN Return(th, found) ELSE GoTo(th, "provider", NoPath)
  /\ UNCHANGED <<cache, overrides, registered, raced>>

\* Without the lock: the providers are only ever prepended to.
SearchProviders(th) ==
  /\ In(th, "provider")
  /\ LET key == Head(calls[th]).key
     IN  CASE key \in DOMAIN Needs ->
                calls' = [calls EXCEPT ![th] = <<Enter(Needs[key])>> \o @]
           [] key = "USER_KEY" /\ ~registered -> Return(th, NoPath)
           [] OTHER -> GoTo(th, "add", [of |-> "system", up |-> 0])
  /\ UNCHANGED <<cache, overrides, registered, raced>>

AddToCache(th) ==
  /\ In(th, "add")
  /\ LET call == Head(calls[th])
     IN  /\ cache' = [cache EXCEPT ![call.key] = call.path]
         /\ Return(th, call.path)
  /\ UNCHANGED <<overrides, registered, raced>>

\* A thread has looked for an override and has not stored what it computes.
IsComputing(th) == \E n \in DOMAIN calls[th] : calls[th][n].pc \in {"provider", "add"}

\* Mutant: the cache is not cleared.
OverrideKeepsCache(th, key, directory) ==
  /\ calls[th] = <<>>
  /\ LET path == [of |-> directory, up |-> 0]
     IN  /\ cache' = [cache EXCEPT ![key] = path]
         /\ overrides' = [overrides EXCEPT ![key] = path]
  /\ raced' = (raced \/ \E other \in Thread : IsComputing(other))
  /\ UNCHANGED <<registered, calls>>

\* The directory exists or was created: the rest is one critical section.
Override(th, key, directory) ==
  /\ calls[th] = <<>>
  /\ LET path == [of |-> directory, up |-> 0]
     IN  /\ cache' = [k \in Key |-> IF k = key THEN path ELSE NoPath]
         /\ overrides' = [overrides EXCEPT ![key] = path]
  /\ raced' = (raced \/ \E other \in Thread : IsComputing(other))
  /\ UNCHANGED <<registered, calls>>

RegisterProvider(th) ==
  /\ calls[th] = <<>>
  /\ ~registered
  /\ registered' = TRUE
  /\ UNCHANGED <<cache, overrides, calls, raced>>

Next ==
  \E th \in Thread :
    \/ \E key \in Key : Get(th, key)
    \/ GetFromCache(th)
    \/ GetFromOverrides(th)
    \/ SearchProviders(th)
    \/ AddToCache(th)
    \/ \E key \in Key, directory \in Directory : Override(th, key, directory)
    \/ RegisterProvider(th)

Spec == Init /\ [][Next]_vars

-----------------------------------------------------------------------------

TypeOK ==
  /\ cache \in [Key -> Path \union {NoPath}]
  /\ overrides \in [Key -> Path \union {NoPath}]
  /\ registered \in BOOLEAN
  /\ calls \in [Thread -> Seq(Call)]
  /\ raced \in BOOLEAN

\* What Get would answer with nothing in the cache.
Computed[k \in Key] ==
  IF overrides[k] # NoPath THEN overrides[k]
  ELSE IF k \in DOMAIN Needs THEN DirName(Computed[Needs[k]], Levels[k])
  ELSE [of |-> "system", up |-> 0]

\* Override clears the cache because "some of its entries could have depended
\* on the value we are overriding": no entry outlives what it depends on, though
\* threads look keys up, and override others, in between, unless a key was
\* overridden while some thread was computing one. That thread then stores the
\* old path in the cache, where Get looks first: the override has no effect.
CacheInSync ==
  /\ TypeOK
  /\ raced \/ \A k \in Key : cache[k] \in {NoPath, Computed[k]}

=============================================================================
