------------------------------- MODULE Watch -------------------------------
(***************************************************************************)
(* cor::inotify::Watch (include/cor/inotify.hpp:38-71) on one inotify      *)
(* instance (cor::inotify::Handle, 12-36).  The kernel has one watch per   *)
(* file: adding it again returns the descriptor it has already, and a      *)
(* descriptor that was removed is not given out again.  A Watch calls      *)
(* inotify_rm_watch() for its fd_ whatever that is.                        *)
(*                                                                         *)
(* The move constructor calls rm() before anything has been assigned to    *)
(* fd_ and then swaps: fd_ is any number at that point, so the model lets  *)
(* it be any of the descriptors or none.                                   *)
(***************************************************************************)
EXTENDS Integers

CONSTANTS WatchObjects,  \* places in memory for objects of type Watch
          Paths,         \* files that can be watched
          Nowhere,       \* a path that can not
          MaxWatches     \* bound: descriptors given out

ASSUME WatchAssumption == Nowhere \notin Paths /\ MaxWatches \in Nat

Descriptors == 1 .. MaxWatches
NotAdded == -1       \* inotify_add_watch() has failed
NoWatch == -2        \* there is no object here

VARIABLES
  fd,         \* fd[w]: fd_ of a Watch, or NoWatch
  path,       \* path[w]: the path it was constructed with
  target,     \* target[d]: the file the kernel watches as d, or Nowhere
  given,      \* descriptors given out so far
  shared,     \* has a path been added while it was watched?
  moved_watch \* has the move constructor been called?

watchVars == <<fd, path, target, given, shared, moved_watch>>

WatchInit ==
  /\ fd = [w \in WatchObjects |-> NoWatch]
  /\ path = [w \in WatchObjects |-> Nowhere]
  /\ target = [d \in Descriptors |-> Nowhere]
  /\ given = 0
  /\ shared = FALSE
  /\ moved_watch = FALSE

IsAlive(w) == fd[w] # NoWatch

\* inotify_rm_watch(): an error, which nobody looks at, unless d is in use.
Removed(d) == [x \in Descriptors |-> IF x = d THEN Nowhere ELSE target[x]]

AddWatch(w, p) ==
  /\ ~IsAlive(w)
  /\ path' = [path EXCEPT ![w] = p]
  /\ \/ /\ p = Nowhere
        /\ fd' = [fd EXCEPT ![w] = NotAdded]
        /\ UNCHANGED <<target, given, shared>>
     \/ /\ p \in Paths
        /\ \E d \in Descriptors :
             /\ target[d] = p
             /\ fd' = [fd EXCEPT ![w] = d]
        /\ shared' = TRUE
        /\ UNCHANGED <<target, given>>
     \/ /\ p \in Paths
        /\ \A d \in Descriptors : target[d] # p
        /\ given < MaxWatches
        /\ given' = given + 1
        /\ target' = [target EXCEPT ![given'] = p]
        /\ fd' = [fd EXCEPT ![w] = given']
        /\ UNCHANGED shared
  /\ UNCHANGED moved_watch

\* Mutant: fd_ is 0 when the move constructor begins.
MoveWatch_Zero(w, src) ==
  /\ ~IsAlive(w)
  /\ IsAlive(src)
  /\ target' = Removed(0)
  /\ fd' = [fd EXCEPT ![w] = fd[src], ![src] = 0]
  /\ path' = [path EXCEPT ![w] = path[src]]
  /\ moved_watch' = TRUE
  /\ UNCHANGED <<given, shared>>

MoveWatch(w, src) ==
  /\ ~IsAlive(w)
  /\ IsAlive(src)
  /\ \E uninitialized \in Descriptors \cup {NotAdded} :
       /\ target' = Removed(uninitialized)
       /\ fd' = [fd EXCEPT ![w] = fd[src], ![src] = uninitialized]
  /\ path' = [path EXCEPT ![w] = path[src]]
  /\ moved_watch' = TRUE
  /\ UNCHANGED <<given, shared>>

\* Mutant: the destructor removes nothing.
DestroyWatch_Leaks(w) ==
  /\ IsAlive(w)
  /\ fd' = [fd EXCEPT ![w] = NoWatch]
  /\ UNCHANGED <<path, target, given, shared, moved_watch>>

DestroyWatch(w) ==
  /\ IsAlive(w)
  /\ target' = Removed(fd[w])
  /\ fd' = [fd EXCEPT ![w] = NoWatch]
  /\ UNCHANGED <<path, given, shared, moved_watch>>

WatchNext ==
  \E w \in WatchObjects :
    \/ \E p \in Paths \cup {Nowhere} : AddWatch(w, p)
    \/ \E src \in WatchObjects : MoveWatch(w, src)
    \/ DestroyWatch(w)

WatchSpec == WatchInit /\ [][WatchNext]_watchVars

-----------------------------------------------------------------------------

(* The values of the variables are of their types. *)
WatchTypeOK ==
  /\ fd \in [WatchObjects -> Descriptors \cup {NotAdded, NoWatch}]
  /\ path \in [WatchObjects -> Paths \cup {Nowhere}]
  /\ target \in [Descriptors -> Paths \cup {Nowhere}]
  /\ given \in 0 .. MaxWatches
  /\ shared \in BOOLEAN
  /\ moved_watch \in BOOLEAN

(***************************************************************************)
(* The kernel watches nothing that no object would stop watching, moves or *)
(* not; and as long as nothing is moved and no file watched twice at once, *)
(* a Watch's file is watched until the Watch is destroyed                  *)
(* (inotify.hpp:41-64).                                                    *)
(***************************************************************************)
WatchesHeld ==
  /\ \A d \in Descriptors : target[d] # Nowhere =>
       \E w \in WatchObjects : fd[w] = d
  /\ moved_watch \/ shared \/
       \A w \in WatchObjects : fd[w] \in Descriptors => target[fd[w]] = path[w]
=============================================================================
