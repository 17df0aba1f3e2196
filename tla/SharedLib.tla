----------------------------- MODULE SharedLib -----------------------------
(***************************************************************************)
(* cor::SharedLib (include/cor/so.hpp:37-90), the owner of what dlopen()   *)
(* returns.  The dynamic linker counts the references to a library, gives  *)
(* the same handle to everybody who opens it, and unloads it when the last *)
(* reference is closed.  The move constructor copies h and leaves it in    *)
(* the source, so that there are two objects for one reference; it does    *)
(* not take the name along.  Moves are actions like the others, and moved  *)
(* remembers that there has been one.                                      *)
(***************************************************************************)
EXTENDS Integers, FiniteSets

CONSTANTS LibObjects,   \* places in memory for objects of type SharedLib
          Libraries,    \* the files dlopen() can load
          Missing,      \* a file it can not
          Null,         \* h == 0
          NoLib         \* there is no object here

ASSUME SharedLibAssumption ==
  /\ IsFiniteSet(LibObjects)
  /\ Missing \notin Libraries
  /\ {Null, NoLib} \cap Libraries = {}
  /\ Null # NoLib

VARIABLES
  lib,       \* lib[o]: h of an object, or NoLib
  name,      \* name[o]: name_
  refs,      \* refs[l]: the linker's references to l, which is loaded if any
  stray,     \* has dlclose() been called for a library that is not loaded?
  moved      \* has the move constructor been called?

libVars == <<lib, name, refs, stray, moved>>

LibInit ==
  /\ lib = [o \in LibObjects |-> NoLib]
  /\ name = [o \in LibObjects |-> Null]
  /\ refs = [l \in Libraries |-> 0]
  /\ stray = FALSE
  /\ moved = FALSE

Lives(o) == lib[o] # NoLib

IsLoaded(o) == lib[o] \in Libraries

Load(o, file_name) ==
  /\ ~Lives(o)
  /\ name' = [name EXCEPT ![o] = file_name]
  /\ \/ /\ file_name \in Libraries
        /\ lib' = [lib EXCEPT ![o] = file_name]
        /\ refs' = [refs EXCEPT ![file_name] = @ + 1]
     \/ /\ file_name = Missing
        /\ lib' = [lib EXCEPT ![o] = Null]
        /\ UNCHANGED refs
  /\ UNCHANGED <<stray, moved>>

MoveLib(o, from) ==
  /\ ~Lives(o)
  /\ Lives(from)
  /\ lib' = [lib EXCEPT ![o] = lib[from]]
  /\ name' = [name EXCEPT ![o] = Null]
  /\ moved' = TRUE
  /\ UNCHANGED <<refs, stray>>

\* dlclose(h)
Unreference(l) ==
  IF refs[l] > 0
    THEN /\ refs' = [refs EXCEPT ![l] = @ - 1]
         /\ UNCHANGED stray
    ELSE /\ stray' = TRUE
         /\ UNCHANGED refs

CloseLib(o) ==
  /\ Lives(o)
  /\ IsLoaded(o)
  /\ Unreference(lib[o])
  /\ lib' = [lib EXCEPT ![o] = Null]
  /\ UNCHANGED <<name, moved>>

\* Mutant: the destructor does not close.
DestroyLib_Leaks(o) ==
  /\ Lives(o)
  /\ lib' = [lib EXCEPT ![o] = NoLib]
  /\ UNCHANGED <<name, refs, stray, moved>>

DestroyLib(o) ==
  /\ Lives(o)
  /\ IF IsLoaded(o) THEN Unreference(lib[o]) ELSE UNCHANGED <<refs, stray>>
  /\ lib' = [lib EXCEPT ![o] = NoLib]
  /\ UNCHANGED <<name, moved>>

LibNext ==
  \E o \in LibObjects :
    \/ \E file_name \in Libraries \cup {Missing} : Load(o, file_name)
    \/ \E from \in LibObjects : MoveLib(o, from)
    \/ CloseLib(o)
    \/ DestroyLib(o)

LibSpec == LibInit /\ [][LibNext]_libVars

-----------------------------------------------------------------------------

(* The values of the variables are of their types. *)
LibTypeOK ==
  /\ lib \in [LibObjects -> Libraries \cup {Null, NoLib}]
  /\ name \in [LibObjects -> Libraries \cup {Null, Missing}]
  /\ refs \in [Libraries -> Nat]
  /\ stray \in BOOLEAN
  /\ moved \in BOOLEAN

\* The objects with h of library l.
Users(l) == {o \in LibObjects : lib[o] = l}

(***************************************************************************)
(* No reference to a library outlives the objects that hold it, moves or   *)
(* not; and as long as nothing is moved every object that is loaded has a  *)
(* reference of its own, so that the library stays loaded under it, no     *)
(* library is closed twice, and name() is what was loaded (so.hpp:39-66).  *)
(***************************************************************************)
LibraryReferencesHeld ==
  /\ \A l \in Libraries : refs[l] <= Cardinality(Users(l))
  /\ moved \/
       /\ ~stray
       /\ \A l \in Libraries : refs[l] = Cardinality(Users(l))
       /\ \A o \in LibObjects : IsLoaded(o) => name[o] = lib[o]
=============================================================================
