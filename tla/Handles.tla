------------------------------ MODULE Handles ------------------------------
(***************************************************************************)
(* cor::Handle with FdTraits (include/cor/util.hpp:95-203), the owner of a *)
(* file descriptor, and the pipes that are made of two of them             *)
(* (include/cor/os.hpp, include/cor/pipe.hpp), above the process's table   *)
(* of descriptors.  A descriptor is a number that is used again as soon as *)
(* it is closed, so a handle that closed what is no longer its own would   *)
(* close another owner's file: the model numbers the files to see it.      *)
(*                                                                         *)
(* A constructor that throws, and a call on a handle that is not valid,    *)
(* change nothing, and are steps that leave everything as it is.  The      *)
(* program gives a handle only descriptors it is itself responsible for,   *)
(* those it has opened or has got back from release().                     *)
(***************************************************************************)
EXTENDS Integers, FiniteSets

CONSTANTS HandleObjects,  \* places in memory for objects of type Handle
          MaxFd,          \* bound: the largest descriptor of the process
          MaxFiles        \* bound: files opened

ASSUME HandlesAssumption == MaxFd \in Nat /\ MaxFiles \in Nat

Fds == 0 .. MaxFd
NoFile == 0
Invalid == -1       \* FdTraits::invalid_()
NoObject == -2      \* there is no object here

VARIABLES
  file,      \* file[fd]: the open file a descriptor refers to, or NoFile
  opened,    \* files opened so far: their numbers are 1 .. opened
  value,     \* value[h]: v_ of a handle, or NoObject
  took,      \* took[h]: the file v_ referred to when the handle got it
  user,      \* user[fd]: the file the program holds without a handle
  lost       \* lost[fd]: the file of a v_ that was overwritten

handleVars == <<file, opened, value, took, user, lost>>

HandlesInit ==
  /\ file = [fd \in Fds |-> NoFile]
  /\ opened = 0
  /\ value = [h \in HandleObjects |-> NoObject]
  /\ took = [h \in HandleObjects |-> NoFile]
  /\ user = [fd \in Fds |-> NoFile]
  /\ lost = [fd \in Fds |-> NoFile]

IsValid(v) == v >= 0

Exists(h) == value[h] # NoObject

\* f with the entry for v, if v is a descriptor at all, set to x.
Set(f, v, x) == [fd \in Fds |-> IF fd = v THEN x ELSE f[fd]]

\* What the program can give to a handle: invalid, or a file of its own.
Offers == {Invalid} \cup {fd \in Fds : user[fd] # NoFile}

FileOf(v) == IF IsValid(v) THEN user[v] ELSE NoFile

IsFree(fd) == fd \in Fds /\ file[fd] = NoFile

LowestFree(fd) == IsFree(fd) /\ \A other \in 0 .. fd - 1 : ~IsFree(other)

(* ::open() and ::close() of the program itself. *)
Open ==
  /\ opened < MaxFiles
  /\ \E fd \in Fds :
       /\ LowestFree(fd)
       /\ file' = Set(file, fd, opened + 1)
       /\ user' = Set(user, fd, opened + 1)
  /\ opened' = opened + 1
  /\ UNCHANGED <<value, took, lost>>

UserClose ==
  /\ \E fd \in Fds :
       /\ user[fd] # NoFile
       /\ file' = Set(file, fd, NoFile)
       /\ user' = Set(user, fd, NoFile)
  /\ UNCHANGED <<opened, value, took, lost>>

(* Handle(v, option), and the constructors that do not validate(). *)
Construct(h, v, option) ==
  /\ ~Exists(h)
  /\ v \in Offers
  /\ option = "only_valid_handle" => IsValid(v)
  /\ value' = [value EXCEPT ![h] = v]
  /\ took' = [took EXCEPT ![h] = FileOf(v)]
  /\ user' = Set(user, v, NoFile)
  /\ UNCHANGED <<file, opened, lost>>

\* Mutant: the handle that is moved from keeps the descriptor.
MoveConstruct_Shares(h, from) ==
  /\ ~Exists(h)
  /\ Exists(from)
  /\ value' = [value EXCEPT ![h] = value[from]]
  /\ took' = [took EXCEPT ![h] = took[from]]
  /\ UNCHANGED <<file, opened, user, lost>>

MoveConstruct(h, from) ==
  /\ ~Exists(h)
  /\ Exists(from)
  /\ value' = [value EXCEPT ![h] = value[from], ![from] = Invalid]
  /\ took' = [took EXCEPT ![h] = took[from], ![from] = NoFile]
  /\ UNCHANGED <<file, opened, user, lost>>

\* v_ is overwritten as it is, and from may be the handle itself.
MoveAssign(h, from) ==
  /\ Exists(h)
  /\ Exists(from)
  /\ lost' = Set(lost, value[h], took[h])
  /\ value' = [value EXCEPT ![h] = value[from], ![from] = Invalid]
  /\ took' = [took EXCEPT ![h] = took[from], ![from] = NoFile]
  /\ UNCHANGED <<file, opened, user>>

Close(h) ==
  /\ Exists(h)
  /\ file' = Set(file, value[h], NoFile)
  /\ value' = [value EXCEPT ![h] = Invalid]
  /\ took' = [took EXCEPT ![h] = NoFile]
  /\ UNCHANGED <<opened, user, lost>>

Destroy(h) ==
  /\ Exists(h)
  /\ file' = Set(file, value[h], NoFile)
  /\ value' = [value EXCEPT ![h] = NoObject]
  /\ took' = [took EXCEPT ![h] = NoFile]
  /\ UNCHANGED <<opened, user, lost>>

Reset(h, v) ==
  /\ Exists(h)
  /\ v \in Offers
  /\ file' = Set(file, value[h], NoFile)
  /\ value' = [value EXCEPT ![h] = v]
  /\ took' = [took EXCEPT ![h] = FileOf(v)]
  /\ user' = Set(user, v, NoFile)
  /\ UNCHANGED <<opened, lost>>

Release(h) ==
  /\ Exists(h)
  /\ user' = Set(user, value[h], took[h])
  /\ value' = [value EXCEPT ![h] = Invalid]
  /\ took' = [took EXCEPT ![h] = NoFile]
  /\ UNCHANGED <<file, opened, lost>>

(* posix::Pipe::create() and the constructor of Pipe: two descriptors at   *)
(* once, or an exception.  use<end>() and the move constructor of Pipe are *)
(* MoveConstruct of the handles in them, Pipe::close() is Close.           *)
PipeCreate(read, write) ==
  /\ read # write
  /\ ~Exists(read)
  /\ ~Exists(write)
  /\ opened + 2 <= MaxFiles
  /\ \E r, w \in Fds :
       /\ LowestFree(r)
       /\ IsFree(w) /\ w > r /\ \A other \in r + 1 .. w - 1 : ~IsFree(other)
       /\ file' = Set(Set(file, r, opened + 1), w, opened + 2)
       /\ value' = [value EXCEPT ![read] = r, ![write] = w]
  /\ took' = [took EXCEPT ![read] = opened + 1, ![write] = opened + 2]
  /\ opened' = opened + 2
  /\ UNCHANGED <<user, lost>>

HandlesNext ==
  \/ Open
  \/ UserClose
  \/ \E h \in HandleObjects :
       \/ \E v \in Offers :
            \/ \E option \in {"only_valid_handle", "allow_invalid_handle"} :
                 Construct(h, v, option)
            \/ Reset(h, v)
       \/ \E other \in HandleObjects :
            \/ MoveConstruct(h, other)
            \/ MoveAssign(h, other)
            \/ PipeCreate(h, other)
       \/ Close(h)
       \/ Destroy(h)
       \/ Release(h)

HandlesSpec == HandlesInit /\ [][HandlesNext]_handleVars

-----------------------------------------------------------------------------

(* The values of the variables are of their types. *)
HandlesTypeOK ==
  /\ opened \in Nat
  /\ file \in [Fds -> Nat]
  /\ value \in [HandleObjects -> Fds \cup {Invalid, NoObject}]
  /\ took \in [HandleObjects -> Nat]
  /\ user \in [Fds -> Nat]
  /\ lost \in [Fds -> Nat]

(***************************************************************************)
(* Every open file has exactly one owner - a handle, the program, or       *)
(* nobody when a move assignment has overwritten the handle's v_ - and     *)
(* what an owner holds is still the file it took, however often the number *)
(* has been closed and given out again.  (~Handle, close() and reset()     *)
(* close by number: util.hpp:148, 170-176, 182-186; move construction and  *)
(* release() must give the number up: 156, 191.)                           *)
(***************************************************************************)
EveryFileHasOneOwner ==
  /\ \A h \in HandleObjects : IsValid(value[h]) =>
       /\ file[value[h]] = took[h] /\ took[h] # NoFile
       /\ user[value[h]] = NoFile /\ lost[value[h]] = NoFile
       /\ \A g \in HandleObjects : value[g] = value[h] => g = h
  /\ \A fd \in Fds :
       /\ user[fd] # NoFile => file[fd] = user[fd] /\ lost[fd] = NoFile
       /\ lost[fd] # NoFile => file[fd] = lost[fd]
       /\ file[fd] # NoFile =>
            \/ user[fd] # NoFile
            \/ lost[fd] # NoFile
            \/ \E h \in HandleObjects : value[h] = fd
=============================================================================
