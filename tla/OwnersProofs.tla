---------------------------- MODULE OwnersProofs ----------------------------
(***************************************************************************)
(* Proofs about the owners of descriptors, of libraries, of inotify        *)
(* watches and of what is to be done at the end of a scope, for any number *)
(* of objects.                                                             *)
(***************************************************************************)
EXTENDS MCOwners, FiniteSetTheorems, TLAPS

(***************************************************************************)
(* Handles.  The invariant is inductive as it stands: a descriptor that is *)
(* given out is free, and what is free is in no owner's hands.             *)
(***************************************************************************)
HandlesInv == HandlesTypeOK /\ EveryFileHasOneOwner

(* The table after an assignment to one of its entries, if v is one. *)
LEMMA SetEntry ==
  ASSUME NEW f \in [Fds -> Nat], NEW v, NEW x \in Nat
  PROVE  /\ Set(f, v, x) \in [Fds -> Nat]
         /\ \A d \in Fds : Set(f, v, x)[d] = IF d = v THEN x ELSE f[d]
BY DEF Set

(* What a program offers is its own, open, and in no handle. *)
LEMMA OfferedIsFree ==
  ASSUME HandlesInv, NEW v \in Offers
  PROVE  /\ v \in Fds \cup {Invalid}
         /\ FileOf(v) \in Nat
         /\ IsValid(v) =>
              /\ v \in Fds
              /\ file[v] = FileOf(v) /\ FileOf(v) # NoFile /\ lost[v] = NoFile
              /\ \A h \in HandleObjects : value[h] # v
BY DEF HandlesInv, HandlesTypeOK, EveryFileHasOneOwner, Offers, FileOf, IsValid,
       Fds, Invalid, NoFile

\* No file is open at first.
LEMMA HandlesStart ==
  ASSUME HandlesAssumption, HandlesInit
  PROVE  HandlesInv
BY DEF HandlesAssumption, HandlesInit, HandlesInv, HandlesTypeOK,
       EveryFileHasOneOwner, IsValid, Fds, NoFile, NoObject, Invalid

(* Every operation on handles keeps every file with one owner. *)
LEMMA HandlesStep ==
  ASSUME HandlesAssumption, HandlesInv, [HandlesNext]_handleVars
  PROVE  HandlesInv'
<1> USE DEF HandlesInv, HandlesTypeOK, EveryFileHasOneOwner, IsValid, NoFile,
            NoObject, Invalid, Exists
<1>0. \A v \in Fds : v \in Nat /\ v >= 0
  BY DEF Fds, HandlesAssumption
<1>1. ASSUME Open PROVE HandlesInv'
  <2>1. PICK d \in Fds : /\ file[d] = NoFile
                          /\ file' = Set(file, d, opened + 1)
                          /\ user' = Set(user, d, opened + 1)
    BY <1>1 DEF Open, LowestFree, IsFree
  <2>2. HandlesTypeOK' BY <1>1, <2>1, SetEntry DEF Open
  <2>3. EveryFileHasOneOwner' BY <1>0, <1>1, <2>1, SetEntry DEF Open
  <2> QED BY <2>2, <2>3
<1>2. ASSUME UserClose PROVE HandlesInv'
  <2>1. PICK d \in Fds : /\ user[d] # NoFile
                          /\ file' = Set(file, d, NoFile)
                          /\ user' = Set(user, d, NoFile)
    BY <1>2 DEF UserClose
  <2>2. HandlesTypeOK' BY <1>2, <2>1, SetEntry DEF UserClose
  <2>3. EveryFileHasOneOwner' BY <1>0, <1>2, <2>1, SetEntry DEF UserClose
  <2> QED BY <2>2, <2>3
<1>3. ASSUME NEW h \in HandleObjects, NEW v \in Offers, NEW option,
             Construct(h, v, option)
      PROVE  HandlesInv'
  <2>2. HandlesTypeOK' BY <1>3, OfferedIsFree, SetEntry DEF Construct
  <2>3. EveryFileHasOneOwner'
    BY <1>0, <1>3, OfferedIsFree, SetEntry DEF Construct
  <2> QED BY <2>2, <2>3
<1>4. ASSUME NEW h \in HandleObjects, NEW v \in Offers, Reset(h, v)
      PROVE  HandlesInv'
  <2>2. HandlesTypeOK' BY <1>4, OfferedIsFree, SetEntry DEF Reset
  <2>3. EveryFileHasOneOwner' BY <1>0, <1>4, OfferedIsFree, SetEntry DEF Reset
  <2> QED BY <2>2, <2>3
<1>5. ASSUME NEW h \in HandleObjects, NEW from \in HandleObjects,
             MoveConstruct(h, from)
      PROVE  HandlesInv'
  BY <1>0, <1>5 DEF MoveConstruct
<1>6. ASSUME NEW h \in HandleObjects, NEW from \in HandleObjects,
             MoveAssign(h, from)
      PROVE  HandlesInv'
  <2>2. HandlesTypeOK' BY <1>6, SetEntry DEF MoveAssign
  <2>3. EveryFileHasOneOwner' BY <1>0, <1>6, SetEntry DEF MoveAssign
  <2> QED BY <2>2, <2>3
<1>7. ASSUME NEW read \in HandleObjects, NEW write \in HandleObjects,
             PipeCreate(read, write)
      PROVE  HandlesInv'
  <2>1. PICK r \in Fds, w \in Fds :
          /\ LowestFree(r) /\ IsFree(w) /\ w > r
          /\ file' = Set(Set(file, r, opened + 1), w, opened + 2)
          /\ value' = [value EXCEPT ![read] = r, ![write] = w]
    BY <1>7, Zenon DEF PipeCreate
  <2>2. r # w /\ file[r] = NoFile /\ file[w] = NoFile
    BY <1>0, <2>1 DEF LowestFree, IsFree
  <2>3. Set(file, r, opened + 1) \in [Fds -> Nat]
    BY SetEntry
  <2>4. HandlesTypeOK' BY <1>7, <2>1, <2>3, SetEntry DEF PipeCreate
  <2>5. EveryFileHasOneOwner'
    BY <1>0, <1>7, <2>1, <2>2, <2>3, SetEntry DEF PipeCreate
  <2> QED BY <2>4, <2>5
<1>8. ASSUME NEW h \in HandleObjects, Close(h) PROVE HandlesInv'
  <2>2. HandlesTypeOK' BY <1>8, SetEntry DEF Close
  <2>3. EveryFileHasOneOwner' BY <1>0, <1>8, SetEntry DEF Close
  <2> QED BY <2>2, <2>3
<1>9. ASSUME NEW h \in HandleObjects, Destroy(h) PROVE HandlesInv'
  <2>2. HandlesTypeOK' BY <1>9, SetEntry DEF Destroy
  <2>3. EveryFileHasOneOwner' BY <1>0, <1>9, SetEntry DEF Destroy
  <2> QED BY <2>2, <2>3
<1>10. ASSUME NEW h \in HandleObjects, Release(h) PROVE HandlesInv'
  <2>2. HandlesTypeOK' BY <1>10, SetEntry DEF Release
  <2>3. EveryFileHasOneOwner' BY <1>0, <1>10, SetEntry DEF Release
  <2> QED BY <2>2, <2>3
<1>11. CASE UNCHANGED handleVars
  BY <1>11 DEF handleVars
<1> QED
  BY <1>1, <1>2, <1>3, <1>4, <1>5, <1>6, <1>7, <1>8, <1>9, <1>10, <1>11
  DEF HandlesNext

(* The variables of the descriptors and the handles keep their types. *)
THEOREM HandlesTypeCorrect == HandlesSpec => []HandlesTypeOK
<1>1. HandlesInit => HandlesInv BY HandlesStart, HandlesAssumption
<1>2. HandlesInv /\ [HandlesNext]_handleVars => HandlesInv'
  BY HandlesStep, HandlesAssumption
<1>3. HandlesInv => HandlesTypeOK BY DEF HandlesInv
<1> QED BY <1>1, <1>2, <1>3, PTL DEF HandlesSpec

(* Every open file has one owner, who holds the file it took. *)
THEOREM OneOwner == HandlesSpec => []EveryFileHasOneOwner
<1>1. HandlesInit => HandlesInv BY HandlesStart, HandlesAssumption
<1>2. HandlesInv /\ [HandlesNext]_handleVars => HandlesInv'
  BY HandlesStep, HandlesAssumption
<1>3. HandlesInv => EveryFileHasOneOwner BY DEF HandlesInv
<1> QED BY <1>1, <1>2, <1>3, PTL DEF HandlesSpec

-----------------------------------------------------------------------------

(***************************************************************************)
(* Libraries.  The invariant is inductive as it stands: a reference comes  *)
(* and goes with an object that has the library, until one is moved.       *)
(***************************************************************************)
LibInv == LibTypeOK /\ LibraryReferencesHeld

(* The number of the objects, when there is one more or one less of them.  *)
LEMMA ObjectsCounted ==
  ASSUME SharedLibAssumption, NEW S \in SUBSET LibObjects, NEW o \in LibObjects
  PROVE  /\ Cardinality(S) \in Nat
         /\ o \notin S => Cardinality(S \cup {o}) = Cardinality(S) + 1
         /\ o \in S => /\ Cardinality(S \ {o}) = Cardinality(S) - 1
                       /\ Cardinality(S \ {o}) \in Nat
         /\ Cardinality(S) <= Cardinality(S \cup {o})
<1>1. IsFiniteSet(S)
  BY FS_Subset DEF SharedLibAssumption
<1>2. IsFiniteSet(S \ {o}) /\ IsFiniteSet(S \cup {o})
  BY <1>1, FS_RemoveElement, FS_AddElement
<1>3. /\ Cardinality(S) \in Nat
      /\ Cardinality(S \ {o}) \in Nat
      /\ Cardinality(S \cup {o}) \in Nat
  BY <1>1, <1>2, FS_CardinalityType
<1>4. o \notin S => Cardinality(S \cup {o}) = Cardinality(S) + 1
  BY <1>1, FS_AddElement
<1>5. o \in S => Cardinality(S \ {o}) = Cardinality(S) - 1
  BY <1>1, FS_RemoveElement
<1>6. Cardinality(S) <= Cardinality(S \cup {o})
  BY <1>2, FS_Subset
<1> QED BY <1>3, <1>4, <1>5, <1>6

(* Who has a library, when one object o has changed to v.                  *)
LEMMA UsersAfter ==
  ASSUME LibTypeOK, NEW o \in LibObjects, NEW v, lib' = [lib EXCEPT ![o] = v],
         NEW l \in Libraries
  PROVE  /\ Users(l) \in SUBSET LibObjects
         /\ Users(l)' = IF v = l THEN Users(l) \cup {o} ELSE Users(l) \ {o}
         /\ o \in Users(l) <=> lib[o] = l
BY DEF LibTypeOK, Users

(* An object that gives up the reference it has, or stands for.            *)
LEMMA GivenUp ==
  ASSUME SharedLibAssumption, LibInv, NEW o \in LibObjects, lib[o] \in Libraries,
         Unreference(lib[o]), NEW v, v \notin Libraries,
         lib' = [lib EXCEPT ![o] = v], UNCHANGED <<name, moved>>,
         lib' \in [LibObjects -> Libraries \cup {Null, NoLib}]
  PROVE  LibInv'
<1> DEFINE gone == lib[o]
<1>1. ASSUME NEW l \in Libraries
      PROVE  /\ Users(l) \in SUBSET LibObjects
             /\ Cardinality(Users(l)) \in Nat
             /\ Cardinality(Users(l)') \in Nat
             /\ l = gone => Cardinality(Users(l)') = Cardinality(Users(l)) - 1
             /\ l # gone => Users(l)' = Users(l)
  <2>1. Users(l) \in SUBSET LibObjects /\ Users(l)' = Users(l) \ {o}
        /\ (o \in Users(l) <=> l = gone)
    BY UsersAfter DEF LibInv
  <2>2. /\ Cardinality(Users(l)) \in Nat
        /\ l = gone => /\ Cardinality(Users(l) \ {o}) = Cardinality(Users(l)) - 1
                       /\ Cardinality(Users(l) \ {o}) \in Nat
    BY <2>1, ObjectsCounted
  <2>3. l # gone => Users(l)' = Users(l)
    BY <2>1
  <2> QED BY <2>1, <2>2, <2>3
<1>2. refs \in [Libraries -> Nat] /\ stray \in BOOLEAN /\ moved \in BOOLEAN
  BY DEF LibInv, LibTypeOK
<1>3. \A l \in Libraries : refs[l] <= Cardinality(Users(l))
  BY DEF LibInv, LibraryReferencesHeld
<1>4. CASE refs[gone] > 0
  <2>1. refs' = [refs EXCEPT ![gone] = refs[gone] - 1] /\ stray' = stray
    BY <1>4 DEF Unreference
  <2>2. LibTypeOK' BY <1>2, <1>4, <2>1 DEF LibInv, LibTypeOK
  <2>3. \A l \in Libraries : refs'[l] <= Cardinality(Users(l)')
    BY <1>1, <1>2, <1>3, <1>4, <2>1
  <2>4. ASSUME ~moved
        PROVE  /\ ~stray'
               /\ \A l \in Libraries : refs'[l] = Cardinality(Users(l)')
               /\ \A b \in LibObjects : lib'[b] \in Libraries => name'[b] = lib'[b]
    <3>1. /\ ~stray
          /\ \A l \in Libraries : refs[l] = Cardinality(Users(l))
          /\ \A b \in LibObjects : lib[b] \in Libraries => name[b] = lib[b]
      BY <2>4 DEF LibInv, LibraryReferencesHeld, IsLoaded
    <3>2. \A l \in Libraries : refs'[l] = Cardinality(Users(l)')
      BY <1>1, <1>2, <1>4, <2>1, <3>1
    <3> QED BY <2>1, <3>1, <3>2 DEF LibInv, LibTypeOK
  <2> QED BY <2>2, <2>3, <2>4 DEF LibInv, LibraryReferencesHeld, IsLoaded
<1>5. CASE ~(refs[gone] > 0)
  <2>1. stray' = TRUE /\ refs' = refs
    BY <1>5 DEF Unreference
  <2>2. refs[gone] = 0 /\ Cardinality(Users(gone)) > 0
    BY <1>1, <1>2, <1>5
  <2>3. moved
    BY <2>2 DEF LibInv, LibraryReferencesHeld
  <2>4. LibTypeOK' BY <1>2, <2>1 DEF LibInv, LibTypeOK
  <2>5. \A l \in Libraries : refs'[l] <= Cardinality(Users(l)')
    BY <1>1, <1>2, <1>3, <2>1, <2>2
  <2> QED BY <2>3, <2>4, <2>5 DEF LibInv, LibraryReferencesHeld
<1> QED BY <1>4, <1>5

\* Every operation on libraries keeps the references counted.
LEMMA LibStep ==
  ASSUME SharedLibAssumption, LibInv, [LibNext]_libVars
  PROVE  LibInv'
<1>0. /\ Missing \notin Libraries
      /\ Null \notin Libraries /\ NoLib \notin Libraries
      /\ Null # NoLib
  BY DEF SharedLibAssumption
<1>1. ASSUME NEW o \in LibObjects, NEW l \in Libraries \cup {Missing}, Load(o, l)
      PROVE  LibInv'
  <2>1. CASE l \in Libraries
    <3>1. /\ lib[o] = NoLib
          /\ lib' = [lib EXCEPT ![o] = l]
          /\ refs' = [refs EXCEPT ![l] = refs[l] + 1]
          /\ name' = [name EXCEPT ![o] = l]
          /\ UNCHANGED <<stray, moved>>
      BY <1>0, <1>1, <2>1 DEF Load, Lives
    <3>2. LibTypeOK' BY <3>1, <2>1 DEF LibInv, LibTypeOK
    <3>3. ASSUME NEW k \in Libraries
          PROVE  /\ k = l => Cardinality(Users(k)') = Cardinality(Users(k)) + 1
                 /\ k # l => Users(k)' = Users(k)
                 /\ Cardinality(Users(k)) \in Nat
      <4>1. /\ Users(k) \in SUBSET LibObjects /\ o \notin Users(k)
            /\ Users(k)' = IF l = k THEN Users(k) \cup {o} ELSE Users(k) \ {o}
        BY <1>0, <3>1, UsersAfter DEF LibInv
      <4> QED BY <4>1, ObjectsCounted
    <3>4. \A k \in Libraries : refs'[k] <= Cardinality(Users(k)')
      BY <2>1, <3>1, <3>3 DEF LibInv, LibTypeOK, LibraryReferencesHeld
    <3>5. ASSUME ~moved
          PROVE  /\ ~stray'
                 /\ \A k \in Libraries : refs'[k] = Cardinality(Users(k)')
                 /\ \A b \in LibObjects : lib'[b] \in Libraries => name'[b] = lib'[b]
      <4>1. /\ ~stray
            /\ \A k \in Libraries : refs[k] = Cardinality(Users(k))
            /\ \A b \in LibObjects : lib[b] \in Libraries => name[b] = lib[b]
        BY <3>5 DEF LibInv, LibraryReferencesHeld, IsLoaded
      <4>2. \A k \in Libraries : refs'[k] = Cardinality(Users(k)')
        BY <2>1, <3>1, <3>3, <4>1 DEF LibInv, LibTypeOK
      <4> QED BY <3>1, <4>1, <4>2 DEF LibInv, LibTypeOK
    <3> QED BY <3>1, <3>2, <3>4, <3>5 DEF LibInv, LibraryReferencesHeld, IsLoaded
  <2>2. CASE l = Missing
    <3>1. /\ lib[o] = NoLib
          /\ lib' = [lib EXCEPT ![o] = Null]
          /\ name' = [name EXCEPT ![o] = Missing]
          /\ UNCHANGED <<refs, stray, moved>>
      BY <1>0, <1>1, <2>2 DEF Load, Lives
    <3>2. \A k \in Libraries : Users(k)' = Users(k)
      BY <1>0, <3>1 DEF LibInv, LibTypeOK, Users
    <3>3. LibTypeOK' BY <3>1 DEF LibInv, LibTypeOK
    <3>4. \A b \in LibObjects : lib'[b] \in Libraries =>
            lib'[b] = lib[b] /\ name'[b] = name[b]
      BY <1>0, <3>1 DEF LibInv, LibTypeOK
    <3> QED
      BY <3>1, <3>2, <3>3, <3>4 DEF LibInv, LibraryReferencesHeld, IsLoaded
  <2> QED BY <2>1, <2>2
<1>2. ASSUME NEW o \in LibObjects, NEW from \in LibObjects, MoveLib(o, from)
      PROVE  LibInv'
  <2>1. /\ lib[o] = NoLib
        /\ lib' = [lib EXCEPT ![o] = lib[from]]
        /\ moved' = TRUE
        /\ UNCHANGED <<refs, stray>>
    BY <1>2 DEF MoveLib, Lives
  <2>2. LibTypeOK' BY <1>2 DEF MoveLib, LibInv, LibTypeOK
  <2>3. ASSUME NEW k \in Libraries PROVE refs'[k] <= Cardinality(Users(k)')
    <3>1. /\ Users(k) \in SUBSET LibObjects /\ o \notin Users(k)
          /\ Users(k)' = Users(k) \/ Users(k)' = Users(k) \cup {o}
      BY <1>0, <2>1 DEF LibInv, LibTypeOK, Users
    <3>2. /\ Cardinality(Users(k)) \in Nat
          /\ Cardinality(Users(k) \cup {o}) = Cardinality(Users(k)) + 1
      BY <3>1, ObjectsCounted
    <3>3. refs'[k] \in Nat /\ refs'[k] <= Cardinality(Users(k))
      BY <2>1 DEF LibInv, LibTypeOK, LibraryReferencesHeld
    <3> QED BY <3>1, <3>2, <3>3
  <2> QED BY <2>1, <2>2, <2>3 DEF LibInv, LibraryReferencesHeld
<1>3. ASSUME NEW o \in LibObjects, CloseLib(o) PROVE LibInv'
  <2>1. lib' \in [LibObjects -> Libraries \cup {Null, NoLib}]
    BY <1>3 DEF CloseLib, LibInv, LibTypeOK
  <2> QED BY <1>0, <1>3, <2>1, GivenUp DEF CloseLib, IsLoaded
<1>4. ASSUME NEW o \in LibObjects, DestroyLib(o) PROVE LibInv'
  <2>1. lib' \in [LibObjects -> Libraries \cup {Null, NoLib}]
    BY <1>4 DEF DestroyLib, LibInv, LibTypeOK
  <2>2. CASE IsLoaded(o)
    BY <1>0, <1>4, <2>1, <2>2, GivenUp DEF DestroyLib, IsLoaded
  <2>3. CASE ~IsLoaded(o)
    <3>1. /\ lib' = [lib EXCEPT ![o] = NoLib]
          /\ UNCHANGED <<name, refs, stray, moved>>
      BY <1>4, <2>3 DEF DestroyLib
    <3>2. \A k \in Libraries : Users(k)' = Users(k)
      BY <1>0, <2>3, <3>1 DEF LibInv, LibTypeOK, Users, IsLoaded
    <3>3. LibTypeOK' BY <2>1, <3>1 DEF LibInv, LibTypeOK
    <3>4. \A b \in LibObjects : lib'[b] \in Libraries =>
            lib'[b] = lib[b] /\ name'[b] = name[b]
      BY <1>0, <3>1 DEF LibInv, LibTypeOK
    <3> QED
      BY <3>1, <3>2, <3>3, <3>4 DEF LibInv, LibraryReferencesHeld, IsLoaded
  <2> QED BY <2>2, <2>3
<1>5. CASE UNCHANGED libVars
  BY <1>5 DEF libVars, LibInv, LibTypeOK, LibraryReferencesHeld, Users, IsLoaded
<1> QED BY <1>1, <1>2, <1>3, <1>4, <1>5 DEF LibNext

(* Before anything is loaded there are no references.                      *)
LEMMA LibStart ==
  ASSUME SharedLibAssumption, LibInit
  PROVE  LibInv
<1>1. \A l \in Libraries : Users(l) = {}
  BY SharedLibAssumption DEF LibInit, Users, SharedLibAssumption
<1>2. LibTypeOK BY DEF LibInit, LibTypeOK
<1>3. \A l \in Libraries : refs[l] = 0 /\ Cardinality(Users(l)) = 0
  BY <1>1, FS_EmptySet DEF LibInit
<1>4. ~stray /\ \A o \in LibObjects : lib[o] \notin Libraries
  BY SharedLibAssumption DEF LibInit, SharedLibAssumption
<1> QED BY <1>2, <1>3, <1>4 DEF LibInv, LibraryReferencesHeld, IsLoaded

(* No reference outlives its objects; without moves, none is missing.      *)
THEOREM LibrariesAreHeld == LibSpec => []LibraryReferencesHeld
<1>1. LibInit => LibInv BY LibStart, SharedLibAssumption
<1>2. LibInv /\ [LibNext]_libVars => LibInv'
  BY LibStep, SharedLibAssumption
<1>3. LibInv => LibraryReferencesHeld BY DEF LibInv
<1> QED BY <1>1, <1>2, <1>3, PTL DEF LibSpec

-----------------------------------------------------------------------------

(***************************************************************************)
(* Watches.  As long as nothing is moved and no file is watched twice, a   *)
(* descriptor belongs to one Watch, and none to a descriptor that has not  *)
(* been given out: without that, adding or destroying a Watch could change *)
(* what another one's descriptor stands for.                               *)
(***************************************************************************)
DescriptorsDiffer ==
  moved_watch \/ shared \/
    \A w \in WatchObjects : fd[w] \in Descriptors =>
      /\ fd[w] <= given
      /\ \A w2 \in WatchObjects : fd[w2] = fd[w] => w2 = w

WatchInv == WatchTypeOK /\ DescriptorsDiffer /\ WatchesHeld

\* Every operation on watches keeps the kernel's in their hands.
LEMMA WatchStep ==
  ASSUME WatchAssumption, WatchInv, [WatchNext]_watchVars
  PROVE  WatchInv'
<1> USE DEF WatchInv, WatchTypeOK, Descriptors, NotAdded, NoWatch, IsAlive
<1>0. MaxWatches \in Nat /\ Nowhere \notin Paths
  BY DEF WatchAssumption
<1>1. ASSUME NEW w \in WatchObjects, NEW p \in Paths \cup {Nowhere}, AddWatch(w, p)
      PROVE  WatchInv'
  <2>1. CASE p = Nowhere /\ fd' = [fd EXCEPT ![w] = NotAdded]
                         /\ UNCHANGED <<target, given, shared>>
    BY <1>0, <1>1, <2>1 DEF AddWatch, DescriptorsDiffer, WatchesHeld
  <2>2. CASE /\ p \in Paths
             /\ \E d \in Descriptors : target[d] = p /\ fd' = [fd EXCEPT ![w] = d]
             /\ shared' = TRUE
             /\ UNCHANGED <<target, given>>
    BY <1>0, <1>1, <2>2 DEF AddWatch, DescriptorsDiffer, WatchesHeld
  <2>3. CASE /\ p \in Paths /\ given < MaxWatches
             /\ given' = given + 1
             /\ target' = [target EXCEPT ![given'] = p]
             /\ fd' = [fd EXCEPT ![w] = given']
             /\ UNCHANGED shared
    <3>1. WatchTypeOK' BY <1>0, <1>1, <2>3 DEF AddWatch
    <3>2. DescriptorsDiffer' BY <1>0, <1>1, <2>3 DEF AddWatch, DescriptorsDiffer
    <3>3. WatchesHeld'
      BY <1>0, <1>1, <2>3 DEF AddWatch, DescriptorsDiffer, WatchesHeld
    <3> QED BY <3>1, <3>2, <3>3
  <2> QED BY <1>1, <2>1, <2>2, <2>3, Zenon DEF AddWatch
<1>2. ASSUME NEW w \in WatchObjects, NEW src \in WatchObjects, MoveWatch(w, src)
      PROVE  WatchInv'
  <2>1. PICK u \in Descriptors \cup {NotAdded} :
          /\ target' = Removed(u)
          /\ fd' = [fd EXCEPT ![w] = fd[src], ![src] = u]
    BY <1>2, Zenon DEF MoveWatch
  <2>2. WatchTypeOK' BY <1>0, <1>2, <2>1 DEF MoveWatch, Removed
  <2>3. DescriptorsDiffer' BY <1>2 DEF MoveWatch, DescriptorsDiffer
  <2>4. WatchesHeld' BY <1>0, <1>2, <2>1 DEF MoveWatch, Removed, WatchesHeld
  <2> QED BY <2>2, <2>3, <2>4
<1>3. ASSUME NEW w \in WatchObjects, DestroyWatch(w) PROVE WatchInv'
  <2>2. WatchTypeOK' BY <1>0, <1>3 DEF DestroyWatch, Removed
  <2>3. DescriptorsDiffer' BY <1>0, <1>3 DEF DestroyWatch, DescriptorsDiffer
  <2>4. WatchesHeld'
    BY <1>0, <1>3 DEF DestroyWatch, Removed, DescriptorsDiffer, WatchesHeld
  <2> QED BY <2>2, <2>3, <2>4
<1>4. CASE UNCHANGED watchVars
  BY <1>4 DEF watchVars, DescriptorsDiffer, WatchesHeld
<1> QED BY <1>1, <1>2, <1>3, <1>4 DEF WatchNext

(* Before anything is watched nothing has a descriptor.                    *)
LEMMA WatchStart ==
  ASSUME WatchAssumption, WatchInit
  PROVE  WatchInv
<1>1. WatchTypeOK
  <2>1. shared \in BOOLEAN /\ moved_watch \in BOOLEAN
    BY DEF WatchInit
  <2>2. given \in 0 .. MaxWatches
    BY WatchAssumption DEF WatchInit, WatchAssumption
  <2>3. /\ fd \in [WatchObjects -> Descriptors \cup {NotAdded, NoWatch}]
        /\ path \in [WatchObjects -> Paths \cup {Nowhere}]
        /\ target \in [Descriptors -> Paths \cup {Nowhere}]
    BY DEF WatchInit
  <2> QED BY <2>1, <2>2, <2>3 DEF WatchTypeOK
<1>2. \A w \in WatchObjects : fd[w] \notin Descriptors
  BY WatchAssumption
  DEF WatchInit, WatchAssumption, Descriptors, NoWatch
<1>3. \A d \in Descriptors : target[d] = Nowhere
  BY DEF WatchInit
<1> QED BY <1>1, <1>2, <1>3 DEF WatchInv, DescriptorsDiffer, WatchesHeld

(* No watch outlives the objects that would remove it; without moves and   *)
(* shared files none is removed before them.                               *)
THEOREM WatchesAreHeld == WatchSpec => []WatchesHeld
<1>1. WatchInit => WatchInv BY WatchStart, WatchAssumption
<1>2. WatchInv /\ [WatchNext]_watchVars => WatchInv'
  BY WatchStep, WatchAssumption
<1>3. WatchInv => WatchesHeld BY DEF WatchInv
<1> QED BY <1>1, <1>2, <1>3, PTL DEF WatchSpec

-----------------------------------------------------------------------------

(***************************************************************************)
(* Scope guards.  Before the function is given to an object there is none, *)
(* and it has not run.                                                     *)
(***************************************************************************)
NotMade ==
  ~made => completed = 0 /\ \A g \in GuardObjects : called[g] = "none"

GuardInv == GuardTypeOK /\ NotMade /\ GuardRunsOnce

\* Every operation on guards leaves one call to be made, or none.
LEMMA GuardStep ==
  ASSUME ScopeExitAssumption, GuardInv, [GuardNext]_guardVars
  PROVE  GuardInv'
<1> USE DEF GuardInv
<1>1. ASSUME NEW g \in GuardObjects, MakeGuard(g) PROVE GuardInv'
  <2>1. GuardTypeOK' BY <1>1 DEF MakeGuard, GuardTypeOK
  <2>2. NotMade' BY <1>1 DEF MakeGuard, NotMade
  <2>3. GuardRunsOnce'
    BY <1>1 DEF MakeGuard, GuardTypeOK, NotMade, GuardRunsOnce
  <2> QED BY <2>1, <2>2, <2>3
<1>2. ASSUME NEW g \in GuardObjects, NEW src \in GuardObjects, MoveGuard(g, src)
      PROVE  GuardInv'
  <2>1. GuardTypeOK' BY <1>2 DEF MoveGuard, GuardTypeOK
  <2>2. NotMade' BY <1>2 DEF MoveGuard, GuardTypeOK, NotMade
  <2>3. GuardRunsOnce' BY <1>2 DEF MoveGuard, GuardTypeOK, GuardRunsOnce
  <2> QED BY <2>1, <2>2, <2>3
<1>3. ASSUME NEW g \in GuardObjects, Execute(g) PROVE GuardInv'
  <2>1. GuardTypeOK' BY <1>3 DEF Execute, GuardTypeOK
  <2>2. NotMade' BY <1>3 DEF Execute, NotMade
  <2>3. GuardRunsOnce' BY <1>3 DEF Execute, GuardTypeOK, GuardRunsOnce
  <2> QED BY <2>1, <2>2, <2>3
<1>4. ASSUME NEW g \in GuardObjects, ExecuteThrows(g) PROVE GuardInv'
  <2>1. GuardTypeOK'
    BY <1>4, ScopeExitAssumption
    DEF ExecuteThrows, GuardTypeOK, ScopeExitAssumption
  <2>2. NotMade' BY <1>4 DEF ExecuteThrows, NotMade
  <2>3. GuardRunsOnce' BY <1>4 DEF ExecuteThrows, GuardRunsOnce
  <2> QED BY <2>1, <2>2, <2>3
<1>5. ASSUME NEW g \in GuardObjects, DestroyGuard(g) PROVE GuardInv'
  <2>1. GuardTypeOK' BY <1>5 DEF DestroyGuard, GuardTypeOK
  <2>2. NotMade' BY <1>5 DEF DestroyGuard, NotMade
  <2>3. GuardRunsOnce' BY <1>5 DEF DestroyGuard, GuardTypeOK, GuardRunsOnce
  <2> QED BY <2>1, <2>2, <2>3
<1>6. ASSUME NEW g \in GuardObjects, DestructorThrows(g) PROVE GuardInv'
  <2>1. GuardTypeOK'
    BY <1>6, ScopeExitAssumption
    DEF DestructorThrows, GuardTypeOK, ScopeExitAssumption
  <2>2. NotMade' BY <1>6 DEF DestructorThrows, NotMade
  <2>3. GuardRunsOnce' BY <1>6 DEF DestructorThrows, GuardRunsOnce
  <2> QED BY <2>1, <2>2, <2>3
<1>7. CASE UNCHANGED guardVars
  BY <1>7 DEF guardVars, GuardTypeOK, NotMade, GuardRunsOnce
<1> QED BY <1>1, <1>2, <1>3, <1>4, <1>5, <1>6, <1>7 DEF GuardNext

(* Before the function is given to an object it has not run.               *)
LEMMA GuardStart ==
  ASSUME ScopeExitAssumption, GuardInit
  PROVE  GuardInv
<1>1. GuardTypeOK
  <2>1. made \in BOOLEAN /\ terminated \in BOOLEAN
    BY DEF GuardInit
  <2>2. completed \in Nat /\ threw \in 0 .. MaxThrows
    BY ScopeExitAssumption DEF GuardInit, ScopeExitAssumption
  <2>3. called \in [GuardObjects -> {"none", "no", "yes"}]
    BY DEF GuardInit
  <2> QED BY <2>1, <2>2, <2>3 DEF GuardTypeOK
<1>2. NotMade BY DEF GuardInit, NotMade
<1>3. GuardRunsOnce BY DEF GuardInit, GuardRunsOnce
<1> QED BY <1>1, <1>2, <1>3 DEF GuardInv

(* The function runs once, by the object that has it in the end. *)
THEOREM GuardsRunOnce == GuardSpec => []GuardRunsOnce
<1>1. GuardInit => GuardInv BY GuardStart, ScopeExitAssumption
<1>2. GuardInv /\ [GuardNext]_guardVars => GuardInv'
  BY GuardStep, ScopeExitAssumption
<1>3. GuardInv => GuardRunsOnce BY DEF GuardInv
<1> QED BY <1>1, <1>2, <1>3, PTL DEF GuardSpec

-----------------------------------------------------------------------------

(* A behaviour of the owners side by side is one of each of them.          *)
THEOREM SideBySide == OwnersSpec => HandlesSpec /\ LibSpec /\ WatchSpec /\ GuardSpec
<1>1. OwnersInit => HandlesInit /\ LibInit /\ WatchInit /\ GuardInit
  BY DEF OwnersInit
<1>2. ASSUME [OwnersNext]_ownersVars
      PROVE  /\ [HandlesNext]_handleVars /\ [LibNext]_libVars
             /\ [WatchNext]_watchVars /\ [GuardNext]_guardVars
  BY <1>2 DEF OwnersNext, ownersVars
<1> QED
  BY <1>1, <1>2, PTL DEF OwnersSpec, HandlesSpec, LibSpec, WatchSpec, GuardSpec

(* The variables of all the owners keep their types. *)
THEOREM OwnersTypeCorrect == OwnersSpec => []OwnersTypeOK
<1>1. LibSpec => []LibTypeOK
  <2>1. LibInit => LibInv BY LibStart, SharedLibAssumption
  <2>2. LibInv /\ [LibNext]_libVars => LibInv' BY LibStep, SharedLibAssumption
  <2>3. LibInv => LibTypeOK BY DEF LibInv
  <2> QED BY <2>1, <2>2, <2>3, PTL DEF LibSpec
<1>2. WatchSpec => []WatchTypeOK
  <2>1. WatchInit => WatchInv BY WatchStart, WatchAssumption
  <2>2. WatchInv /\ [WatchNext]_watchVars => WatchInv' BY WatchStep, WatchAssumption
  <2>3. WatchInv => WatchTypeOK BY DEF WatchInv
  <2> QED BY <2>1, <2>2, <2>3, PTL DEF WatchSpec
<1>3. GuardSpec => []GuardTypeOK
  <2>1. GuardInit => GuardInv BY GuardStart, ScopeExitAssumption
  <2>2. GuardInv /\ [GuardNext]_guardVars => GuardInv'
    BY GuardStep, ScopeExitAssumption
  <2>3. GuardInv => GuardTypeOK BY DEF GuardInv
  <2> QED BY <2>1, <2>2, <2>3, PTL DEF GuardSpec
<1>4. HandlesTypeOK /\ LibTypeOK /\ WatchTypeOK /\ GuardTypeOK => OwnersTypeOK
  BY DEF OwnersTypeOK
<1> QED BY <1>1, <1>2, <1>3, <1>4, SideBySide, HandlesTypeCorrect, PTL
=============================================================================
