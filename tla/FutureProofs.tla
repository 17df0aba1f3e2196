---------------------------- MODULE FutureProofs ----------------------------
(* What is proved about cor::Future, for any set of functions made from it. *)
EXTENDS Future, TLAPS

\* The reference count is right: the Future owns its reference until it is
\* dropped and not longer, a function owns one as long as there is one, and the
\* condition is destroyed exactly when nobody does.
RefsOK ==
  /\ creator # "gone" <=> FutureRef \in refs
  /\ \A f \in Wrapped :
       function[f] \in {"wrapped", "waker", "calls_done", "after"} <=> f \in refs
  /\ freed <=> refs = {}

\* awake_ is TRUE exactly after some done(), which some execution preceded, and
\* nobody blocks on a condition that is awake.
AwakeOK ==
  /\ awake <=> done # {}
  /\ awake => executed # {}
  /\ creator = "blocked" => ~awake
  /\ creator = "woken" => why # "none"
  /\ creator = "woken" /\ why = "notified" => awake
  /\ \A f \in Wrapped : function[f] = "calls_done" => f \in executed

IInv == TypeOK /\ RefsOK /\ AwakeOK

\* The initial state satisfies the invariant.
LEMMA InitIInv == Init => IInv
<1> SUFFICES ASSUME Init PROVE IInv
  OBVIOUS
<1>1. awake \in BOOLEAN /\ freed \in BOOLEAN
  BY DEF Init
<1>2. function \in [Wrapped -> Locations]
  BY DEF Init, Locations
<1>3. TypeOK
  BY <1>1, <1>2 DEF Init, TypeOK
<1>4. RefsOK
  BY FutureAssumption DEF Init, RefsOK
<1>5. AwakeOK
  BY DEF Init, AwakeOK
<1> QED
  BY <1>3, <1>4, <1>5 DEF IInv

\* Every step keeps the types.
LEMMA StepTypeOK == ASSUME IInv, [Next]_vars PROVE TypeOK'
<1> USE DEF IInv, TypeOK
<1>1. ASSUME NEW f \in Wrapped, Make(f) PROVE TypeOK'
  BY <1>1 DEF Make, Captured, Locations
<1>2. ASSUME NEW f \in Wrapped, Before(f) PROVE TypeOK'
  BY <1>2 DEF Before, Unwound, Release, Locations
<1>3. ASSUME NEW f \in Wrapped, Done(f) PROVE TypeOK'
  BY <1>3 DEF Done, Notified, Locations
<1>4. ASSUME NEW f \in Wrapped, After(f) PROVE TypeOK'
  BY <1>4 DEF After, Release, Locations
<1>5. ASSUME WaitBegin PROVE TypeOK'
  BY <1>5 DEF WaitBegin
<1>6. ASSUME TimeOut \/ SpuriousWakeup \/ WaitEnd PROVE TypeOK'
  BY <1>6 DEF TimeOut, SpuriousWakeup, WaitEnd, Results
<1>7. ASSUME DropFuture PROVE TypeOK'
  BY <1>7 DEF DropFuture, Release
<1>8. ASSUME NEW f \in Wrapped, Discard(f) PROVE TypeOK'
  BY <1>8 DEF Discard, Release, Locations
<1>9. ASSUME UNCHANGED vars PROVE TypeOK'
  BY <1>9 DEF vars
<1> QED
  BY <1>1, <1>2, <1>3, <1>4, <1>5, <1>6, <1>7, <1>8, <1>9 DEF Next, Finished

\* A function that is over has let its reference go.
LEMMA FunctionReleases ==
  ASSUME IInv, NEW f \in Wrapped, Release(f),
         function' = [function EXCEPT ![f] = "over"], creator' = creator
  PROVE  RefsOK'
<1> USE FutureAssumption DEF IInv, TypeOK, RefsOK, Release
<1>1. (creator # "gone" <=> FutureRef \in refs)'
  OBVIOUS
<1>2. \A g \in Wrapped :
        function'[g] \in {"wrapped", "waker", "calls_done", "after"} <=> g \in refs'
  <2> TAKE g \in Wrapped
  <2>1. CASE g = f
    BY <2>1
  <2>2. CASE g # f
    BY <2>2
  <2> QED
    BY <2>1, <2>2
<1>3. (freed <=> refs = {})'
  OBVIOUS
<1> QED
  BY <1>1, <1>2, <1>3

\* Every step keeps the references in agreement with the locations.
LEMMA StepRefsOK == ASSUME IInv, [Next]_vars PROVE RefsOK'
<1> USE FutureAssumption DEF IInv, TypeOK, RefsOK
<1>1. ASSUME NEW f \in Wrapped, Make(f) PROVE RefsOK'
  BY <1>1 DEF Make, Captured
<1>2. ASSUME NEW f \in Wrapped, Before(f) PROVE RefsOK'
  <2>1. CASE function' = [function EXCEPT ![f] = "calls_done"] /\ UNCHANGED <<refs, freed>>
    BY <1>2, <2>1 DEF Before
  <2>2. CASE function' = [function EXCEPT ![f] = "over"] /\ Unwound(f)
    BY <1>2, <2>2, FunctionReleases DEF Before, Unwound
  <2> QED
    BY <1>2, <2>1, <2>2 DEF Before
<1>3. ASSUME NEW f \in Wrapped, Done(f) PROVE RefsOK'
  BY <1>3 DEF Done, MayCallDone, Notified
<1>4. ASSUME NEW f \in Wrapped, After(f) PROVE RefsOK'
  BY <1>4, FunctionReleases DEF After
<1>5. ASSUME WaitBegin \/ TimeOut \/ SpuriousWakeup \/ WaitEnd PROVE RefsOK'
  BY <1>5 DEF WaitBegin, TimeOut, SpuriousWakeup, WaitEnd
<1>6. ASSUME DropFuture PROVE RefsOK'
  BY <1>6 DEF DropFuture, Release
<1>7. ASSUME NEW f \in Wrapped, Discard(f) PROVE RefsOK'
  BY <1>7, FunctionReleases DEF Discard
<1>8. ASSUME UNCHANGED vars PROVE RefsOK'
  BY <1>8 DEF vars
<1> QED
  BY <1>1, <1>2, <1>3, <1>4, <1>5, <1>6, <1>7, <1>8 DEF Next, Finished

\* Every step keeps awake_ in agreement with the calls of done().
LEMMA StepAwakeOK == ASSUME IInv, [Next]_vars PROVE AwakeOK'
<1> USE DEF IInv, TypeOK, AwakeOK
<1>1. ASSUME NEW f \in Wrapped, Make(f) PROVE AwakeOK'
  BY <1>1 DEF Make
<1>2. ASSUME NEW f \in Wrapped, Before(f) PROVE AwakeOK'
  BY <1>2 DEF Before
<1>3. ASSUME NEW f \in Wrapped, Done(f) PROVE AwakeOK'
  BY <1>3 DEF Done, MayCallDone, Notified
<1>4. ASSUME NEW f \in Wrapped, After(f) PROVE AwakeOK'
  BY <1>4 DEF After
<1>5. ASSUME WaitBegin PROVE AwakeOK'
  BY <1>5 DEF WaitBegin, WokenBefore
<1>6. ASSUME TimeOut \/ SpuriousWakeup \/ WaitEnd \/ DropFuture PROVE AwakeOK'
  BY <1>6 DEF TimeOut, SpuriousWakeup, WaitEnd, DropFuture
<1>7. ASSUME NEW f \in Wrapped, Discard(f) PROVE AwakeOK'
  BY <1>7 DEF Discard
<1>8. ASSUME UNCHANGED vars PROVE AwakeOK'
  BY <1>8 DEF vars
<1> QED
  BY <1>1, <1>2, <1>3, <1>4, <1>5, <1>6, <1>7, <1>8 DEF Next, Finished

\* The invariant holds in every state.
LEMMA Invariance == SafeSpec => []IInv
<1>1. IInv /\ [Next]_vars => IInv'
  BY StepTypeOK, StepRefsOK, StepAwakeOK DEF IInv
<1> QED
  BY InitIInv, <1>1, PTL DEF SafeSpec

-----------------------------------------------------------------------------

\* Every variable keeps its type.
THEOREM TypeCorrect == SafeSpec => []TypeOK
<1>1. IInv => TypeOK
  BY DEF IInv
<1> QED
  BY <1>1, Invariance, PTL

\* However many functions were made, and whichever of them outlive the Future,
\* the condition exists as long as anybody uses it.
THEOREM ConditionOutlivesUsers == SafeSpec => []NoUseAfterFree
<1>1. IInv => NoUseAfterFree
  BY DEF IInv, RefsOK, NoUseAfterFree
<1> QED
  BY <1>1, Invariance, PTL

\* And no longer: with the Future gone and no function left, it is destroyed, also
\* after exceptions and when functions were never called.
THEOREM ConditionIsDestroyed == SafeSpec => []ConditionNotLeaked
<1>1. IInv => ConditionNotLeaked
  <2> SUFFICES ASSUME IInv, creator = "gone",
                      \A f \in Wrapped : function[f] \in {"none", "over"}
               PROVE  freed
    BY DEF ConditionNotLeaked
  <2>1. \A f \in Wrapped \cup {FutureRef} : f \notin refs
    BY DEF IInv, RefsOK
  <2>2. refs = {}
    BY <2>1 DEF IInv, TypeOK
  <2> QED
    BY <2>2 DEF IInv, RefsOK
<1> QED
  BY <1>1, Invariance, PTL

\* A creator never blocks on, or stays blocked on, a condition already done.
THEOREM Wakeups == SafeSpec => []NoSleepAfterDone
<1>1. IInv => NoSleepAfterDone
  BY DEF IInv, AwakeOK, NoSleepAfterDone
<1> QED
  BY <1>1, Invariance, PTL

\* no_timeout is reported for an execution, or for a spurious wakeup.
THEOREM Causes == SafeSpec => WakeupHasCause
<1>1. ASSUME IInv, WaitBegin \/ WaitEnd, status' = "no_timeout",
             why' # "spurious"
      PROVE  executed # {}
  <2>1. CASE WaitBegin
    BY <1>1, <2>1 DEF IInv, AwakeOK, WaitBegin, WokenBefore
  <2>2. CASE WaitEnd
    BY <1>1, <2>2 DEF IInv, TypeOK, AwakeOK, WaitEnd, Results
  <2> QED
    BY <1>1, <2>1, <2>2
<1>2. IInv /\ [Next]_vars =>
        [/\ WaitBegin \/ WaitEnd
         /\ status' = "no_timeout"
         /\ why' # "spurious"
         => executed # {}]_vars
  BY <1>1
<1> QED
  BY <1>2, Invariance, PTL DEF SafeSpec, WakeupHasCause
=============================================================================
