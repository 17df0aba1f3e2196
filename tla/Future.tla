------------------------------- MODULE Future -------------------------------
(***************************************************************************)
(* cor::Future and the BasicCondition it is built on                       *)
(* (include/cor/mt.hpp:75-160).  The creator makes functions for other     *)
(* threads with wrap() and waker(), and waits until one of them has run.   *)
(*                                                                         *)
(* A wrapped function calls before(), done() on the condition, after(); a  *)
(* waker calls done() alone.  before() and after() are the user's and may  *)
(* throw.  The condition is shared: the Future and every function made     *)
(* from it own a reference, so the creator may drop the Future while       *)
(* functions are still to run.                                             *)
(*                                                                         *)
(* done() notifies with the mutex held and wait() tests awake_ with it, so *)
(* each is one step, but for the wait on done_ itself.                     *)
(***************************************************************************)
EXTENDS Naturals

CONSTANTS Wrapped,   \* the functions the creator may make, each run at most once
          FutureRef,    \* the reference the Future itself owns
          MaxWaits,     \* bound: calls of wait()
          MaxSpurious   \* bound: spurious wakeups

ASSUME FutureAssumption ==
  /\ FutureRef \notin Wrapped
  /\ MaxWaits \in Nat
  /\ MaxSpurious \in Nat

VARIABLES
  awake,      \* awake_
  refs,       \* who owns a reference to the condition
  freed,      \* has the condition been destroyed?
  function,   \* where each function is
  done,       \* functions that have called done()
  executed,   \* functions whose before() has returned, wakers that have run
  creator,    \* "idle", "blocked" on done_, "woken" in wait(), or "gone"
  why,        \* what ended the creator's last wait on done_
  status,     \* what its last call of wait() returned
  waits,      \* calls of wait() so far
  spurious    \* spurious wakeups so far

vars == <<awake, refs, freed, function, done, executed, creator, why, status,
          waits, spurious>>

Locations == {"none", "wrapped", "waker", "calls_done", "after", "over"}

Init ==
  /\ awake = FALSE
  /\ refs = {FutureRef}
  /\ freed = FALSE
  /\ function = [f \in Wrapped |-> "none"]
  /\ done = {}
  /\ executed = {}
  /\ creator = "idle"
  /\ why = "none"
  /\ status = "none"
  /\ waits = 0
  /\ spurious = 0

\* The last reference destroys the condition.
Release(owner) ==
  /\ refs' = refs \ {owner}
  /\ freed' = (freed \/ refs' = {})

-----------------------------------------------------------------------------
(* The creator. *)

\* Mutant: the lambda captures a plain pointer.
Captured_NoReference(f) == refs
Captured(f) == refs \cup {f}

\* wrap() or waker(): the function returned captures the condition.
Make(f) ==
  /\ creator = "idle"
  /\ function[f] = "none"
  /\ \E kind \in {"wrapped", "waker"} : function' = [function EXCEPT ![f] = kind]
  /\ refs' = Captured(f)
  /\ UNCHANGED <<awake, freed, done, executed, creator, why, status, waits, spurious>>

\* Mutant: wait() does not look at awake_ first.
WokenBefore_NotChecked == FALSE
WokenBefore == awake

WaitBegin ==
  /\ creator = "idle"
  /\ waits < MaxWaits
  /\ waits' = waits + 1
  /\ why' = "none"
  /\ \/ WokenBefore /\ status' = "no_timeout" /\ UNCHANGED creator
     \/ ~WokenBefore /\ status' = "none" /\ creator' = "blocked"
  /\ UNCHANGED <<awake, refs, freed, function, done, executed, spurious>>

TimeOut ==
  /\ creator = "blocked"
  /\ creator' = "woken"
  /\ why' = "timeout"
  /\ UNCHANGED <<awake, refs, freed, function, done, executed, status, waits, spurious>>

SpuriousWakeup ==
  /\ creator = "blocked"
  /\ spurious < MaxSpurious
  /\ spurious' = spurious + 1
  /\ creator' = "woken"
  /\ why' = "spurious"
  /\ UNCHANGED <<awake, refs, freed, function, done, executed, status, waits>>

Results == IF why = "timeout" THEN {"timeout"} ELSE {"timeout", "no_timeout"}

\* wait_for() on done_ returns, with the mutex had again: a time-out if the
\* time is over by then.
WaitEnd ==
  /\ creator = "woken"
  /\ creator' = "idle"
  /\ status' \in Results
  /\ UNCHANGED <<awake, refs, freed, function, done, executed, why, waits, spurious>>

\* ~Future(): the functions made from it may still be running.
DropFuture ==
  /\ creator = "idle"
  /\ creator' = "gone"
  /\ Release(FutureRef)
  /\ UNCHANGED <<awake, function, done, executed, why, status, waits, spurious>>

-----------------------------------------------------------------------------
(* The functions, each on some thread. *)

\* Mutant: wrap() lets its reference go by hand, behind after().
Unwound_ReferenceKept(f) == UNCHANGED <<refs, freed>>
\* before() has thrown: done() is never called, and what was captured is destroyed.
Unwound(f) == Release(f)

\* A wrapped function calls before().
Before(f) ==
  /\ function[f] = "wrapped"
  /\ \/ /\ executed' = executed \cup {f}
        /\ function' = [function EXCEPT ![f] = "calls_done"]
        /\ UNCHANGED <<refs, freed>>
     \/ /\ function' = [function EXCEPT ![f] = "over"]
        /\ Unwound(f)
        /\ UNCHANGED executed
  /\ UNCHANGED <<awake, done, creator, why, status, waits, spurious>>

\* Mutant: done() forgets notify_one().
Notified_Nobody == FALSE
Notified == creator = "blocked"

\* Mutant: a wrapped function calls done() before before().
MayCallDone_TooEarly(f) == function[f] \in {"wrapped", "calls_done", "waker"}
MayCallDone(f) == function[f] \in {"calls_done", "waker"}

\* BasicCondition::done(): awake_, and notify_one() with the mutex held.
Done(f) ==
  /\ MayCallDone(f)
  /\ awake' = TRUE
  /\ done' = done \cup {f}
  /\ executed' = IF function[f] = "waker" THEN executed \cup {f} ELSE executed
  /\ function' = [function EXCEPT ![f] = "after"]
  /\ creator' = IF Notified THEN "woken" ELSE creator
  /\ why' = IF Notified THEN "notified" ELSE why
  /\ UNCHANGED <<refs, freed, status, waits, spurious>>

\* after() returns or throws, and the function is destroyed with its reference.
After(f) ==
  /\ function[f] = "after"
  /\ function' = [function EXCEPT ![f] = "over"]
  /\ Release(f)
  /\ UNCHANGED <<awake, done, executed, creator, why, status, waits, spurious>>

\* A function is destroyed that nobody has called, as by a queue that has stopped.
Discard(f) ==
  /\ function[f] \in {"wrapped", "waker"}
  /\ function' = [function EXCEPT ![f] = "over"]
  /\ Release(f)
  /\ UNCHANGED <<awake, done, executed, creator, why, status, waits, spurious>>

-----------------------------------------------------------------------------

Finished ==
  /\ creator = "gone"
  /\ \A f \in Wrapped : function[f] \in {"none", "over"}
  /\ UNCHANGED vars

Next ==
  \/ \E f \in Wrapped : Make(f) \/ Before(f) \/ Done(f) \/ After(f) \/ Discard(f)
  \/ WaitBegin
  \/ TimeOut
  \/ SpuriousWakeup
  \/ WaitEnd
  \/ DropFuture
  \/ Finished

\* The threads that were given a function run it, or destroy it, and a wait that is over
\* returns.  No time-out has to happen.
Fairness ==
  /\ \A f \in Wrapped : WF_vars(Before(f) \/ Done(f) \/ After(f))
  /\ WF_vars(WaitEnd)

SafeSpec == Init /\ [][Next]_vars
Spec == SafeSpec /\ Fairness

-----------------------------------------------------------------------------
(* Properties. *)

TypeOK ==
  /\ awake \in BOOLEAN
  /\ refs \subseteq Wrapped \cup {FutureRef}
  /\ freed \in BOOLEAN
  /\ function \in [Wrapped -> Locations]
  /\ done \subseteq Wrapped
  /\ executed \subseteq Wrapped
  /\ creator \in {"idle", "blocked", "woken", "gone"}
  /\ why \in {"none", "notified", "spurious", "timeout"}
  /\ status \in {"none", "no_timeout", "timeout"}
  /\ waits \in Nat
  /\ spurious \in Nat

\* Whoever uses the condition - the creator in wait(), a function that is to
\* call done() - uses one that exists, in whatever order the Future and the
\* functions go away.
NoUseAfterFree ==
  \/ creator \in {"blocked", "woken"}
  \/ \E f \in Wrapped : function[f] \in {"wrapped", "waker", "calls_done"}
  => ~freed

\* Nothing of the condition is left behind: it is destroyed when the Future and every
\* function made from it are gone, whichever was the last, called or not, and
\* whatever it threw (the lambdas of wrap() and waker() own the only other references).
ConditionNotLeaked ==
  creator = "gone" /\ (\A f \in Wrapped : function[f] \in {"none", "over"}) => freed

\* The creator does not sleep through done(): once a function has called it,
\* the creator is not blocked, also when done() ran before wait().
NoSleepAfterDone == creator = "blocked" => done = {}

\* A wait() that returns no_timeout, but after a spurious wakeup, is for a
\* function that has executed: not for one whose before() threw or is running.
WakeupHasCause ==
  [][/\ WaitBegin \/ WaitEnd
     /\ status' = "no_timeout"
     /\ why' # "spurious"
     => executed # {}]_vars

\* A wait() that is under way when a function has executed returns without the
\* help of its time-out.
ExecutedEndsWait == (creator = "blocked" /\ executed # {}) ~> creator # "blocked"

\* include/cor/mt.hpp:118-122: "Future creator can wait() until function will be
\* executed in another thread".  no_timeout should mean just that.
NoTimeoutMeansExecuted ==
  [][(WaitBegin \/ WaitEnd) /\ status' = "no_timeout" => executed # {}]_vars
=============================================================================
