----------------------------- MODULE Completion -----------------------------
(***************************************************************************)
(* cor::Completion (src/mt.cpp:26-49, include/cor/mt.hpp:198-224): a       *)
(* counter of pending work, up() and down(), and wait()/wait_for() for the *)
(* moment it is zero again.                                                *)
(*                                                                         *)
(* Every access to counter_ is made with mutex_ held and nothing else is   *)
(* shared, so what a call does between a lock and the unlock is one step.  *)
(* What is not under the mutex is a step of its own: down() unlocks before *)
(* it calls notify_one(), and a thread that waits on done_ has let go of   *)
(* the mutex.  The wait has no predicate and no loop: whatever ends it -   *)
(* a notification, the time-out, nothing at all - ends the call.           *)
(*                                                                         *)
(* How the calls are used is that of tests/mt.cpp:98-134: there is a down  *)
(* for every up and after it; work is added only while nobody is inside    *)
(* the completion (Phased).                                                *)
(***************************************************************************)
EXTENDS Integers

CONSTANTS Releasers,    \* threads that call up() and down()
          Waiters,      \* threads that call wait() and wait_for()
          Phased,       \* up() only while nobody waits or notifies?
          MaxUps,       \* bound: calls of up()
          MaxWaits,     \* bound: calls of wait() and wait_for(), per waiter
          MaxSpurious   \* bound: spurious wakeups

ASSUME CompletionAssumption ==
  /\ Releasers \cap Waiters = {}
  /\ Phased \in BOOLEAN
  /\ MaxUps \in Nat
  /\ MaxWaits \in Nat
  /\ MaxSpurious \in Nat

VARIABLES
  counter,    \* counter_
  releaser,   \* "idle", or "notify": counter_ reached zero, mutex_ unlocked
  waiter,     \* "idle", "blocked" on done_, or "woken" and about to return
  timed,      \* is the call of each waiter a wait_for()?
  why,        \* what ended the last wait on done_ of each waiter
  status,     \* what the last call of each waiter returned
  ups,        \* calls of up() so far
  waits,      \* calls of wait() and wait_for() so far
  spurious    \* spurious wakeups so far

vars == <<counter, releaser, waiter, timed, why, status, ups, waits, spurious>>

Blocked == {w \in Waiters : waiter[w] = "blocked"}

Init ==
  /\ counter = 0
  /\ releaser = [r \in Releasers |-> "idle"]
  /\ waiter = [w \in Waiters |-> "idle"]
  /\ timed = [w \in Waiters |-> FALSE]
  /\ why = [w \in Waiters |-> "none"]
  /\ status = [w \in Waiters |-> "none"]
  /\ ups = 0
  /\ waits = [w \in Waiters |-> 0]
  /\ spurious = 0

Quiescent ==
  /\ \A r \in Releasers : releaser[r] = "idle"
  /\ \A w \in Waiters : waiter[w] = "idle"

Up(r) ==
  /\ releaser[r] = "idle"
  /\ ups < MaxUps
  /\ Phased => Quiescent
  /\ counter' = counter + 1
  /\ ups' = ups + 1
  /\ UNCHANGED <<releaser, waiter, timed, why, status, waits, spurious>>

\* Mutant: the last down() is taken for the one before it.
ReachesZero_OffByOne(c) == c = 1
\* Mutant: every down() notifies.
ReachesZero_Always(c) == TRUE
ReachesZero(c) == c = 0

\* Mutant: the decrement is made twice.
Decremented_Twice(c) == c - 2
Decremented(c) == c - 1

\* Called once for every up(), after it.
Down(r) ==
  /\ releaser[r] = "idle"
  /\ counter > 0
  /\ counter' = Decremented(counter)
  /\ releaser' = [releaser EXCEPT ![r] =
                    IF ReachesZero(counter') THEN "notify" ELSE "idle"]
  /\ UNCHANGED <<waiter, timed, why, status, ups, waits, spurious>>

\* done_.notify_one(): any one of those that wait, if any does.
Notify(r) ==
  /\ releaser[r] = "notify"
  /\ releaser' = [releaser EXCEPT ![r] = "idle"]
  /\ \/ /\ Blocked = {}
        /\ UNCHANGED <<waiter, why>>
     \/ \E w \in Blocked :
          /\ waiter' = [waiter EXCEPT ![w] = "woken"]
          /\ why' = [why EXCEPT ![w] = "notified"]
  /\ UNCHANGED <<counter, timed, status, ups, waits, spurious>>

\* Mutant: wait() and wait_for() do not look at counter_ first.
NothingPending_NotChecked == FALSE
NothingPending == counter = 0

WaitBegin(w) ==
  /\ waiter[w] = "idle"
  /\ waits[w] < MaxWaits
  /\ waits' = [waits EXCEPT ![w] = @ + 1]
  /\ \E isTimed \in BOOLEAN : timed' = [timed EXCEPT ![w] = isTimed]
  /\ why' = [why EXCEPT ![w] = "none"]
  /\ \/ /\ NothingPending
        /\ status' = [status EXCEPT ![w] = "no_timeout"]
        /\ UNCHANGED waiter
     \/ /\ ~NothingPending
        /\ waiter' = [waiter EXCEPT ![w] = "blocked"]
        /\ status' = [status EXCEPT ![w] = "none"]
  /\ UNCHANGED <<counter, releaser, ups, spurious>>

SpuriousWakeup(w) ==
  /\ waiter[w] = "blocked"
  /\ spurious < MaxSpurious
  /\ spurious' = spurious + 1
  /\ waiter' = [waiter EXCEPT ![w] = "woken"]
  /\ why' = [why EXCEPT ![w] = "spurious"]
  /\ UNCHANGED <<counter, releaser, timed, status, ups, waits>>

TimeOut(w) ==
  /\ waiter[w] = "blocked"
  /\ timed[w]
  /\ waiter' = [waiter EXCEPT ![w] = "woken"]
  /\ why' = [why EXCEPT ![w] = "timeout"]
  /\ UNCHANGED <<counter, releaser, timed, status, ups, waits, spurious>>

\* The mutex is had again and the call returns.  wait_for() reports a time-out
\* whenever the time is over by then, also if it was notified.
WaitEnd(w) ==
  /\ waiter[w] = "woken"
  /\ waiter' = [waiter EXCEPT ![w] = "idle"]
  /\ \E result \in IF why[w] = "timeout" THEN {"timeout"}
                   ELSE IF timed[w] THEN {"timeout", "no_timeout"}
                   ELSE {"no_timeout"} :
       status' = [status EXCEPT ![w] = result]
  /\ UNCHANGED <<counter, releaser, timed, why, ups, waits, spurious>>

Finished ==
  /\ Quiescent
  /\ counter = 0
  /\ UNCHANGED vars

Next ==
  \/ \E r \in Releasers : Up(r) \/ Down(r) \/ Notify(r)
  \/ \E w \in Waiters : WaitBegin(w) \/ SpuriousWakeup(w) \/ TimeOut(w) \/ WaitEnd(w)
  \/ Finished

\* Threads are scheduled, and for every up() somebody calls down().  Nothing
\* makes a time-out or a spurious wakeup happen.
Fairness ==
  /\ WF_vars(\E r \in Releasers : Down(r))
  /\ \A r \in Releasers : WF_vars(Notify(r))
  /\ \A w \in Waiters : WF_vars(WaitEnd(w))

SafeSpec == Init /\ [][Next]_vars
Spec == SafeSpec /\ Fairness

-----------------------------------------------------------------------------
(* Properties. *)

TypeOK ==
  /\ counter \in Nat
  /\ releaser \in [Releasers -> {"idle", "notify"}]
  /\ waiter \in [Waiters -> {"idle", "blocked", "woken"}]
  /\ timed \in [Waiters -> BOOLEAN]
  /\ why \in [Waiters -> {"none", "notified", "spurious", "timeout"}]
  /\ status \in [Waiters -> {"none", "no_timeout", "timeout"}]
  /\ ups \in Nat
  /\ waits \in [Waiters -> Nat]
  /\ spurious \in Nat

\* With one waiter: it does not stay blocked on a finished completion unless
\* the down() that finished it has still to notify; that down() unlocks first
\* loses nothing.
NoLostWakeup ==
  (\E w \in Waiters : waiter[w] = "blocked") /\ counter = 0
    => \E r \in Releasers : releaser[r] = "notify"

\* A call that returns no_timeout does so with no work pending, however the
\* down()s, a time-out and the notification race - except after a spurious
\* wakeup, which neither wait() nor wait_for() tells from a notification.
NoTimeoutMeansDone ==
  [][\A w \in Waiters :
       /\ WaitBegin(w) \/ WaitEnd(w)
       /\ status'[w] = "no_timeout"
       /\ why'[w] # "spurious"
       => counter = 0]_vars

\* wait() returns: with one waiter, once the work is done, however the down()s
\* and the wait interleave.
WaitReturns == \A w \in Waiters : (waiter[w] # "idle") ~> (waiter[w] = "idle")
=============================================================================
