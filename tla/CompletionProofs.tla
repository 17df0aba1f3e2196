-------------------------- MODULE CompletionProofs --------------------------
(* What is proved about cor::Completion, for any number of releasers. *)
EXTENDS Completion, TLAPS

\* counter_ never gets negative and every other variable keeps its type, when
\* there is an up() for every down().
THEOREM TypeCorrect == SafeSpec => []TypeOK
<1>1. Init => TypeOK
  BY DEF Init, TypeOK
<1>2. TypeOK /\ [Next]_vars => TypeOK'
  <2> SUFFICES ASSUME TypeOK, [Next]_vars PROVE TypeOK'
    OBVIOUS
  <2>1. ASSUME NEW r \in Releasers, Up(r) PROVE TypeOK'
    BY <2>1 DEF TypeOK, Up
  <2>2. ASSUME NEW r \in Releasers, Down(r) PROVE TypeOK'
    BY <2>2 DEF TypeOK, Down, Decremented, ReachesZero
  <2>3. ASSUME NEW r \in Releasers, Notify(r) PROVE TypeOK'
    BY <2>3 DEF TypeOK, Notify, Blocked
  <2>4. ASSUME NEW w \in Waiters, WaitBegin(w) PROVE TypeOK'
    <3>1. timed' \in [Waiters -> BOOLEAN]
      BY <2>4 DEF TypeOK, WaitBegin
    <3>2. /\ waits' \in [Waiters -> Nat]
          /\ UNCHANGED <<counter, releaser, ups, spurious>>
      BY <2>4 DEF TypeOK, WaitBegin
    <3>3. /\ waiter' \in [Waiters -> {"idle", "blocked", "woken"}]
          /\ status' \in [Waiters -> {"none", "no_timeout", "timeout"}]
      BY <2>4 DEF TypeOK, WaitBegin
    <3>4. why' \in [Waiters -> {"none", "notified", "spurious", "timeout"}]
      BY <2>4 DEF TypeOK, WaitBegin
    <3> QED
      BY <3>1, <3>2, <3>3, <3>4 DEF TypeOK
  <2>5. ASSUME NEW w \in Waiters, SpuriousWakeup(w) PROVE TypeOK'
    BY <2>5 DEF TypeOK, SpuriousWakeup
  <2>6. ASSUME NEW w \in Waiters, TimeOut(w) PROVE TypeOK'
    BY <2>6 DEF TypeOK, TimeOut
  <2>7. ASSUME NEW w \in Waiters, WaitEnd(w) PROVE TypeOK'
    BY <2>7 DEF TypeOK, WaitEnd
  <2>8. ASSUME UNCHANGED vars PROVE TypeOK'
    BY <2>8 DEF TypeOK, vars
  <2> QED
    BY <2>1, <2>2, <2>3, <2>4, <2>5, <2>6, <2>7, <2>8 DEF Next, Finished
<1> QED
  BY <1>1, <1>2, PTL DEF SafeSpec

-----------------------------------------------------------------------------
\* One waiter is never left asleep on a finished completion, whether or not
\* work is added while it waits: notify_one() cannot pick somebody else.
THEOREM Wakeups ==
  ASSUME NEW one, Waiters = {one}
  PROVE  SafeSpec => []NoLostWakeup
<1>1. Init => NoLostWakeup
  BY DEF Init, NoLostWakeup
<1>2. TypeOK /\ NoLostWakeup /\ [Next]_vars => NoLostWakeup'
  <2> SUFFICES ASSUME TypeOK, NoLostWakeup, [Next]_vars PROVE NoLostWakeup'
    OBVIOUS
  <2>1. ASSUME NEW r \in Releasers, Up(r) PROVE NoLostWakeup'
    BY <2>1 DEF TypeOK, NoLostWakeup, Up
  <2>2. ASSUME NEW r \in Releasers, Down(r) PROVE NoLostWakeup'
    BY <2>2 DEF TypeOK, NoLostWakeup, Down, Decremented, ReachesZero
  <2>3. ASSUME NEW r \in Releasers, Notify(r) PROVE NoLostWakeup'
    BY <2>3 DEF TypeOK, NoLostWakeup, Notify, Blocked
  <2>4. ASSUME NEW w \in Waiters, WaitBegin(w) PROVE NoLostWakeup'
    BY <2>4 DEF TypeOK, NoLostWakeup, WaitBegin, NothingPending
  <2>5. ASSUME NEW w \in Waiters, SpuriousWakeup(w) PROVE NoLostWakeup'
    BY <2>5 DEF TypeOK, NoLostWakeup, SpuriousWakeup
  <2>6. ASSUME NEW w \in Waiters, TimeOut(w) PROVE NoLostWakeup'
    BY <2>6 DEF TypeOK, NoLostWakeup, TimeOut
  <2>7. ASSUME NEW w \in Waiters, WaitEnd(w) PROVE NoLostWakeup'
    BY <2>7 DEF TypeOK, NoLostWakeup, WaitEnd
  <2>8. ASSUME UNCHANGED vars PROVE NoLostWakeup'
    BY <2>8 DEF NoLostWakeup, vars
  <2> QED
    BY <2>1, <2>2, <2>3, <2>4, <2>5, <2>6, <2>7, <2>8 DEF Next, Finished
<1> QED
  BY <1>1, <1>2, TypeCorrect, PTL DEF SafeSpec

-----------------------------------------------------------------------------
(* What a notification means needs more: while anybody is about to notify, or *)
(* has been notified and not returned, the counter is still zero.  This is    *)
(* what Phased is for: an up() in between would make the notification stale.  *)

NotificationsAreFresh ==
  /\ \A r \in Releasers : releaser[r] = "notify" => counter = 0
  /\ \A w \in Waiters : waiter[w] = "woken" /\ why[w] = "notified" => counter = 0
  /\ \A w \in Waiters : waiter[w] = "woken" => why[w] # "none"

\* When work is added only while nobody is inside, a call that returns
\* no_timeout has seen the work done, or was woken spuriously - for any number
\* of waiters.
THEOREM DoneWhenReported ==
  ASSUME Phased
  PROVE  SafeSpec => NoTimeoutMeansDone
<1>1. Init => NotificationsAreFresh
  BY DEF Init, NotificationsAreFresh
<1>2. TypeOK /\ NotificationsAreFresh /\ [Next]_vars => NotificationsAreFresh'
  <2> SUFFICES ASSUME TypeOK, NotificationsAreFresh, [Next]_vars
               PROVE  NotificationsAreFresh'
    OBVIOUS
  <2>1. ASSUME NEW r \in Releasers, Up(r) PROVE NotificationsAreFresh'
    BY <2>1 DEF NotificationsAreFresh, Up, Quiescent
  <2>2. ASSUME NEW r \in Releasers, Down(r) PROVE NotificationsAreFresh'
    BY <2>2 DEF TypeOK, NotificationsAreFresh, Down, Decremented, ReachesZero
  <2>3. ASSUME NEW r \in Releasers, Notify(r) PROVE NotificationsAreFresh'
    BY <2>3 DEF TypeOK, NotificationsAreFresh, Notify, Blocked
  <2>4. ASSUME NEW w \in Waiters, WaitBegin(w) PROVE NotificationsAreFresh'
    BY <2>4 DEF TypeOK, NotificationsAreFresh, WaitBegin
  <2>5. ASSUME NEW w \in Waiters, SpuriousWakeup(w) PROVE NotificationsAreFresh'
    BY <2>5 DEF TypeOK, NotificationsAreFresh, SpuriousWakeup
  <2>6. ASSUME NEW w \in Waiters, TimeOut(w) PROVE NotificationsAreFresh'
    BY <2>6 DEF TypeOK, NotificationsAreFresh, TimeOut
  <2>7. ASSUME NEW w \in Waiters, WaitEnd(w) PROVE NotificationsAreFresh'
    BY <2>7 DEF TypeOK, NotificationsAreFresh, WaitEnd
  <2>8. ASSUME UNCHANGED vars PROVE NotificationsAreFresh'
    BY <2>8 DEF NotificationsAreFresh, vars
  <2> QED
    BY <2>1, <2>2, <2>3, <2>4, <2>5, <2>6, <2>7, <2>8 DEF Next, Finished
<1>3. ASSUME TypeOK, NotificationsAreFresh, NEW w \in Waiters,
             WaitBegin(w) \/ WaitEnd(w), status'[w] = "no_timeout",
             why'[w] # "spurious"
      PROVE  counter = 0
  <2>1. CASE WaitBegin(w)
    BY <1>3, <2>1 DEF TypeOK, WaitBegin, NothingPending
  <2>2. CASE WaitEnd(w)
    <3>1. why' = why /\ why[w] # "timeout"
      BY <1>3, <2>2 DEF TypeOK, WaitEnd
    <3>2. why[w] = "notified"
      BY <1>3, <2>2, <3>1 DEF TypeOK, NotificationsAreFresh, WaitEnd
    <3> QED
      BY <1>3, <2>2, <3>2 DEF NotificationsAreFresh, WaitEnd
  <2> QED
    BY <1>3, <2>1, <2>2
<1>4. TypeOK /\ NotificationsAreFresh /\ [Next]_vars =>
        [\A w \in Waiters :
           /\ WaitBegin(w) \/ WaitEnd(w)
           /\ status'[w] = "no_timeout"
           /\ why'[w] # "spurious"
           => counter = 0]_vars
  BY <1>3
<1> QED
  BY <1>1, <1>2, <1>4, TypeCorrect, PTL DEF SafeSpec, NoTimeoutMeansDone
=============================================================================
