--------------------------- MODULE TaskQueueProofs ---------------------------
(***************************************************************************)
(* What is proved about cor::TaskQueue, for every set of clients, every    *)
(* set of tasks and every bound.                                           *)
(***************************************************************************)
EXTENDS TaskQueue, SequenceTheorems, TLAPS

(* The constants of locations, expanded in every proof below. *)
USE DEF CallWaitsLock, CallHoldsLock, CallNotifies, CallLocations,
        WorkerWaitsLock, WorkerHoldsLock, WorkerLocations

-----------------------------------------------------------------------------
(* The inductive invariant.  TypeOK alone is not one: that RunEnds records a *)
(* task and not NoTask rests on where the worker is, that the mutex has one  *)
(* holder rests on where every thread is, and so on.                         *)

\* A thread carries a task exactly while it is submitting one; the worker has
\* a task exactly while it runs it, and only then may it be in a call.
CarriesOK ==
  /\ \A t \in Threads : arg[t] \in Tasks <=> Submitting(t)
  /\ active \in Tasks <=> wpc = "run"
  /\ pc[Worker] # "idle" => wpc = "run"

Holds(t) ==
  \/ pc[t] \in CallHoldsLock
  \/ t = Worker /\ wpc \in WorkerHoldsLock

\* The mutex is held by exactly the thread that is in a critical section.
LockOK ==
  /\ \A t \in Threads : Holds(t) => mutex = t
  /\ mutex # NoThread => Holds(mutex)

\* Whoever may still read an old is_running_, has stopped the queue, or has
\* left the loop, does so after is_running_ became FALSE.
StopOK ==
  ~isRunning \/ /\ stale = {}
                /\ ~stopped
                /\ \A t \in Threads : pc[t] # "stop_notify"
                /\ wpc # "exit"

\* From alive to destroyed.
LifeOK ==
  /\ ~joinable => wpc = "exit"
  /\ life # "alive" => \A c \in Clients : pc[c] = "gone"
  /\ life = "destroyed" => ~joinable /\ pc[Owner] = "gone"
  /\ abandoned # <<>> => life = "destroyed"

IInv == TypeOK /\ CarriesOK /\ LockOK /\ StopOK /\ LifeOK

-----------------------------------------------------------------------------

\* The owner, the worker and the clients are threads of their own.
LEMMA ThreadsApart ==
  /\ Worker \in Threads
  /\ Owner \in Threads
  /\ Clients \subseteq Threads
  /\ Worker \notin Clients
  /\ Owner # Worker
  /\ Owner \notin Clients
BY TaskQueueAssumption DEF Threads, Callers

\* Reading is_running_ never makes a thread's knowledge older.
LEMMA ReadingForgets == \A t, seen : HasRead(t, seen) => stale' \subseteq stale
BY DEF HasRead

USE TaskQueueAssumption, ThreadsApart

\* Every step keeps the types.
LEMMA StepTypeOK == ASSUME IInv, [Next]_vars PROVE TypeOK'
<1>1. ASSUME NEW t \in Threads, EnqueueBegin(t) PROVE TypeOK'
  <2>1. /\ pc' \in [Threads -> CallLocations]
        /\ arg' \in [Threads -> Tasks \cup {NoTask}]
    <3>1. PICK task \in fresh :
            \/ /\ pc' = [pc EXCEPT ![t] = "enqueue_lock"]
               /\ arg' = [arg EXCEPT ![t] = task]
            \/ pc' = pc /\ arg' = arg
      BY <1>1 DEF EnqueueBegin, callVars
    <3>2. task \in Tasks /\ "enqueue_lock" \in CallLocations
      BY <3>1 DEF IInv, TypeOK
    <3>3. pc \in [Threads -> CallLocations] /\ arg \in [Threads -> Tasks \cup {NoTask}]
      BY DEF IInv, TypeOK
    <3> HIDE DEF CallLocations
    <3> QED
      BY <3>1, <3>2, <3>3
  <2>2. calls' \in [Threads -> Nat]
    BY <1>1 DEF IInv, TypeOK, EnqueueBegin, Call
  <2>3. /\ stale' \in SUBSET Threads
        /\ fresh' \in SUBSET Tasks
        /\ refused' \in SUBSET Tasks
    BY <1>1, ReadingForgets DEF IInv, TypeOK, EnqueueBegin
  <2> QED
    BY <1>1, <2>1, <2>3, <2>2 DEF IInv, TypeOK, EnqueueBegin, workerVars
<1>2. ASSUME NEW t \in Threads, StopBegin(t) PROVE TypeOK'
  <2>1. pc' \in [Threads -> CallLocations]
    BY <1>2 DEF IInv, TypeOK, StopBegin
  <2>2. calls' \in [Threads -> Nat]
    BY <1>2 DEF IInv, TypeOK, StopBegin, Call
  <2>3. stale' \in SUBSET Threads
    BY <1>2, ReadingForgets DEF IInv, TypeOK, StopBegin
  <2>4. stopped' \in BOOLEAN
    BY <1>2 DEF IInv, TypeOK, StopBegin
  <2> QED
    BY <1>2, <2>1, <2>3, <2>4, <2>2 DEF IInv, TypeOK, StopBegin, workerVars
<1>3. ASSUME NEW t \in Threads, EmptyBegin(t) PROVE TypeOK'
  BY <1>3 DEF IInv, TypeOK, EmptyBegin, Call, workerVars, histVars
<1>4. ASSUME NEW t \in Threads, LockForCall(t) PROVE TypeOK'
  BY <1>4 DEF IInv, TypeOK, LockForCall, Acquire, Locked, workerVars,
     histVars
<1>5. ASSUME NEW t \in Threads, EnqueueLocked(t) PROVE TypeOK'
  <2>1. arg[t] \in Tasks
    BY <1>5 DEF IInv, CarriesOK, Submitting, EnqueueLocked
  <2>2. /\ Append(tasks, arg[t]) \in Seq(Tasks)
        /\ Append(accepted, arg[t]) \in Seq(Tasks)
    BY <2>1, AppendProperties DEF IInv, TypeOK
  <2>3. /\ tasks' \in Seq(Tasks)
        /\ accepted' \in Seq(Tasks)
    BY <1>5, <2>2 DEF IInv, TypeOK, EnqueueLocked, Pushed
  <2>4. refused' \in SUBSET Tasks
    BY <1>5, <2>1 DEF IInv, TypeOK, EnqueueLocked
  <2>5. /\ torn' \in BOOLEAN
        /\ pc' \in [Threads -> CallLocations]
        /\ arg' \in [Threads -> Tasks \cup {NoTask}]
    BY <1>5 DEF IInv, TypeOK, EnqueueLocked
  <2> QED
    BY <1>5, <2>5, <2>3, <2>4 DEF IInv, TypeOK, EnqueueLocked, workerVars
<1>6. ASSUME NEW t \in Threads, EnqueueNotify(t) PROVE TypeOK'
  BY <1>6 DEF IInv, TypeOK, EnqueueNotify, NotifyPushed, NotifyOne,
     histVars
<1>7. ASSUME NEW t \in Threads, StopLocked(t) PROVE TypeOK'
  BY <1>7 DEF IInv, TypeOK, StopLocked, AfterStop, workerVars
<1>8. ASSUME NEW t \in Threads, StopNotify(t) PROVE TypeOK'
  BY <1>8 DEF IInv, TypeOK, StopNotify, AfterStop, NotifyOne
<1>9. ASSUME NEW t \in Threads, EmptyLocked(t) PROVE TypeOK'
  BY <1>9 DEF IInv, TypeOK, EmptyLocked, workerVars, histVars
<1>10. ASSUME NEW c \in Clients, Leave(c) PROVE TypeOK'
  BY <1>10 DEF IInv, TypeOK, Leave, workerVars, histVars
<1>11. ASSUME JoinBegin PROVE TypeOK'
  BY <1>11 DEF IInv, TypeOK, JoinBegin, Call, workerVars, histVars
<1>12. ASSUME JoinEnd PROVE TypeOK'
  BY <1>12 DEF IInv, TypeOK, JoinEnd, WorkerReturned, workerVars,
     histVars
<1>13. ASSUME DestructorBegin PROVE TypeOK'
  BY <1>13, ReadingForgets DEF IInv, TypeOK, DestructorBegin, workerVars
<1>14. ASSUME DestructorJoin PROVE TypeOK'
  <2>1. tasks' \in Seq(Tasks) /\ abandoned' \in Seq(Tasks)
    BY <1>14 DEF IInv, TypeOK, DestructorJoin
  <2>2. pc' \in [Threads -> CallLocations]
    BY <1>14 DEF IInv, TypeOK, DestructorJoin
  <2> QED
    BY <1>14, <2>1, <2>2 DEF IInv, TypeOK, DestructorJoin, workerVars
<1>15. ASSUME DestructorTerminates PROVE TypeOK'
  BY <1>15 DEF IInv, TypeOK, DestructorTerminates, workerVars, histVars
<1>16. ASSUME LoopTest PROVE TypeOK'
  BY <1>16, ReadingForgets DEF IInv, TypeOK, LoopTest, callVars, histVars
<1>17. ASSUME SizeTest PROVE TypeOK'
  BY <1>17 DEF IInv, TypeOK, SizeTest, callVars, histVars
<1>18. ASSUME LockForWorker PROVE TypeOK'
  BY <1>18 DEF IInv, TypeOK, LockForWorker, Acquire, Locked, callVars,
     histVars
<1>19. ASSUME Pop PROVE TypeOK'
  <2>1. tasks # <<>> => Head(tasks) \in Tasks /\ Tail(tasks) \in Seq(Tasks)
    BY HeadTailProperties DEF IInv, TypeOK
  <2>2. tasks' \in Seq(Tasks) /\ active' \in Tasks \cup {NoTask}
    BY <1>19, <2>1 DEF IInv, TypeOK, Pop, NextTask, RestOfTasks
  <2>3. wpc' \in WorkerLocations /\ mutex' \in Threads \cup {NoThread}
    BY <1>19 DEF IInv, TypeOK, Pop, UnlockToRun
  <2> QED
    BY <1>19, <2>3, <2>2 DEF IInv, TypeOK, Pop, callVars, histVars
<1>20. ASSUME RunEnds PROVE TypeOK'
  BY <1>20 DEF IInv, TypeOK, CarriesOK, RunEnds, callVars
<1>21. ASSUME WaitTest PROVE TypeOK'
  BY <1>21 DEF IInv, TypeOK, WaitTest, WorkerHasReason, callVars,
     histVars
<1>22. ASSUME SpuriousWakeup PROVE TypeOK'
  BY <1>22 DEF IInv, TypeOK, SpuriousWakeup, callVars, histVars
<1>23. ASSUME UNCHANGED vars PROVE TypeOK'
  BY <1>23 DEF IInv, TypeOK, vars
<1> QED
  BY <1>1, <1>2, <1>3, <1>4, <1>5, <1>6, <1>7, <1>8, <1>9, <1>10, <1>11,
     <1>12, <1>13, <1>14, <1>15, <1>16, <1>17, <1>18, <1>19, <1>20, <1>21,
     <1>22, <1>23
     DEF Next, CallBegin, CallStep, Destructor, WorkerStep, Over

ControlOK == CarriesOK /\ LockOK /\ StopOK /\ LifeOK

\* Every step keeps the rest of the invariant.
LEMMA StepControlOK == ASSUME IInv, [Next]_vars PROVE ControlOK'
<1>1. ASSUME NEW t \in Threads, EnqueueBegin(t) PROVE ControlOK'
  <2>1. CarriesOK'
    BY <1>1 DEF IInv, TypeOK, CarriesOK, Submitting, EnqueueBegin, Call,
       workerVars, callVars
  <2>2. LockOK'
    BY <1>1 DEF IInv, TypeOK, CarriesOK, LockOK, Holds, EnqueueBegin,
       Call, workerVars, callVars
  <2>3. StopOK'
    BY <1>1, ReadingForgets DEF IInv, TypeOK, StopOK, ReadRunning,
       EnqueueBegin, Call, workerVars, callVars
  <2>4. LifeOK'
    BY <1>1 DEF IInv, TypeOK, LifeOK, EnqueueBegin, Call, workerVars,
       callVars
  <2> QED
    BY <2>1, <2>2, <2>3, <2>4 DEF ControlOK
<1>2. ASSUME NEW t \in Threads, StopBegin(t) PROVE ControlOK'
  <2>1. CarriesOK'
    BY <1>2 DEF IInv, TypeOK, CarriesOK, Submitting, StopBegin, Call,
       workerVars
  <2>2. LockOK'
    BY <1>2 DEF IInv, TypeOK, CarriesOK, LockOK, Holds, StopBegin, Call,
       workerVars
  <2>3. StopOK'
    BY <1>2, ReadingForgets DEF IInv, TypeOK, StopOK, ReadRunning,
       StopBegin, Call, workerVars
  <2>4. LifeOK'
    BY <1>2 DEF IInv, TypeOK, LifeOK, StopBegin, Call, workerVars
  <2> QED
    BY <2>1, <2>2, <2>3, <2>4 DEF ControlOK
<1>3. ASSUME NEW t \in Threads, EmptyBegin(t) PROVE ControlOK'
  BY <1>3 DEF IInv, TypeOK, ControlOK, CarriesOK, LockOK, StopOK, LifeOK,
     Submitting, Holds, EmptyBegin, Call, workerVars, histVars
<1>4. ASSUME NEW t \in Threads, LockForCall(t) PROVE ControlOK'
  BY <1>4 DEF IInv, TypeOK, ControlOK, CarriesOK, LockOK, StopOK, LifeOK,
     Submitting, Holds, LockForCall, Acquire, Locked, workerVars,
     histVars
<1>5. ASSUME NEW t \in Threads, EnqueueLocked(t) PROVE ControlOK'
  <2>1. CarriesOK'
    BY <1>5 DEF IInv, TypeOK, CarriesOK, Submitting, EnqueueLocked,
       MayPush, Pushed, workerVars
  <2>2. LockOK'
    BY <1>5 DEF IInv, TypeOK, CarriesOK, LockOK, Holds, EnqueueLocked,
       MayPush, Pushed, workerVars
  <2>3. StopOK'
    BY <1>5 DEF IInv, TypeOK, StopOK, EnqueueLocked, MayPush, Pushed,
       workerVars
  <2>4. LifeOK'
    BY <1>5 DEF IInv, TypeOK, LifeOK, EnqueueLocked, MayPush, Pushed,
       workerVars
  <2> QED
    BY <2>1, <2>2, <2>3, <2>4 DEF ControlOK
<1>6. ASSUME NEW t \in Threads, EnqueueNotify(t) PROVE ControlOK'
  BY <1>6 DEF IInv, TypeOK, ControlOK, CarriesOK, LockOK, StopOK, LifeOK,
     Submitting, Holds, EnqueueNotify, NotifyPushed, NotifyOne, histVars
<1>7. ASSUME NEW t \in Threads, StopLocked(t) PROVE ControlOK'
  <2>1. CarriesOK'
    BY <1>7 DEF IInv, TypeOK, CarriesOK, Submitting, StopLocked,
       AfterStop, workerVars
  <2>2. LockOK'
    BY <1>7 DEF IInv, TypeOK, CarriesOK, LockOK, Holds, StopLocked,
       AfterStop, workerVars
  <2>3. StopOK'
    BY <1>7 DEF IInv, TypeOK, StopOK, StopLocked, AfterStop, workerVars
  <2>4. LifeOK'
    BY <1>7 DEF IInv, TypeOK, LifeOK, StopLocked, AfterStop, workerVars
  <2> QED
    BY <2>1, <2>2, <2>3, <2>4 DEF ControlOK
<1>8. ASSUME NEW t \in Threads, StopNotify(t) PROVE ControlOK'
  BY <1>8 DEF IInv, TypeOK, ControlOK, CarriesOK, LockOK, StopOK, LifeOK,
     Submitting, Holds, StopNotify, AfterStop, NotifyOne
<1>9. ASSUME NEW t \in Threads, EmptyLocked(t) PROVE ControlOK'
  BY <1>9 DEF IInv, TypeOK, ControlOK, CarriesOK, LockOK, StopOK, LifeOK,
     Submitting, Holds, EmptyLocked, workerVars, histVars
<1>10. ASSUME NEW c \in Clients, Leave(c) PROVE ControlOK'
  BY <1>10 DEF IInv, TypeOK, ControlOK, CarriesOK, LockOK, StopOK, LifeOK,
     Submitting, Holds, Leave, workerVars, histVars
<1>11. ASSUME JoinBegin PROVE ControlOK'
  BY <1>11 DEF IInv, TypeOK, ControlOK, CarriesOK, LockOK, StopOK, LifeOK,
     Submitting, Holds, JoinBegin, Call, workerVars, histVars
<1>12. ASSUME JoinEnd PROVE ControlOK'
  BY <1>12 DEF IInv, TypeOK, ControlOK, CarriesOK, LockOK, StopOK, LifeOK,
     Submitting, Holds, JoinEnd, WorkerReturned, workerVars, histVars
<1>13. ASSUME DestructorBegin PROVE ControlOK'
  BY <1>13, ReadingForgets DEF IInv, TypeOK, ControlOK, CarriesOK, LockOK,
     StopOK, LifeOK, Submitting, Holds, ReadRunning, DestructorBegin,
     workerVars
<1>14. ASSUME DestructorJoin PROVE ControlOK'
  BY <1>14 DEF IInv, TypeOK, ControlOK, CarriesOK, LockOK, StopOK, LifeOK,
     Submitting, Holds, DestructorJoin, WorkerReturned, workerVars
<1>15. ASSUME DestructorTerminates PROVE ControlOK'
  BY <1>15 DEF IInv, TypeOK, ControlOK, CarriesOK, LockOK, StopOK, LifeOK,
     Submitting, Holds, DestructorTerminates, workerVars, histVars
<1>16. ASSUME LoopTest PROVE ControlOK'
  BY <1>16, ReadingForgets DEF IInv, TypeOK, ControlOK, CarriesOK, LockOK,
     StopOK, LifeOK, Submitting, Holds, ReadRunning, LoopTest, callVars,
     histVars
<1>17. ASSUME SizeTest PROVE ControlOK'
  BY <1>17 DEF IInv, TypeOK, ControlOK, CarriesOK, LockOK, StopOK, LifeOK,
     Submitting, Holds, SizeTest, callVars, histVars
<1>18. ASSUME LockForWorker PROVE ControlOK'
  BY <1>18 DEF IInv, TypeOK, ControlOK, CarriesOK, LockOK, StopOK, LifeOK,
     Submitting, Holds, LockForWorker, Acquire, Locked, callVars,
     histVars
<1>19. ASSUME Pop PROVE ControlOK'
  BY <1>19 DEF IInv, TypeOK, ControlOK, CarriesOK, LockOK, StopOK, LifeOK,
     Submitting, Holds, Pop, NextTask, RestOfTasks, UnlockToRun, callVars,
     histVars
<1>20. ASSUME RunEnds PROVE ControlOK'
  BY <1>20 DEF IInv, TypeOK, ControlOK, CarriesOK, LockOK, StopOK, LifeOK,
     Submitting, Holds, RunEnds, callVars
<1>21. ASSUME WaitTest PROVE ControlOK'
  BY <1>21 DEF IInv, TypeOK, ControlOK, CarriesOK, LockOK, StopOK, LifeOK,
     Submitting, Holds, WaitTest, WorkerHasReason, callVars, histVars
<1>22. ASSUME SpuriousWakeup PROVE ControlOK'
  BY <1>22 DEF IInv, TypeOK, ControlOK, CarriesOK, LockOK, StopOK, LifeOK,
     Submitting, Holds, SpuriousWakeup, callVars, histVars
<1>23. ASSUME UNCHANGED vars PROVE ControlOK'
  BY <1>23 DEF IInv, TypeOK, ControlOK, CarriesOK, LockOK, StopOK, LifeOK,
     Submitting, Holds, vars
<1> QED
  BY <1>1, <1>2, <1>3, <1>4, <1>5, <1>6, <1>7, <1>8, <1>9, <1>10, <1>11,
     <1>12, <1>13, <1>14, <1>15, <1>16, <1>17, <1>18, <1>19, <1>20, <1>21,
     <1>22, <1>23
     DEF Next, CallBegin, CallStep, Destructor, WorkerStep, Over

\* The initial state satisfies the invariant.
LEMMA InitIInv == Init => IInv
<1> SUFFICES ASSUME Init PROVE IInv
  OBVIOUS
<1>1. /\ isRunning \in BOOLEAN /\ joinable \in BOOLEAN
      /\ torn \in BOOLEAN /\ stopped \in BOOLEAN
  BY DEF Init
<1>2. pc \in [Threads -> CallLocations] /\ calls \in [Threads -> Nat]
  BY DEF Init
<1>3. TypeOK
  BY <1>1, <1>2 DEF Init, TypeOK
<1>4. CarriesOK /\ LockOK
  BY DEF Init, CarriesOK, Submitting, LockOK, Holds
<1>5. StopOK /\ LifeOK
  BY DEF Init, StopOK, LifeOK
<1> QED
  BY <1>3, <1>4, <1>5 DEF IInv

\* The invariant holds in every state.
THEOREM Invariance == SafeSpec => []IInv
<1>1. IInv /\ [Next]_vars => IInv'
  BY StepTypeOK, StepControlOK DEF IInv, ControlOK
<1> QED
  BY InitIInv, <1>1, PTL DEF SafeSpec

\* Every variable keeps its type, whatever the threads do.
THEOREM TypeCorrect == SafeSpec => []TypeOK
<1>1. IInv => TypeOK
  BY DEF IInv
<1> QED
  BY Invariance, <1>1, PTL

-----------------------------------------------------------------------------
(* Tasks are neither lost, duplicated nor reordered. *)

orderVars == <<accepted, executed, active, tasks, abandoned>>

\* A task pushed goes behind all that were accepted before, where nothing has
\* been destroyed yet.
LEMMA PushBehind ==
  ASSUME NEW t, arg[t] \in Tasks, tasks \in Seq(Tasks),
         executed \in Seq(Tasks), Running \in Seq(Tasks)
  PROVE  Append(executed \o Running \o tasks \o <<>>, arg[t])
           = executed \o Running \o Append(tasks, arg[t]) \o <<>>
<1> DEFINE ran == executed \o Running
           task == arg[t]
<1>1. ran \in Seq(Tasks) /\ task \in Tasks
  OBVIOUS
<1> HIDE DEF ran, task
<1>2. Append(ran \o tasks, task) = ran \o Append(tasks, task)
  <2>1. ran \o tasks \in Seq(Tasks) /\ <<task>> \in Seq(Tasks)
    BY <1>1, ConcatProperties
  <2>2. Append(ran \o tasks, task) = (ran \o tasks) \o <<task>>
    BY <1>1, <2>1, AppendIsConcat
  <2>3. \A s \in Seq(Tasks) : (ran \o tasks) \o s = ran \o (tasks \o s)
    BY <1>1, ConcatAssociative
  <2>4. tasks \o <<task>> = Append(tasks, task)
    BY <1>1, AppendIsConcat
  <2> QED
    BY <2>1, <2>2, <2>3, <2>4, Zenon
<1>3. ran \o tasks \o <<>> = ran \o tasks
  BY <1>1
<1>4. ran \o Append(tasks, task) \o <<>> = ran \o Append(tasks, task)
  BY <1>1
<1>5. Append(ran \o tasks \o <<>>, task) = ran \o Append(tasks, task) \o <<>>
  BY <1>2, <1>3, <1>4, Zenon
<1> QED
  BY <1>5 DEF ran, task

\* Only four steps touch the sequences TasksInOrder speaks of.
LEMMA OrderFrame ==
  ASSUME [Next]_vars
  PROVE  \/ \E t \in Threads : EnqueueLocked(t)
         \/ Pop
         \/ RunEnds
         \/ DestructorJoin
         \/ UNCHANGED orderVars
<1>1. ASSUME NEW t \in Threads, CallBegin(t) PROVE UNCHANGED orderVars
  BY <1>1 DEF CallBegin, EnqueueBegin, StopBegin, EmptyBegin, workerVars,
     histVars, orderVars
<1>2. ASSUME NEW t \in Threads, CallStep(t), ~EnqueueLocked(t)
      PROVE UNCHANGED orderVars
  BY <1>2 DEF CallStep, LockForCall, EnqueueNotify, StopLocked, StopNotify,
     EmptyLocked, workerVars, histVars, orderVars
<1>3. ASSUME NEW c \in Clients, Leave(c) PROVE UNCHANGED orderVars
  BY <1>3 DEF Leave, workerVars, histVars, orderVars
<1>4. ASSUME JoinBegin \/ JoinEnd \/ DestructorBegin \/ DestructorTerminates
      PROVE UNCHANGED orderVars
  BY <1>4 DEF JoinBegin, JoinEnd, DestructorBegin, DestructorTerminates,
     workerVars, histVars, orderVars
<1>5. ASSUME LoopTest \/ SizeTest \/ LockForWorker \/ WaitTest \/ SpuriousWakeup
      PROVE UNCHANGED orderVars
  BY <1>5 DEF LoopTest, SizeTest, LockForWorker, WaitTest, SpuriousWakeup,
     histVars, orderVars
<1>6. ASSUME UNCHANGED vars PROVE UNCHANGED orderVars
  BY <1>6 DEF vars, orderVars
<1> QED
  BY <1>1, <1>2, <1>3, <1>4, <1>5, <1>6
     DEF Next, CallStep, Destructor, WorkerStep, Over

\* Nothing is abandoned before the queue is destroyed, and then no call is
\* under way.
LEMMA NothingAbandonedYet ==
  ASSUME IInv
  PROVE  /\ \A t \in Threads : pc[t] = "enqueue_locked" => abandoned = <<>>
         /\ life = "destructing" => abandoned = <<>>
<1>1. ASSUME abandoned # <<>> PROVE /\ wpc = "exit"
                                    /\ pc[Owner] = "gone"
                                    /\ \A c \in Clients : pc[c] = "gone"
  BY <1>1 DEF IInv, LifeOK
<1>2. abandoned # <<>> => pc[Worker] = "idle"
  BY <1>1 DEF IInv, CarriesOK
<1>3. abandoned # <<>> => life = "destroyed"
  BY DEF IInv, LifeOK
<1> QED
  BY <1>1, <1>2, <1>3 DEF Threads, Callers

\* For any clients, tasks and bounds: the tasks accepted are those that ran,
\* the one running, those in tasks_ and those destroyed with it, in this order.
THEOREM Order == SafeSpec => []TasksInOrder
<1>1. Init => TasksInOrder
  BY DEF Init, TasksInOrder, Running
<1>2. IInv /\ TasksInOrder /\ [Next]_vars => TasksInOrder'
  <2> SUFFICES ASSUME IInv, TasksInOrder, [Next]_vars PROVE TasksInOrder'
    OBVIOUS
  <2> USE DEF IInv, TypeOK
  <2>1. Running \in Seq(Tasks)
    BY DEF Running
  <2>2. ASSUME NEW t \in Threads, EnqueueLocked(t) PROVE TasksInOrder'
    <3>1. arg[t] \in Tasks
      BY <2>2 DEF CarriesOK, Submitting, EnqueueLocked
    <3>2. abandoned = <<>>
      BY <2>2, NothingAbandonedYet DEF EnqueueLocked
    <3>3. Append(executed \o Running \o tasks \o <<>>, arg[t])
            = executed \o Running \o Append(tasks, arg[t]) \o <<>>
      BY <2>1, <3>1, PushBehind
    <3>4. Running' = Running /\ executed' = executed /\ abandoned' = abandoned
      BY <2>2 DEF EnqueueLocked, workerVars, Running
    <3> QED
      BY <2>2, <3>2, <3>3, <3>4 DEF TasksInOrder, EnqueueLocked, Pushed
  <2>3. ASSUME Pop PROVE TasksInOrder'
    <3>1. accepted' = accepted /\ executed' = executed /\ abandoned' = abandoned
      BY <2>3 DEF Pop, histVars
    <3>2. CASE tasks = <<>>
      BY <2>3, <3>1, <3>2 DEF Pop, TasksInOrder, Running
    <3>3. CASE tasks # <<>>
      <4>1. Running = <<>> /\ Running' = <<Head(tasks)>> /\ tasks' = Tail(tasks)
        BY <2>3, <3>3, HeadTailProperties
           DEF CarriesOK, Pop, NextTask, RestOfTasks, Running
      <4>2. executed \o <<>> \o tasks \o abandoned
              = executed \o <<Head(tasks)>> \o Tail(tasks) \o abandoned
        BY <3>3
      <4> QED
        BY <3>1, <4>1, <4>2 DEF TasksInOrder
    <3> QED
      BY <3>2, <3>3
  <2>4. ASSUME RunEnds PROVE TasksInOrder'
    <3>1. Running = <<active>> /\ Running' = <<>> /\ active \in Tasks
      BY <2>4 DEF CarriesOK, RunEnds, Running
    <3>2. executed \o <<active>> \o tasks \o abandoned
            = Append(executed, active) \o <<>> \o tasks \o abandoned
      BY <3>1
    <3> QED
      BY <2>4, <3>1, <3>2 DEF TasksInOrder, RunEnds
  <2>5. ASSUME DestructorJoin PROVE TasksInOrder'
    <3>1. abandoned = <<>> /\ Running' = Running
      BY <2>5, NothingAbandonedYet DEF DestructorJoin, workerVars, Running
    <3>2. executed \o Running \o tasks \o <<>> = executed \o Running \o <<>> \o tasks
      BY <2>1
    <3> QED
      BY <2>5, <3>1, <3>2 DEF TasksInOrder, DestructorJoin
  <2>6. ASSUME UNCHANGED orderVars PROVE TasksInOrder'
    BY <2>6 DEF orderVars, TasksInOrder, Running
  <2> QED
    BY <2>2, <2>3, <2>4, <2>5, <2>6, OrderFrame
<1> QED
  BY <1>1, <1>2, Invariance, PTL DEF SafeSpec

-----------------------------------------------------------------------------
(* A notification is never lost. *)

\* Every step keeps a notify_one() on its way to a worker that sleeps on work.
LEMMA StepNoLostWakeup ==
  ASSUME IInv, NoLostWakeup, [Next]_vars PROVE NoLostWakeup'
<1>1. ASSUME NEW t \in Threads, EnqueueBegin(t) PROVE NoLostWakeup'
  BY <1>1 DEF IInv, TypeOK, NoLostWakeup, EnqueueBegin, Call, workerVars,
     callVars
<1>2. ASSUME NEW t \in Threads, StopBegin(t) PROVE NoLostWakeup'
  BY <1>2 DEF IInv, TypeOK, NoLostWakeup, StopBegin, Call, workerVars
<1>3. ASSUME NEW t \in Threads, EmptyBegin(t) PROVE NoLostWakeup'
  BY <1>3 DEF IInv, TypeOK, NoLostWakeup, EmptyBegin, Call, workerVars,
     histVars
<1>4. ASSUME NEW t \in Threads, LockForCall(t) PROVE NoLostWakeup'
  BY <1>4 DEF IInv, TypeOK, NoLostWakeup, LockForCall, Acquire, Locked,
     workerVars, histVars
<1>5. ASSUME NEW t \in Threads, EnqueueLocked(t) PROVE NoLostWakeup'
  BY <1>5 DEF IInv, TypeOK, NoLostWakeup, EnqueueLocked, MayPush, Pushed,
     workerVars
<1>6. ASSUME NEW t \in Threads, EnqueueNotify(t) PROVE NoLostWakeup'
  BY <1>6 DEF IInv, TypeOK, NoLostWakeup, EnqueueNotify, NotifyPushed,
     NotifyOne, histVars
<1>7. ASSUME NEW t \in Threads, StopLocked(t) PROVE NoLostWakeup'
  BY <1>7 DEF IInv, TypeOK, NoLostWakeup, StopLocked, AfterStop, workerVars
<1>8. ASSUME NEW t \in Threads, StopNotify(t) PROVE NoLostWakeup'
  BY <1>8 DEF IInv, TypeOK, NoLostWakeup, StopNotify, AfterStop, NotifyOne
<1>9. ASSUME NEW t \in Threads, EmptyLocked(t) PROVE NoLostWakeup'
  BY <1>9 DEF IInv, TypeOK, NoLostWakeup, EmptyLocked, workerVars, histVars
<1>10. ASSUME NEW c \in Clients, Leave(c) PROVE NoLostWakeup'
  BY <1>10 DEF IInv, TypeOK, NoLostWakeup, Leave, workerVars, histVars
<1>11. ASSUME JoinBegin PROVE NoLostWakeup'
  BY <1>11 DEF IInv, TypeOK, NoLostWakeup, JoinBegin, Call, workerVars,
     histVars
<1>12. ASSUME JoinEnd PROVE NoLostWakeup'
  BY <1>12 DEF IInv, TypeOK, NoLostWakeup, JoinEnd, WorkerReturned,
     workerVars, histVars
<1>13. ASSUME DestructorBegin PROVE NoLostWakeup'
  BY <1>13 DEF IInv, TypeOK, NoLostWakeup, DestructorBegin, workerVars
<1>14. ASSUME DestructorJoin PROVE NoLostWakeup'
  BY <1>14 DEF IInv, TypeOK, NoLostWakeup, LifeOK, DestructorJoin,
     WorkerReturned, workerVars
<1>15. ASSUME DestructorTerminates PROVE NoLostWakeup'
  BY <1>15 DEF IInv, TypeOK, NoLostWakeup, DestructorTerminates, workerVars,
     histVars
<1>16. ASSUME LoopTest PROVE NoLostWakeup'
  BY <1>16 DEF IInv, TypeOK, NoLostWakeup, LoopTest, callVars, histVars
<1>17. ASSUME SizeTest PROVE NoLostWakeup'
  BY <1>17 DEF IInv, TypeOK, NoLostWakeup, SizeTest, callVars, histVars
<1>18. ASSUME LockForWorker PROVE NoLostWakeup'
  BY <1>18 DEF IInv, TypeOK, NoLostWakeup, LockForWorker, Acquire, Locked,
     callVars, histVars
<1>19. ASSUME Pop PROVE NoLostWakeup'
  BY <1>19 DEF IInv, TypeOK, NoLostWakeup, Pop, NextTask, RestOfTasks,
     UnlockToRun, callVars, histVars
<1>20. ASSUME RunEnds PROVE NoLostWakeup'
  BY <1>20 DEF IInv, TypeOK, NoLostWakeup, RunEnds, callVars
<1>21. ASSUME WaitTest PROVE NoLostWakeup'
  BY <1>21 DEF IInv, TypeOK, NoLostWakeup, WaitTest, WorkerHasReason,
     callVars, histVars
<1>22. ASSUME SpuriousWakeup PROVE NoLostWakeup'
  BY <1>22 DEF IInv, TypeOK, NoLostWakeup, SpuriousWakeup, callVars,
     histVars
<1>23. ASSUME UNCHANGED vars PROVE NoLostWakeup'
  BY <1>23 DEF IInv, TypeOK, NoLostWakeup, vars
<1> QED
  BY <1>1, <1>2, <1>3, <1>4, <1>5, <1>6, <1>7, <1>8, <1>9, <1>10, <1>11,
     <1>12, <1>13, <1>14, <1>15, <1>16, <1>17, <1>18, <1>19, <1>20, <1>21,
     <1>22, <1>23
     DEF Next, CallBegin, CallStep, Destructor, WorkerStep, Over

\* However many threads submit and stop, the worker never sleeps on work: who
\* gave it a reason to wake is still on the way to notify_one().
THEOREM Wakeups == SafeSpec => []NoLostWakeup
<1>1. Init => NoLostWakeup
  BY DEF Init, NoLostWakeup
<1>2. IInv /\ NoLostWakeup /\ [Next]_vars => NoLostWakeup'
  BY StepNoLostWakeup
<1> QED
  BY <1>1, <1>2, Invariance, PTL DEF SafeSpec

-----------------------------------------------------------------------------
(* The end of the queue. *)

\* After join() nothing of the worker is left, and when the members are
\* destroyed nobody is inside the queue.
THEOREM Quiet == SafeSpec => []QuietAfterJoin
<1>1. ASSUME IInv PROVE QuietAfterJoin
  <2>1. wpc = "exit" => /\ ~isRunning
                        /\ active = NoTask
                        /\ pc[Worker] = "idle"
                        /\ mutex # Worker
    BY <1>1 DEF IInv, TypeOK, StopOK, CarriesOK, LockOK, Holds
  <2>2. ~joinable => wpc = "exit"
    BY <1>1 DEF IInv, LifeOK
  <2>3. life = "destroyed" => /\ wpc = "exit"
                              /\ pc[Owner] = "gone"
                              /\ \A c \in Clients : pc[c] = "gone"
    BY <1>1 DEF IInv, LifeOK
  <2>4. life = "destroyed" => \A t \in Threads : ~Holds(t)
    BY <1>1, <2>1, <2>3 DEF Holds, Threads, Callers
  <2>5. life = "destroyed" => mutex = NoThread
    BY <1>1, <2>4 DEF IInv, TypeOK, LockOK
  <2> QED
    BY <2>1, <2>2, <2>3, <2>5 DEF QuietAfterJoin
<1> QED
  BY <1>1, Invariance, PTL

-----------------------------------------------------------------------------
(* stop() is final. *)

\* Once a call of stop() has returned, no step accepts a task: the look at
\* is_running_ under the mutex cannot be stale.
THEOREM StopIsFinal == SafeSpec => NoAcceptAfterStop
<1>1. ASSUME IInv, [Next]_vars, stopped PROVE accepted' = accepted
  <2>1. ~isRunning
    BY <1>1 DEF IInv, StopOK
  <2>2. ASSUME NEW t \in Threads, EnqueueLocked(t) PROVE accepted' = accepted
    BY <2>1, <2>2 DEF EnqueueLocked, MayPush
  <2>3. ASSUME Pop \/ RunEnds \/ DestructorJoin PROVE accepted' = accepted
    BY <2>3 DEF Pop, RunEnds, DestructorJoin, histVars
  <2> QED
    BY <1>1, <2>2, <2>3, OrderFrame DEF orderVars
<1>2. IInv /\ [Next]_vars => [stopped => accepted' = accepted]_vars
  BY <1>1
<1> QED
  BY <1>2, Invariance, PTL DEF SafeSpec, NoAcceptAfterStop

-----------------------------------------------------------------------------
(* The queue implements the serial executor. *)

\* A packaged_task is moved: whoever submits one is the only one who has it.
OneHolder ==
  /\ \A t \in Threads : arg[t] \notin fresh
  /\ \A t, u \in Threads : arg[t] = arg[u] /\ arg[t] \in Tasks => t = u

submitVars == <<fresh, arg, refused>>

\* A step begins to submit a task, or decides on one, or leaves the undecided
\* tasks and whoever carries them alone.
LEMMA SubmitFrame ==
  ASSUME IInv, [Next]_vars
  PROVE  \/ \E t \in Threads : EnqueueBegin(t) \/ EnqueueLocked(t)
         \/ UNCHANGED submitVars /\ UNCHANGED Undecided
<1> DEFINE Same == UNCHANGED submitVars /\ \A u \in Threads : Submitting(u)' = Submitting(u)
<1>1. ASSUME Same PROVE UNCHANGED submitVars /\ UNCHANGED Undecided
  <2>1. {u \in Threads : Submitting(u)}' = {u \in Threads : Submitting(u)}
    BY <1>1
  <2> QED
    BY <1>1, <2>1 DEF Undecided, submitVars
<1>2. ASSUME NEW t \in Threads, StopBegin(t) PROVE Same
  BY <1>2 DEF IInv, TypeOK, Submitting, submitVars, StopBegin, Call,
     workerVars
<1>3. ASSUME NEW t \in Threads, EmptyBegin(t) PROVE Same
  BY <1>3 DEF IInv, TypeOK, Submitting, submitVars, EmptyBegin, Call,
     workerVars, histVars
<1>4. ASSUME NEW t \in Threads, LockForCall(t) PROVE Same
  BY <1>4 DEF IInv, TypeOK, Submitting, submitVars, LockForCall, Acquire,
     Locked, workerVars, histVars
<1>5. ASSUME NEW t \in Threads, EnqueueNotify(t) PROVE Same
  BY <1>5 DEF IInv, TypeOK, Submitting, submitVars, EnqueueNotify,
     NotifyPushed, NotifyOne, histVars
<1>6. ASSUME NEW t \in Threads, StopLocked(t) PROVE Same
  BY <1>6 DEF IInv, TypeOK, Submitting, submitVars, StopLocked, AfterStop,
     workerVars
<1>7. ASSUME NEW t \in Threads, StopNotify(t) PROVE Same
  BY <1>7 DEF IInv, TypeOK, Submitting, submitVars, StopNotify, AfterStop,
     NotifyOne
<1>8. ASSUME NEW t \in Threads, EmptyLocked(t) PROVE Same
  BY <1>8 DEF IInv, TypeOK, Submitting, submitVars, EmptyLocked, workerVars,
     histVars
<1>9. ASSUME NEW c \in Clients, Leave(c) PROVE Same
  BY <1>9 DEF IInv, TypeOK, Submitting, submitVars, Leave, workerVars,
     histVars
<1>10. ASSUME JoinBegin PROVE Same
  BY <1>10 DEF IInv, TypeOK, Submitting, submitVars, JoinBegin, Call,
     workerVars, histVars
<1>11. ASSUME JoinEnd PROVE Same
  BY <1>11 DEF IInv, TypeOK, Submitting, submitVars, JoinEnd, WorkerReturned,
     workerVars, histVars
<1>12. ASSUME DestructorBegin PROVE Same
  BY <1>12 DEF IInv, TypeOK, Submitting, submitVars, DestructorBegin,
     workerVars
<1>13. ASSUME DestructorJoin PROVE Same
  BY <1>13 DEF IInv, TypeOK, Submitting, submitVars, DestructorJoin,
     WorkerReturned, workerVars
<1>14. ASSUME DestructorTerminates PROVE Same
  BY <1>14 DEF IInv, TypeOK, Submitting, submitVars, DestructorTerminates,
     workerVars, histVars
<1>15. ASSUME LoopTest PROVE Same
  BY <1>15 DEF IInv, TypeOK, Submitting, submitVars, LoopTest, callVars,
     histVars
<1>16. ASSUME SizeTest PROVE Same
  BY <1>16 DEF IInv, TypeOK, Submitting, submitVars, SizeTest, callVars,
     histVars
<1>17. ASSUME LockForWorker PROVE Same
  BY <1>17 DEF IInv, TypeOK, Submitting, submitVars, LockForWorker, Acquire,
     Locked, callVars, histVars
<1>18. ASSUME Pop PROVE Same
  BY <1>18 DEF IInv, TypeOK, Submitting, submitVars, Pop, NextTask,
     RestOfTasks, UnlockToRun, callVars, histVars
<1>19. ASSUME RunEnds PROVE Same
  BY <1>19 DEF IInv, TypeOK, Submitting, submitVars, RunEnds, callVars
<1>20. ASSUME WaitTest PROVE Same
  BY <1>20 DEF IInv, TypeOK, Submitting, submitVars, WaitTest,
     WorkerHasReason, callVars, histVars
<1>21. ASSUME SpuriousWakeup PROVE Same
  BY <1>21 DEF IInv, TypeOK, Submitting, submitVars, SpuriousWakeup,
     callVars, histVars
<1>22. ASSUME UNCHANGED vars PROVE Same
  BY <1>22 DEF IInv, TypeOK, Submitting, submitVars, vars
<1> QED
  BY <1>1, <1>2, <1>3, <1>4, <1>5, <1>6, <1>7, <1>8, <1>9, <1>10, <1>11, <1>12, <1>13, <1>14, <1>15, <1>16, <1>17, <1>18, <1>19, <1>20, <1>21, <1>22
     DEF Next, CallBegin, CallStep, Destructor, WorkerStep, Over

\* A task that is being submitted is carried by one thread and is not fresh.
THEOREM OneHolderInvariant == SafeSpec => []OneHolder
<1>1. Init => OneHolder
  BY DEF Init, OneHolder
<1>2. ASSUME IInv, OneHolder, [Next]_vars PROVE OneHolder'
  <2>1. ASSUME NEW t \in Threads, EnqueueBegin(t) PROVE OneHolder'
    <3>1. PICK task \in fresh :
            /\ fresh' = fresh \ {task}
            /\ arg' = [arg EXCEPT ![t] = task] \/ arg' = arg
      BY <2>1 DEF EnqueueBegin, callVars
    <3>2. \A u \in Threads : arg'[u] = arg[u] \/ (u = t /\ arg'[u] = task)
      BY <1>2, <3>1 DEF IInv, TypeOK
    <3> QED
      BY <1>2, <3>1, <3>2 DEF OneHolder
  <2>2. ASSUME NEW t \in Threads, EnqueueLocked(t) PROVE OneHolder'
    BY <1>2, <2>2 DEF IInv, TypeOK, OneHolder, EnqueueLocked
  <2>3. ASSUME UNCHANGED submitVars PROVE OneHolder'
    BY <1>2, <2>3 DEF OneHolder, submitVars
  <2> QED
    BY <1>2, <2>1, <2>2, <2>3, SubmitFrame
<1>3. IInv /\ OneHolder /\ [Next]_vars => OneHolder'
  BY <1>2
<1> QED
  BY <1>1, <1>3, Invariance, PTL DEF SafeSpec

\* Only stop() writes is_running_, and only once.
LEMMA StopsOnce ==
  ASSUME IInv, [Next]_vars
  PROVE  /\ isRunning' = isRunning \/ (isRunning /\ ~isRunning')
         /\ Pop \/ RunEnds \/ DestructorJoin => isRunning' = isRunning
<1>1. ASSUME NEW t \in Threads, CallBegin(t) PROVE isRunning' = isRunning
  BY <1>1 DEF CallBegin, EnqueueBegin, StopBegin, EmptyBegin
<1>2. ASSUME NEW t \in Threads, CallStep(t), ~StopLocked(t)
      PROVE isRunning' = isRunning
  BY <1>2 DEF CallStep, LockForCall, EnqueueLocked, EnqueueNotify, StopNotify,
     EmptyLocked
<1>3. ASSUME NEW t \in Threads, StopLocked(t)
      PROVE isRunning' = isRunning \/ (isRunning /\ ~isRunning')
  BY <1>3 DEF StopLocked
<1>4. ASSUME NEW c \in Clients, Leave(c) PROVE isRunning' = isRunning
  BY <1>4 DEF Leave
<1>5. ASSUME JoinBegin \/ JoinEnd \/ Destructor PROVE isRunning' = isRunning
  BY <1>5 DEF JoinBegin, JoinEnd, Destructor, DestructorBegin, DestructorJoin,
     DestructorTerminates
<1>6. ASSUME WorkerStep \/ SpuriousWakeup PROVE isRunning' = isRunning
  BY <1>6 DEF WorkerStep, LoopTest, SizeTest, LockForWorker, Pop, RunEnds,
     WaitTest, SpuriousWakeup
<1>7. ASSUME UNCHANGED vars PROVE isRunning' = isRunning
  BY <1>7 DEF vars
<1>8. Pop \/ RunEnds \/ DestructorJoin => isRunning' = isRunning
  BY <1>5, <1>6 DEF Destructor, WorkerStep
<1> QED
  BY <1>1, <1>2, <1>3, <1>4, <1>5, <1>6, <1>7, <1>8
     DEF Next, CallStep, Destructor, WorkerStep, Over

\* The step that the executor takes when the queue takes each of its steps.
LEMMA StepImplements ==
  ASSUME IInv, OneHolder, [Next]_vars
  PROVE  [Executor!Next]_Executor!vars
<1> DEFINE dropped == refused \cup Range(abandoned)
           Stutter == UNCHANGED <<Undecided, isRunning, tasks, active, executed,
                                  refused, abandoned>>
<1>0. ASSUME Stutter PROVE UNCHANGED Executor!vars
  <2>1. UNCHANGED dropped
    BY <1>0
  <2> QED
    BY <1>0, <2>1 DEF Executor!vars
<1>1. ASSUME NEW t \in Threads, EnqueueBegin(t) PROVE [Executor!Next]_Executor!vars
  <2>1. PICK task \in fresh, seen \in ReadRunning(t) :
          /\ fresh' = fresh \ {task}
          /\ \/ /\ seen
                /\ pc' = [pc EXCEPT ![t] = "enqueue_lock"]
                /\ arg' = [arg EXCEPT ![t] = task]
                /\ refused' = refused
             \/ /\ ~seen
                /\ refused' = refused \cup {task}
                /\ pc' = pc
                /\ arg' = arg
    BY <1>1 DEF EnqueueBegin, callVars
  <2>2. pc[t] = "idle" /\ task \in Tasks
    BY <1>1, <2>1 DEF IInv, TypeOK, EnqueueBegin, Call
  <2>3. UNCHANGED <<isRunning, tasks, active, executed, abandoned>>
    BY <1>1 DEF EnqueueBegin, workerVars
  <2>4. CASE /\ pc' = [pc EXCEPT ![t] = "enqueue_lock"]
             /\ arg' = [arg EXCEPT ![t] = task]
             /\ refused' = refused
    <3>1. /\ \A u \in Threads : u # t => arg'[u] = arg[u] /\ Submitting(u)' = Submitting(u)
          /\ arg'[t] = task
          /\ Submitting(t)'
          /\ ~Submitting(t)
      BY <1>1, <2>2, <2>4 DEF IInv, TypeOK, Submitting
    <3>2. Undecided' = Undecided
      BY <2>1, <3>1 DEF Undecided
    <3> QED
      BY <1>0, <2>3, <2>4, <3>2
  <2>5. CASE /\ ~seen
             /\ refused' = refused \cup {task}
             /\ pc' = pc
             /\ arg' = arg
    <3>1. ~isRunning
      BY <2>1, <2>5 DEF IInv, TypeOK, StopOK, ReadRunning
    <3>2. \A u \in Threads : Submitting(u)' = Submitting(u) /\ arg[u] # task
      BY <2>1, <2>5 DEF OneHolder, Submitting
    <3>3. task \in Undecided /\ Undecided' = Undecided \ {task}
      BY <2>1, <2>5, <3>2 DEF Undecided
    <3>4. dropped' = dropped \cup {task}
      BY <2>3, <2>5
    <3>5. Executor!Refuse(task)
      BY <2>3, <3>1, <3>3, <3>4 DEF Executor!Refuse
    <3> QED
      BY <2>2, <3>5 DEF Executor!Next
  <2> QED
    BY <2>1, <2>4, <2>5
<1>2. ASSUME NEW t \in Threads, EnqueueLocked(t) PROVE [Executor!Next]_Executor!vars
  <2>1. Submitting(t) /\ arg[t] \in Tasks
    BY <1>2 DEF IInv, CarriesOK, Submitting, EnqueueLocked
  <2>2. /\ fresh' = fresh
        /\ \A u \in Threads : u # t => arg'[u] = arg[u] /\ Submitting(u)' = Submitting(u)
        /\ ~Submitting(t)'
    BY <1>2 DEF IInv, TypeOK, Submitting, EnqueueLocked
  <2>3. \A u \in Threads : u # t /\ Submitting(u) => arg[u] # arg[t]
    BY <1>2, <2>1 DEF OneHolder
  <2>4. arg[t] \in Undecided /\ Undecided' = Undecided \ {arg[t]}
    BY <1>2, <2>1, <2>2, <2>3 DEF OneHolder, Undecided
  <2>5. UNCHANGED <<isRunning, active, executed, abandoned>>
    BY <1>2 DEF EnqueueLocked, workerVars
  <2>6. CASE isRunning
    <3>1. tasks' = Append(tasks, arg[t]) /\ dropped' = dropped
      BY <1>2, <2>5, <2>6 DEF EnqueueLocked, MayPush, Pushed
    <3>2. Executor!Accept(arg[t])
      BY <2>4, <2>5, <2>6, <3>1 DEF Executor!Accept
    <3> QED
      BY <2>1, <3>2 DEF Executor!Next
  <2>7. CASE ~isRunning
    <3>1. tasks' = tasks /\ dropped' = dropped \cup {arg[t]}
      BY <1>2, <2>5, <2>7 DEF EnqueueLocked, MayPush
    <3>2. Executor!Refuse(arg[t])
      BY <2>4, <2>5, <2>7, <3>1 DEF Executor!Refuse
    <3> QED
      BY <2>1, <3>2 DEF Executor!Next
  <2> QED
    BY <2>6, <2>7
<1>3. ASSUME UNCHANGED submitVars, UNCHANGED Undecided, UNCHANGED orderVars
      PROVE  [Executor!Next]_Executor!vars
  <2>1. CASE isRunning' = isRunning
    BY <1>0, <1>3, <2>1 DEF submitVars, orderVars
  <2>2. CASE isRunning' # isRunning
    <3>1. isRunning /\ ~isRunning'
      BY <2>2, StopsOnce
    <3>2. dropped' = dropped
      BY <1>3 DEF submitVars, orderVars
    <3>3. Executor!Close
      BY <1>3, <3>1, <3>2 DEF Executor!Close, orderVars
    <3> QED
      BY <3>3 DEF Executor!Next
  <2> QED
    BY <2>1, <2>2
<1>4. ASSUME Pop PROVE [Executor!Next]_Executor!vars
  <2>1. UNCHANGED <<Undecided, isRunning, executed, refused, abandoned>>
    BY <1>4 DEF Pop, callVars, histVars, Undecided, Submitting
  <2>2. CASE tasks = <<>>
    BY <1>0, <1>4, <2>1, <2>2 DEF Pop
  <2>3. CASE tasks # <<>>
    <3>1. active = NoTask /\ active' = Head(tasks) /\ tasks' = Tail(tasks)
      BY <1>4, <2>3 DEF IInv, TypeOK, CarriesOK, Pop, NextTask, RestOfTasks
    <3>2. Executor!Start
      BY <2>1, <2>3, <3>1 DEF Executor!Start
    <3> QED
      BY <3>2 DEF Executor!Next
  <2> QED
    BY <2>2, <2>3
<1>5. ASSUME RunEnds PROVE [Executor!Next]_Executor!vars
  <2>1. UNCHANGED <<Undecided, isRunning, tasks, refused, abandoned>>
    BY <1>5 DEF RunEnds, callVars, Undecided, Submitting
  <2>2. active # NoTask
    BY <1>5 DEF IInv, CarriesOK, RunEnds
  <2>3. Executor!Finish
    BY <1>5, <2>1, <2>2 DEF RunEnds, Executor!Finish
  <2> QED
    BY <2>3 DEF Executor!Next
<1>6. ASSUME DestructorJoin PROVE [Executor!Next]_Executor!vars
  <2>1. UNCHANGED <<isRunning, active, executed, refused, fresh, arg>>
    BY <1>6 DEF DestructorJoin, workerVars
  <2>2. \A u \in Threads : Submitting(u)' = Submitting(u)
    BY <1>6 DEF IInv, TypeOK, DestructorJoin, Submitting
  <2>3. Undecided' = Undecided
    BY <2>1, <2>2 DEF Undecided
  <2>4. abandoned = <<>> /\ abandoned' = tasks /\ tasks' = <<>>
    BY <1>6, NothingAbandonedYet DEF DestructorJoin
  <2>5. CASE tasks = <<>>
    BY <1>0, <2>1, <2>3, <2>4, <2>5
  <2>6. CASE tasks # <<>>
    <3>1. ~isRunning /\ active = NoTask
      BY <1>6 DEF IInv, TypeOK, StopOK, CarriesOK, DestructorJoin, WorkerReturned
    <3>2. dropped' = dropped \cup Range(tasks)
      BY <2>1, <2>4 DEF Range
    <3>3. Executor!Retire
      BY <2>1, <2>3, <2>4, <2>6, <3>1, <3>2
         DEF Executor!Retire, Range, Executor!Range
    <3> QED
      BY <3>3 DEF Executor!Next
  <2> QED
    BY <2>5, <2>6
<1> QED
  BY <1>1, <1>2, <1>3, <1>4, <1>5, <1>6, SubmitFrame, OrderFrame

\* Seen by its users, the queue behaves as a serial executor: it accepts,
\* refuses, starts, finishes and drops tasks only as SerialExecutor does.
THEOREM Implements == SafeSpec => Executor!SafeSpec
<1>1. Init => Executor!Init
  <2> SUFFICES ASSUME Init PROVE Executor!Init
    OBVIOUS
  <2>1. Undecided = Tasks
    BY DEF Init, Undecided, Submitting
  <2>2. refused \cup Range(abandoned) = {}
    BY DEF Init, Range
  <2> QED
    BY <2>1, <2>2 DEF Init, Executor!Init
<1>2. IInv /\ OneHolder /\ [Next]_vars => [Executor!Next]_Executor!vars
  BY StepImplements
<1> QED
  BY <1>1, <1>2, Invariance, OneHolderInvariant, PTL DEF SafeSpec, Executor!SafeSpec
=============================================================================
