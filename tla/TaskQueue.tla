------------------------------ MODULE TaskQueue ------------------------------
(***************************************************************************)
(* cor::TaskQueue (src/mt.cpp): a deque of packaged tasks, a mutex, a      *)
(* condition variable and one worker thread that runs the tasks.           *)
(*                                                                         *)
(* Clients, the owner and - from inside a task - the worker itself call    *)
(* enqueue(), stop() and empty(); the owner may also call join(), and      *)
(* destroys the queue when every client is done with it.  A step of the    *)
(* model ends where another thread can observe or change something: at a   *)
(* lock, at an unlock, at a notify, at a read that is made without the     *)
(* lock.                                                                   *)
(*                                                                         *)
(* enqueue() and stop() read is_running_, loop() reads is_running_ and     *)
(* process() reads tasks_.size(), all before they take the mutex: these    *)
(* are data races.  What such a read returns is left open (ReadRunning,    *)
(* ReadSize) until the reader has synchronised with the writer through     *)
(* the mutex.                                                              *)
(***************************************************************************)
EXTENDS Naturals, Sequences, Functions

CONSTANTS Clients,       \* threads that use the queue
          Owner,         \* the thread that owns and destroys it
          Worker,        \* thread_
          NoThread,      \* the mutex is free
          Tasks,         \* the packaged tasks there are to submit
          NoTask,        \* no task is running, no task is being submitted
          MaxCalls,      \* bound: calls one thread makes
          MaxSpurious,   \* bound: spurious wakeups of the worker
          OwnerMayJoin   \* does the owner call the public join()?

Callers == Clients \cup {Owner}
Threads == Callers \cup {Worker}

ASSUME TaskQueueAssumption ==
  /\ Owner \notin Clients
  /\ Worker \notin Callers
  /\ NoThread \notin Threads
  /\ NoTask \notin Tasks
  /\ MaxCalls \in Nat
  /\ MaxSpurious \in Nat
  /\ OwnerMayJoin \in BOOLEAN

VARIABLES
  isRunning,   \* is_running_
  tasks,       \* tasks_
  mutex,       \* the thread that holds mutex_, or NoThread
  joinable,    \* thread_.joinable()
  wpc,         \* where the worker is in loop() and process()
  active,      \* the task process() is running, or NoTask
  pc,          \* where each thread is in a call to the queue
  arg,         \* the task each thread is submitting, or NoTask
  life,        \* the queue object
  stale,       \* threads that may still read the old is_running_
  torn,        \* an enqueue the worker has not synchronised with
  calls,       \* calls each thread has made
  spurious,    \* spurious wakeups so far
  fresh,       \* tasks nobody has submitted yet
  accepted,    \* history: tasks put into tasks_, in order
  executed,    \* history: tasks that ran to their end, in order
  refused,     \* tasks enqueue() returned false for
  abandoned,   \* tasks destroyed with the queue before they ran, in order
  stopped      \* history: has a call of stop() returned?

workerVars == <<wpc, active, spurious>>
callVars == <<pc, arg>>
histVars == <<accepted, executed, refused, abandoned, stopped>>
vars == <<isRunning, tasks, mutex, joinable, wpc, active, pc, arg, life, stale,
          torn, calls, spurious, fresh, accepted, executed, refused, abandoned,
          stopped>>

CallWaitsLock == {"enqueue_lock", "stop_lock", "empty_lock"}
CallHoldsLock == {"enqueue_locked", "stop_locked", "empty_locked"}
CallNotifies == {"enqueue_notify", "stop_notify"}
CallLocations == {"idle", "join", "gone"} \cup CallWaitsLock \cup CallHoldsLock
                   \cup CallNotifies

WorkerWaitsLock == {"pop_lock", "wait_lock", "relock"}
WorkerHoldsLock == {"pop", "test"}
WorkerLocations == {"loop", "size", "run", "wait", "exit"}
                     \cup WorkerWaitsLock \cup WorkerHoldsLock

\* The location that is reached from l once the mutex is had.
Locked(l) ==
  CASE l = "enqueue_lock" -> "enqueue_locked"
    [] l = "stop_lock" -> "stop_locked"
    [] l = "empty_lock" -> "empty_locked"
    [] l = "pop_lock" -> "pop"
    [] OTHER -> "test"

Init ==
  /\ isRunning = TRUE
  /\ tasks = <<>>
  /\ mutex = NoThread
  /\ joinable = TRUE
  /\ wpc = "loop"
  /\ active = NoTask
  /\ pc = [t \in Threads |-> "idle"]
  /\ arg = [t \in Threads |-> NoTask]
  /\ life = "alive"
  /\ stale = {}
  /\ torn = FALSE
  /\ calls = [t \in Threads |-> 0]
  /\ spurious = 0
  /\ fresh = Tasks
  /\ accepted = <<>>
  /\ executed = <<>>
  /\ refused = {}
  /\ abandoned = <<>>
  /\ stopped = FALSE

-----------------------------------------------------------------------------
(* What a read made without the mutex may return. *)

ReadRunning(t) == IF t \in stale THEN BOOLEAN ELSE {isRunning}

\* A thread that has read FALSE does not go back to the old value.
HasRead(t, seen) == stale' = IF seen THEN stale ELSE stale \ {t}

\* tasks_.size() # 0
ReadSize == IF torn THEN BOOLEAN ELSE {tasks # <<>>}

\* std::condition_variable::notify_one on ready_: only the worker ever waits.
NotifyOne == wpc' = IF wpc = "wait" THEN "relock" ELSE wpc

-----------------------------------------------------------------------------
(* Calls: enqueue(), stop(), empty(), join(). *)

\* A thread starts a call.  The worker can only do so from inside a task.
Call(t) ==
  /\ pc[t] = "idle"
  /\ t = Worker => wpc = "run"
  /\ calls[t] < MaxCalls
  /\ calls' = [calls EXCEPT ![t] = @ + 1]

EnqueueBegin(t) ==
  /\ Call(t)
  /\ \E task \in fresh, seen \in ReadRunning(t) :
       /\ fresh' = fresh \ {task}
       /\ HasRead(t, seen)
       /\ \/ /\ seen
             /\ pc' = [pc EXCEPT ![t] = "enqueue_lock"]
             /\ arg' = [arg EXCEPT ![t] = task]
             /\ UNCHANGED refused
          \/ /\ ~seen
             /\ refused' = refused \cup {task}
             /\ UNCHANGED callVars
  /\ UNCHANGED <<isRunning, tasks, mutex, joinable, life, torn, accepted,
                 executed, abandoned, stopped, workerVars>>

StopBegin(t) ==
  /\ Call(t)
  /\ \E seen \in ReadRunning(t) :
       /\ HasRead(t, seen)
       /\ \/ /\ seen
             /\ pc' = [pc EXCEPT ![t] = "stop_lock"]
             /\ UNCHANGED stopped
          \/ /\ ~seen
             /\ stopped' = TRUE
             /\ UNCHANGED pc
  /\ UNCHANGED <<isRunning, tasks, mutex, joinable, life, torn, arg, fresh,
                 accepted, executed, refused, abandoned, workerVars>>

EmptyBegin(t) ==
  /\ Call(t)
  /\ pc' = [pc EXCEPT ![t] = "empty_lock"]
  /\ UNCHANGED <<isRunning, tasks, mutex, joinable, life, stale, torn, arg,
                 fresh, workerVars, histVars>>

Acquire(t) ==
  /\ mutex = NoThread
  /\ mutex' = t
  /\ stale' = stale \ {t}
  /\ torn' = (torn /\ t # Worker)

LockForCall(t) ==
  /\ pc[t] \in CallWaitsLock
  /\ Acquire(t)
  /\ pc' = [pc EXCEPT ![t] = Locked(@)]
  /\ UNCHANGED <<isRunning, tasks, joinable, arg, life, calls, fresh,
                 workerVars, histVars>>

\* Mutant: the second look at is_running_ is dropped.
MayPush_Unchecked == TRUE
MayPush == isRunning

\* Mutant: the task has already been moved from.
Pushed_MovedFrom(t) == NoTask
Pushed(t) == arg[t]

\* is_running_ again, now under the mutex; push_back; unlock.
EnqueueLocked(t) ==
  /\ pc[t] = "enqueue_locked"
  /\ \/ /\ MayPush
        /\ tasks' = Append(tasks, Pushed(t))
        /\ accepted' = Append(accepted, Pushed(t))
        /\ torn' = (torn \/ t # Worker)
        /\ pc' = [pc EXCEPT ![t] = "enqueue_notify"]
        /\ UNCHANGED refused
     \/ /\ ~MayPush
        /\ refused' = refused \cup {arg[t]}
        /\ pc' = [pc EXCEPT ![t] = "idle"]
        /\ UNCHANGED <<tasks, accepted, torn>>
  /\ arg' = [arg EXCEPT ![t] = NoTask]
  /\ mutex' = NoThread
  /\ UNCHANGED <<isRunning, joinable, life, stale, calls, fresh, executed,
                 abandoned, stopped, workerVars>>

\* Mutant: the notify is forgotten.
NotifyPushed_Missing == wpc' = wpc
NotifyPushed == NotifyOne

EnqueueNotify(t) ==
  /\ pc[t] = "enqueue_notify"
  /\ NotifyPushed
  /\ pc' = [pc EXCEPT ![t] = "idle"]
  /\ UNCHANGED <<isRunning, tasks, mutex, joinable, active, arg, life, stale,
                 torn, calls, spurious, fresh, histVars>>

\* The destructor calls stop() and goes on to join().
AfterStop(t) == IF t = Owner /\ life = "destructing" THEN "join" ELSE "idle"

StopLocked(t) ==
  /\ pc[t] = "stop_locked"
  /\ \/ /\ isRunning
        /\ isRunning' = FALSE
        /\ stale' = Threads \ {t}
        /\ pc' = [pc EXCEPT ![t] = "stop_notify"]
        /\ UNCHANGED stopped
     \/ /\ ~isRunning
        /\ pc' = [pc EXCEPT ![t] = AfterStop(t)]
        /\ stopped' = TRUE
        /\ UNCHANGED <<isRunning, stale>>
  /\ mutex' = NoThread
  /\ UNCHANGED <<tasks, joinable, arg, life, torn, calls, fresh, accepted,
                 executed, refused, abandoned, workerVars>>

StopNotify(t) ==
  /\ pc[t] = "stop_notify"
  /\ NotifyOne
  /\ pc' = [pc EXCEPT ![t] = AfterStop(t)]
  /\ stopped' = TRUE
  /\ UNCHANGED <<isRunning, tasks, mutex, joinable, active, arg, life, stale,
                 torn, calls, spurious, fresh, accepted, executed, refused,
                 abandoned>>

EmptyLocked(t) ==
  /\ pc[t] = "empty_locked"
  /\ pc' = [pc EXCEPT ![t] = "idle"]
  /\ mutex' = NoThread
  /\ UNCHANGED <<isRunning, tasks, joinable, arg, life, stale, torn, calls,
                 fresh, workerVars, histVars>>

\* The owner calls join() only once somebody has stopped the queue: before
\* that thread_.join() has nothing to wait for.
JoinBegin ==
  /\ OwnerMayJoin
  /\ stopped
  /\ Call(Owner)
  /\ pc' = [pc EXCEPT ![Owner] = "join"]
  /\ UNCHANGED <<isRunning, tasks, mutex, joinable, arg, life, stale, torn,
                 fresh, workerVars, histVars>>

\* Mutant: join() does not wait for the worker.
WorkerReturned_Detached == TRUE
WorkerReturned == wpc = "exit"

\* thread_.join() returns when loop() has; on a thread already joined it
\* throws std::system_error, out of join() to its caller.
JoinEnd ==
  /\ pc[Owner] = "join"
  /\ life = "alive"
  /\ joinable => WorkerReturned
  /\ joinable' = FALSE
  /\ stale' = stale \ {Owner}
  /\ pc' = [pc EXCEPT ![Owner] = "idle"]
  /\ UNCHANGED <<isRunning, tasks, mutex, arg, life, torn, calls, fresh,
                 workerVars, histVars>>

-----------------------------------------------------------------------------
(* The end of the queue: clients let go of it, the owner destroys it. *)

Leave(c) ==
  /\ c \in Clients
  /\ pc[c] = "idle"
  /\ pc' = [pc EXCEPT ![c] = "gone"]
  /\ UNCHANGED <<isRunning, tasks, mutex, joinable, arg, life, stale, torn,
                 calls, fresh, workerVars, histVars>>

\* ~TaskQueueImpl() starts with stop().
DestructorBegin ==
  /\ life = "alive"
  /\ pc[Owner] = "idle"
  /\ \A c \in Clients : pc[c] = "gone"
  /\ life' = "destructing"
  /\ \E seen \in ReadRunning(Owner) :
       /\ HasRead(Owner, seen)
       /\ pc' = [pc EXCEPT ![Owner] = IF seen THEN "stop_lock" ELSE "join"]
       /\ stopped' = (stopped \/ ~seen)
  /\ UNCHANGED <<isRunning, tasks, mutex, joinable, arg, torn, calls, fresh,
                 accepted, executed, refused, abandoned, workerVars>>

\* join(), then the members are destroyed, the tasks left in tasks_ too.
DestructorJoin ==
  /\ life = "destructing"
  /\ pc[Owner] = "join"
  /\ joinable
  /\ WorkerReturned
  /\ joinable' = FALSE
  /\ life' = "destroyed"
  /\ pc' = [pc EXCEPT ![Owner] = "gone"]
  /\ abandoned' = tasks
  /\ tasks' = <<>>
  /\ UNCHANGED <<isRunning, mutex, arg, stale, torn, calls, fresh, accepted,
                 executed, refused, stopped, workerVars>>

\* join() throws if join() was called before, and a destructor that throws
\* ends the process.
DestructorTerminates ==
  /\ life = "destructing"
  /\ pc[Owner] = "join"
  /\ ~joinable
  /\ life' = "terminated"
  /\ UNCHANGED <<isRunning, tasks, mutex, joinable, arg, pc, stale, torn, calls,
                 fresh, workerVars, histVars>>

-----------------------------------------------------------------------------
(* The worker: loop() and process(). *)

\* while (is_running_): read without the mutex.
LoopTest ==
  /\ wpc = "loop"
  /\ \E seen \in ReadRunning(Worker) :
       /\ HasRead(Worker, seen)
       /\ wpc' = IF seen THEN "size" ELSE "exit"
  /\ UNCHANGED <<isRunning, tasks, mutex, joinable, active, spurious, life,
                 torn, calls, fresh, callVars, histVars>>

\* while (tasks_.size()): read without the mutex.
SizeTest ==
  /\ wpc = "size"
  /\ \E some \in ReadSize : wpc' = IF some THEN "pop_lock" ELSE "wait_lock"
  /\ UNCHANGED <<isRunning, tasks, mutex, joinable, active, spurious, life,
                 stale, torn, calls, fresh, callVars, histVars>>

LockForWorker ==
  /\ wpc \in WorkerWaitsLock
  /\ Acquire(Worker)
  /\ wpc' = Locked(wpc)
  /\ UNCHANGED <<isRunning, tasks, joinable, active, spurious, life, calls,
                 fresh, callVars, histVars>>

\* Mutant: pop_back's task is taken instead of pop_front's.
NextTask_LastInFirstOut == tasks[Len(tasks)]
NextTask == Head(tasks)

\* Mutant: the task is taken and stays in the deque.
RestOfTasks_NotPopped == tasks
RestOfTasks == Tail(tasks)

\* Mutant: the task runs with the mutex held.
UnlockToRun_Held == mutex' = mutex
UnlockToRun == mutex' = NoThread

\* The size again, now under the mutex; the front is moved out and popped.
Pop ==
  /\ wpc = "pop"
  /\ \/ /\ tasks # <<>>
        /\ active' = NextTask
        /\ tasks' = RestOfTasks
        /\ UnlockToRun
        /\ wpc' = "run"
     \/ /\ tasks = <<>>
        /\ mutex' = NoThread
        /\ wpc' = "size"
        /\ UNCHANGED <<active, tasks>>
  /\ UNCHANGED <<isRunning, joinable, spurious, life, stale, torn, calls, fresh,
                 callVars, histVars>>

\* task() returns; the calls it makes to the queue are those of thread Worker.
RunEnds ==
  /\ wpc = "run"
  /\ pc[Worker] = "idle"
  /\ executed' = Append(executed, active)
  /\ active' = NoTask
  /\ wpc' = "size"
  /\ UNCHANGED <<isRunning, tasks, mutex, joinable, spurious, life, stale, torn,
                 calls, fresh, accepted, refused, abandoned, stopped, callVars>>

\* Mutant: the predicate forgets is_running_.
WorkerHasReason_IgnoresStop == tasks # <<>>
WorkerHasReason == ~isRunning \/ tasks # <<>>

\* ready_.wait(lock, predicate): test, and wait releasing the mutex at once.
WaitTest ==
  /\ wpc = "test"
  /\ wpc' = IF WorkerHasReason THEN "loop" ELSE "wait"
  /\ mutex' = NoThread
  /\ UNCHANGED <<isRunning, tasks, joinable, active, spurious, life, stale,
                 torn, calls, fresh, callVars, histVars>>

SpuriousWakeup ==
  /\ wpc = "wait"
  /\ spurious < MaxSpurious
  /\ spurious' = spurious + 1
  /\ wpc' = "relock"
  /\ UNCHANGED <<isRunning, tasks, mutex, joinable, active, life, stale, torn,
                 calls, fresh, callVars, histVars>>

-----------------------------------------------------------------------------

CallBegin(t) == EnqueueBegin(t) \/ StopBegin(t) \/ EmptyBegin(t)

CallStep(t) ==
  \/ LockForCall(t)
  \/ EnqueueLocked(t)
  \/ EnqueueNotify(t)
  \/ StopLocked(t)
  \/ StopNotify(t)
  \/ EmptyLocked(t)

Destructor == DestructorBegin \/ DestructorJoin \/ DestructorTerminates

WorkerStep ==
  \/ LoopTest
  \/ SizeTest
  \/ LockForWorker
  \/ Pop
  \/ RunEnds
  \/ WaitTest

\* Nothing is left to do: every client has gone and the worker has returned.
Over == life \in {"destroyed", "terminated"} /\ UNCHANGED vars

Next ==
  \/ \E t \in Threads : CallBegin(t) \/ CallStep(t)
  \/ \E c \in Clients : Leave(c)
  \/ JoinBegin
  \/ JoinEnd
  \/ Destructor
  \/ WorkerStep
  \/ SpuriousWakeup
  \/ Over

\* Threads are scheduled: a call, a join and the worker go on whenever they
\* can.  Nobody has to submit, stop or destroy anything.
Fairness ==
  /\ \A t \in Threads : WF_vars(CallStep(t))
  /\ WF_vars(JoinEnd)
  /\ WF_vars(DestructorJoin \/ DestructorTerminates)
  /\ WF_vars(WorkerStep)

SafeSpec == Init /\ [][Next]_vars
Spec == SafeSpec /\ Fairness

-----------------------------------------------------------------------------
(* Properties. *)

TypeOK ==
  /\ isRunning \in BOOLEAN
  /\ tasks \in Seq(Tasks)
  /\ mutex \in Threads \cup {NoThread}
  /\ joinable \in BOOLEAN
  /\ wpc \in WorkerLocations
  /\ active \in Tasks \cup {NoTask}
  /\ pc \in [Threads -> CallLocations]
  /\ arg \in [Threads -> Tasks \cup {NoTask}]
  /\ life \in {"alive", "destructing", "destroyed", "terminated"}
  /\ stale \in SUBSET Threads
  /\ torn \in BOOLEAN
  /\ calls \in [Threads -> Nat]
  /\ spurious \in Nat
  /\ fresh \in SUBSET Tasks
  /\ accepted \in Seq(Tasks)
  /\ executed \in Seq(Tasks)
  /\ refused \in SUBSET Tasks
  /\ abandoned \in Seq(Tasks)
  /\ stopped \in BOOLEAN

Running == IF active = NoTask THEN <<>> ELSE <<active>>

\* Every task enqueue() accepted is in exactly one place, and tasks run in the
\* order they were accepted: the tasks accepted are those that ran, then the
\* one process() is running, then tasks_, then those destroyed with tasks_.
TasksInOrder == accepted = executed \o Running \o tasks \o abandoned

\* A worker that waits on ready_ has nothing to do, or the thread that gave it
\* something to do has still to call notify_one(): the notify after the unlock
\* in enqueue() and stop() is never lost.
NoLostWakeup ==
  wpc = "wait" /\ (tasks # <<>> \/ ~isRunning)
    => \E t \in Threads : pc[t] \in CallNotifies

\* loop() returns only once the queue is stopped, and nothing that runs on the
\* worker outlives it: after join() - and so when the members are destroyed -
\* no task is running, no call is under way from a task, and nobody holds or
\* waits for the mutex on the worker's behalf.
QuietAfterJoin ==
  /\ wpc = "exit" => ~isRunning
  /\ ~joinable => /\ wpc = "exit"
                  /\ active = NoTask
                  /\ pc[Worker] = "idle"
                  /\ mutex # Worker
  /\ life = "destroyed" => /\ mutex = NoThread
                           /\ \A c \in Clients : pc[c] = "gone"

\* Once any call of stop() has returned, no enqueue() is accepted: not one that
\* passed its first look at is_running_ before, nor one whose look is stale.
NoAcceptAfterStop == [][stopped => accepted' = accepted]_vars

\* Every task handed to enqueue() runs, or is destroyed so that its future is
\* broken; none stays in limbo, provided the queue is destroyed some day.
EveryFutureResolves ==
  <>(life # "alive") =>
    \A task \in Tasks :
      task \notin fresh ~> task \in Range(executed) \cup refused \cup Range(abandoned)

\* While the queue is not stopped, an accepted task is run, and that without a
\* further call that would wake the worker: only stop() can leave it behind.
RunsUnlessStopped ==
  \A task \in Tasks :
    task \in Range(accepted) ~> task \in Range(executed) \/ ~isRunning

\* The destructor returns: the worker is woken and leaves its loop.
DestructorReturns == (life = "destructing") ~> (life = "destroyed")

\* tests/mt.cpp:136-161 polls empty() and, once it is TRUE, expects that every
\* task queued before has been executed.
EmptyMeansExecuted ==
  [][\A t \in Threads : EmptyLocked(t) /\ tasks = <<>> => executed = accepted]_vars

-----------------------------------------------------------------------------
(* What the queue implements. *)

Submitting(t) == pc[t] \in {"enqueue_lock", "enqueue_locked"}

\* Tasks whose fate enqueue() has not decided.
Undecided == fresh \cup {arg[t] : t \in {u \in Threads : Submitting(u)}}

Executor == INSTANCE SerialExecutor WITH
  unseen <- Undecided,
  open <- isRunning,
  backlog <- tasks,
  completed <- executed,
  dropped <- refused \cup Range(abandoned)

\* Seen by its users, the queue is a serial executor.
ImplementsExecutor == Executor!Spec
=============================================================================
