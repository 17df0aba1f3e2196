--------------------------- MODULE SerialExecutor ---------------------------
(***************************************************************************)
(* What cor::TaskQueue promises its users, with no thread, lock or         *)
(* condition variable in it: tasks submitted while the executor is open    *)
(* are run one at a time in the order they were accepted; once it is       *)
(* closed nothing more is accepted, and the tasks still waiting are        *)
(* dropped when it retires.  TaskQueue.tla is shown to implement it.       *)
(***************************************************************************)
EXTENDS Sequences, Functions

CONSTANTS Tasks,   \* the tasks users may submit
          NoTask   \* "nothing is running"

VARIABLES unseen,     \* tasks not decided upon yet
          open,       \* does the executor still accept tasks?
          backlog,    \* accepted and not started
          active,     \* the task being run, or NoTask
          completed,  \* finished tasks, in the order they finished
          dropped     \* tasks that will never run

vars == <<unseen, open, backlog, active, completed, dropped>>

Init ==
  /\ unseen = Tasks
  /\ open = TRUE
  /\ backlog = <<>>
  /\ active = NoTask
  /\ completed = <<>>
  /\ dropped = {}

Accept(task) ==
  /\ open
  /\ task \in unseen
  /\ unseen' = unseen \ {task}
  /\ backlog' = Append(backlog, task)
  /\ UNCHANGED <<open, active, completed, dropped>>

Refuse(task) ==
  /\ ~open
  /\ task \in unseen
  /\ unseen' = unseen \ {task}
  /\ dropped' = dropped \cup {task}
  /\ UNCHANGED <<open, backlog, active, completed>>

Close ==
  /\ open
  /\ open' = FALSE
  /\ UNCHANGED <<unseen, backlog, active, completed, dropped>>

\* A closed executor may still start what it had accepted, but need not.
Start ==
  /\ active = NoTask
  /\ backlog # <<>>
  /\ active' = Head(backlog)
  /\ backlog' = Tail(backlog)
  /\ UNCHANGED <<unseen, open, completed, dropped>>

Finish ==
  /\ active # NoTask
  /\ completed' = Append(completed, active)
  /\ active' = NoTask
  /\ UNCHANGED <<unseen, open, backlog, dropped>>

Retire ==
  /\ ~open
  /\ active = NoTask
  /\ backlog # <<>>
  /\ dropped' = dropped \cup Range(backlog)
  /\ backlog' = <<>>
  /\ UNCHANGED <<unseen, open, active, completed>>

Next ==
  \/ \E task \in Tasks : Accept(task) \/ Refuse(task)
  \/ Close
  \/ Start
  \/ Finish
  \/ Retire

Fairness == WF_vars(Finish) /\ WF_vars(open /\ Start)

SafeSpec == Init /\ [][Next]_vars
Spec == SafeSpec /\ Fairness
=============================================================================
