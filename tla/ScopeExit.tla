----------------------------- MODULE ScopeExit -----------------------------
(***************************************************************************)
(* cor::ScopeExit and on_scope_exit() (include/cor/util.hpp:340-374): a    *)
(* function that runs when the object goes out of scope, unless it was     *)
(* called before.  The objects are the one that is made and those it is    *)
(* moved to; fn_ may throw, and then is_called_ stays FALSE: a call passes *)
(* the exception on, from the destructor, which is noexcept, it ends the   *)
(* process.                                                                *)
(***************************************************************************)
EXTENDS Integers

CONSTANTS GuardObjects,  \* places in memory for objects of type ScopeExit
          MaxThrows      \* bound: exceptions of the function

ASSUME ScopeExitAssumption == MaxThrows \in Nat

VARIABLES
  called,      \* called[g]: is_called_ as "yes" or "no", "none": no object
  made,        \* has the function been given to an object?
  completed,   \* times the function has run to its end
  threw,       \* times it has thrown
  terminated   \* has std::terminate() been called?

guardVars == <<called, made, completed, threw, terminated>>

GuardInit ==
  /\ called = [g \in GuardObjects |-> "none"]
  /\ made = FALSE
  /\ completed = 0
  /\ threw = 0
  /\ terminated = FALSE

MakeGuard(g) ==
  /\ ~made
  /\ made' = TRUE
  /\ called' = [called EXCEPT ![g] = "no"]
  /\ UNCHANGED <<completed, threw, terminated>>

\* Mutant: the object that is moved from is not told that it is done.
MoveGuard_Shares(g, src) ==
  /\ called[g] = "none"
  /\ called[src] # "none"
  /\ called' = [called EXCEPT ![g] = called[src]]
  /\ UNCHANGED <<made, completed, threw, terminated>>

MoveGuard(g, src) ==
  /\ called[g] = "none"
  /\ called[src] # "none"
  /\ called' = [called EXCEPT ![g] = called[src], ![src] = "yes"]
  /\ UNCHANGED <<made, completed, threw, terminated>>

\* operator () of a guard that has not been called
Execute(g) ==
  /\ called[g] = "no"
  /\ called' = [called EXCEPT ![g] = "yes"]
  /\ completed' = completed + 1
  /\ UNCHANGED <<made, threw, terminated>>

ExecuteThrows(g) ==
  /\ called[g] = "no"
  /\ threw < MaxThrows
  /\ threw' = threw + 1
  /\ UNCHANGED <<called, made, completed, terminated>>

DestroyGuard(g) ==
  /\ called[g] # "none"
  /\ called' = [called EXCEPT ![g] = "none"]
  /\ completed' = completed + (IF called[g] = "no" THEN 1 ELSE 0)
  /\ UNCHANGED <<made, threw, terminated>>

DestructorThrows(g) ==
  /\ called[g] = "no"
  /\ threw < MaxThrows
  /\ threw' = threw + 1
  /\ terminated' = TRUE
  /\ UNCHANGED <<called, made, completed>>

GuardNext ==
  /\ ~terminated
  /\ \E g \in GuardObjects :
       \/ MakeGuard(g)
       \/ \E src \in GuardObjects : MoveGuard(g, src)
       \/ Execute(g)
       \/ ExecuteThrows(g)
       \/ DestroyGuard(g)
       \/ DestructorThrows(g)

GuardSpec == GuardInit /\ [][GuardNext]_guardVars

-----------------------------------------------------------------------------

(* The values of the variables are of their types. *)
GuardTypeOK ==
  /\ called \in [GuardObjects -> {"none", "no", "yes"}]
  /\ made \in BOOLEAN
  /\ completed \in Nat
  /\ threw \in 0 .. MaxThrows
  /\ terminated \in BOOLEAN

(***************************************************************************)
(* The function runs to its end once, not more often, over any number of   *)
(* moves, explicit calls and attempts that throw, and it has done so when  *)
(* all the objects are gone; until then exactly one of them would run it   *)
(* (util.hpp:344-361; tests/util.cpp tid_scope_exit).                      *)
(***************************************************************************)
GuardRunsOnce ==
  /\ completed <= 1
  /\ \A g, g2 \in GuardObjects :
       called[g] = "no" /\ called[g2] = "no" => g = g2
  /\ made /\ completed = 0 => \E g \in GuardObjects : called[g] = "no"
  /\ completed > 0 => \A g \in GuardObjects : called[g] # "no"
=============================================================================
