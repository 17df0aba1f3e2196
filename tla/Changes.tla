------------------------------ MODULE Changes ------------------------------
(***************************************************************************)
(* cor::apply_if_changed(), copy_apply_if_changed() and apply()            *)
(* (include/cor/util.hpp:451-679): for two tuples of the same type and a   *)
(* tuple of actions, the action of every field that differs is called with *)
(* its new value, and the number of those is returned; the copying variant *)
(* makes the first tuple equal to the second one on the way.               *)
(*                                                                         *)
(* One step is what is done for one field.  The recursion adds what this   *)
(* field and what the rest of the tuple return, and C++ leaves open which  *)
(* operand of a + is evaluated first: a field may be deferred until the    *)
(* fields behind it are done.  An action may throw: the exception leaves   *)
(* everything as it is at that point, and the caller may try again.        *)
(***************************************************************************)
EXTENDS Integers, FiniteSets

CONSTANTS Size,     \* the number of fields
          Contents  \* the values of a field

ASSUME ChangesAssumption == Size \in Nat \ {0}

Fields == 1 .. Size
Tuples == [Fields -> Contents]

VARIABLES
  mode,      \* "none" before the first call, or which function is called:
             \* "compare", "copy", "apply"
  values,    \* the first tuple: before, or values
  current,   \* the second tuple
  original,  \* values when the call began
  todo,      \* fields that are not yet done
  deferred,  \* fields to be done after those behind them
  counted,   \* what the additions so far amount to
  notified,  \* fields whose action has returned in this call
  synced,    \* synced[f]: what the action of f was last told by copying
  result     \* "none", "running", "threw" or "returned"

changesVars == <<mode, values, current, original, todo, deferred, counted,
                 notified, synced, result>>

ChangesInit ==
  /\ mode = "none"
  /\ \E x \in Contents : values = [f \in Fields |-> x]
  /\ current = values
  /\ original = values
  /\ todo = {}
  /\ deferred = {}
  /\ counted = 0
  /\ notified = {}
  /\ synced = values
  /\ result = "none"

\* apply() is a sequence of statements: nothing is deferred.
Begin(m, tuple, late) ==
  /\ result # "running"
  /\ m = "apply" => late = {} /\ tuple = values
  /\ mode' = m
  /\ current' = tuple
  /\ original' = values
  /\ todo' = Fields
  /\ deferred' = late
  /\ counted' = 0
  /\ notified' = {}
  /\ result' = "running"
  /\ UNCHANGED <<values, synced>>

\* TupleSelector::next(), and the way back out of the recursion.
IsNext(f) ==
  /\ f \in todo
  /\ IF todo \subseteq deferred
       THEN \A g \in todo : g <= f
       ELSE f \notin deferred /\ \A g \in todo \ deferred : f <= g

Differs(f) == mode = "apply" \/ current[f] # values[f]

Unchanged(f) ==
  /\ IsNext(f)
  /\ ~Differs(f)
  /\ todo' = todo \ {f}
  /\ UNCHANGED <<mode, values, current, original, deferred, counted,
                 notified, synced, result>>

Stored(f) == IF mode = "copy" THEN [values EXCEPT ![f] = current[f]] ELSE values

Notify(f) ==
  /\ IsNext(f)
  /\ Differs(f)
  /\ todo' = todo \ {f}
  /\ notified' = notified \cup {f}
  /\ values' = Stored(f)
  /\ synced' = IF mode = "copy" THEN [synced EXCEPT ![f] = current[f]] ELSE synced
  /\ counted' = IF mode = "apply" THEN 0 ELSE counted + 1
  /\ UNCHANGED <<mode, current, original, deferred, result>>

\* Mutant: the new value is stored before the action is called.
Throw_AfterStore(f) ==
  /\ IsNext(f)
  /\ Differs(f)
  /\ values' = Stored(f)
  /\ result' = "threw"
  /\ UNCHANGED <<mode, current, original, todo, deferred, counted, notified,
                 synced>>

\* What the action of f threw leaves the function.
Throw(f) ==
  /\ IsNext(f)
  /\ Differs(f)
  /\ result' = "threw"
  /\ UNCHANGED <<mode, values, current, original, todo, deferred, counted,
                 notified, synced>>

Return ==
  /\ todo = {}
  /\ result' = "returned"
  /\ UNCHANGED <<mode, values, current, original, todo, deferred, counted,
                 notified, synced>>

ChangesNext ==
  \/ \E m \in {"compare", "copy", "apply"}, tuple \in Tuples,
        late \in SUBSET (1 .. Size - 1) : Begin(m, tuple, late)
  \/ /\ result = "running"
     /\ \/ \E f \in Fields : Unchanged(f) \/ Notify(f) \/ Throw(f)
        \/ Return

ChangesSpec == ChangesInit /\ [][ChangesNext]_changesVars

-----------------------------------------------------------------------------

(* The values of the variables are of their types. *)
ChangesTypeOK ==
  /\ mode \in {"none", "compare", "copy", "apply"}
  /\ values \in Tuples
  /\ current \in Tuples
  /\ original \in Tuples
  /\ todo \in SUBSET Fields
  /\ deferred \in SUBSET (1 .. Size - 1)
  /\ counted \in Nat
  /\ notified \in SUBSET Fields
  /\ synced \in Tuples
  /\ result \in {"none", "running", "threw", "returned"}

Changed == {f \in Fields : original[f] # current[f]}

(***************************************************************************)
(* Whatever throws and however often it is tried again, the tuple holds    *)
(* for every field what its action was last told by copying, so that no    *)
(* change is lost; a call that returns has called the action of each field *)
(* that differed, of no other, returns their number, and has made the      *)
(* tuples equal if it copies (util.hpp:614-653).                           *)
(***************************************************************************)
ChangesDelivered ==
  /\ values = synced
  /\ mode # "copy" => values = original
  /\ result = "returned" =>
       /\ mode = "copy" => values = current
       /\ mode # "apply" => notified = Changed /\ counted = Cardinality(Changed)
       /\ mode = "apply" => notified = Fields
=============================================================================
