---------------------------- MODULE Expressions ----------------------------
(***************************************************************************)
(* The expressions of cor::notlisp (include/cor/notlisp.hpp), an expr_ptr  *)
(* each: what they are told apart by is their type, so an atom stands for  *)
(* its own text.  The pointer itself may be null.                          *)
(***************************************************************************)
CONSTANTS Keywords,   \* atoms that begin with a colon
          Integers,   \* atoms that strtol() reads to their end
          Reals       \* atoms that strtod() reads to their end: also inf, nan

ASSUME AtomAssumption ==
  /\ Integers \subseteq Reals
  /\ Keywords \cap Reals = {}

Null == [type |-> "Null"]
Nil == [type |-> "Nil"]
Text(type, text) == [type |-> type, is |-> text]
List(items) == [type |-> "Object", items |-> items]

\* default_atom_convert()
Convert(atom) ==
  CASE atom \in Keywords -> Text("Keyword", atom)
    [] atom \in Integers -> Text("Integer", atom)
    [] atom \in Reals \ Integers -> Text("Real", atom)
    [] OTHER -> Text("Symbol", atom)

\* What env->dict[name] is; for a name that is not there, null.
Lookup(dict, name) == IF name \in DOMAIN dict THEN dict[name] ELSE Null
=============================================================================
