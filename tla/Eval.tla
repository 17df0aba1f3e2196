-------------------------------- MODULE Eval --------------------------------
(* eval() of one expression, and the methods do_eval() it calls. *)
EXTENDS Expressions, Sequences

\* SymbolExpr::do_eval() returns what the environment has for the name, null if
\* it has nothing; List::do_eval() evaluates a copy; eval() makes nil of null;
\* any other expression is its own value.
RECURSIVE ValueOf(_, _)
ValueOf(dict, e) ==
  CASE e.type = "Null" -> Nil
    [] e.type = "Symbol" -> Lookup(dict, e.is)
    [] e.type = "Object" -> List([i \in DOMAIN e.items |-> ValueOf(dict, e.items[i])])
    [] OTHER -> e

\* The names that eval() looks up, and so inserts.
RECURSIVE NamesIn(_)
NamesIn(e) ==
  CASE e.type = "Symbol" -> {e.is}
    [] e.type = "Object" -> UNION {NamesIn(e.items[i]) : i \in DOMAIN e.items}
    [] OTHER -> {}
=============================================================================
