----------------------------- MODULE MCNotLisp -----------------------------
(***************************************************************************)
(* NotLisp with eval(), a small environment and the functions a user might *)
(* write for it; and the evaluator the interpreter is compared with.       *)
(***************************************************************************)
EXTENDS Evaluation, Eval, SequencesExt

\* "list" makes a list (as in tests/notlisp.cpp), "quote" returns a symbol, "set"
\* binds x to a string or, without one, to null, "rest" sorts its parameters and
\* returns the last plain one.
Functions == {"list", "quote", "set", "rest"}
MCEnvironment ==
  [name \in Functions \cup {"x"} |->
     IF name = "x" THEN Text("Integer", "4") ELSE Text("Function", name)]

Bind(d, value) == [name \in DOMAIN d \cup {"x"} |-> IF name = "x" THEN value ELSE d[name]]

Set(d, params) ==
  LET got == RequiredAs(params, "String")
  IN IF ~Required(params).ok THEN Returned(Nil, Bind(d, Null))
     ELSE IF got.ok THEN Returned(Nil, Bind(d, got.value))
     ELSE Threw(d)

LastOfRest(d, params) ==
  LET given == Rest(params)
  IN IF Orphaned(given) THEN Threw(d)
     ELSE Returned(IF given.args = <<>> THEN Null ELSE Last(given.args), d)

MCApply(callee, d, params) ==
  CASE callee.is = "list" -> Returned(List(params), d)
    [] callee.is = "quote" -> Returned(Text("Symbol", "x"), d)
    [] callee.is = "set" -> Set(d, params)
    [] callee.is = "rest" -> LastOfRest(d, params)

\* None of them tells a name that is bound to null from one that is not bound: what
\* the proofs about evaluation suppose of functions.
ASSUME FunctionsLookUp ==
  LET unbound == [name \in Functions |-> MCEnvironment[name]]
      values == {Null, Nil, Text("Keyword", ":k"), Text("String", "s")}
  IN \A name \in Functions, params \in BoundedSeq(values, 3) :
       SameResult(Text("Function", name), params, unbound, Bind(unbound, Null))

-----------------------------------------------------------------------------

RECURSIVE MCIsExpr(_)
MCIsExpr(e) ==
  \/ e \in {Null, Nil}
  \/ /\ e.type \in {"Keyword", "Integer", "Real", "Symbol", "String", "Function"}
     /\ DOMAIN e = {"type", "is"}
     /\ e.type = "Function" => e.is \in Functions
  \/ e.type = "Object" /\ \A i \in DOMAIN e.items : MCIsExpr(e.items[i])

RECURSIVE MCMeaning(_, _)
MCMeaning(d, items) ==
  LET front == MCMeaning(d, Front(items))
      form == Last(items)
      inner == MCMeaning(front.dict, form.items)
  IN IF items = <<>> THEN Got(<<>>, d)
     ELSE AndThis(front, FormMeaning(front.dict, form, inner))
=============================================================================
