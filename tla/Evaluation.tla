---------------------------- MODULE Evaluation -----------------------------
(***************************************************************************)
(* What an input of the interpreter means, told from the forms as they     *)
(* were written, one inside the other, and what the interpreter has to     *)
(* have made of them; with what its functions make of their parameters.    *)
(***************************************************************************)
EXTENDS NotLisp, ListAccessor

CONSTANTS IsExpr(_),      \* whether something is an expression
          Meaning(_, _)   \* the values of forms, given env->dict: after the
                          \* form that is added last, Then has the equation

(* The values of the variables are of their types: what the stack and the  *)
(* environment hold are expressions, of types that eval() and the          *)
(* accessors know; the stack is never empty.                               *)
TypeOK ==
  /\ depth \in 0..MaxLists
  /\ lexeme \in {"none", "comment", "atom", "string"}
  /\ status \in {"reading", "done", "failed"}
  /\ \A i \in DOMAIN stack : \A j \in DOMAIN stack[i] : IsExpr(stack[i][j])
  /\ \A name \in DOMAIN dict : IsExpr(dict[name])
  /\ Len(stack) \in 1..Len(before.stack) + depth + 1
  /\ Len(forms) = depth + 1
  /\ atoms \in 0..MaxAtoms /\ lists \in 0..MaxLists /\ parses \in 1..MaxParses

-----------------------------------------------------------------------------

Got(values, d) == [ok |-> TRUE, values |-> values, dict |-> d]
Failed(d) == [ok |-> FALSE, values |-> <<>>, dict |-> d]

\* A call: the parameters have been evaluated in order, and are evaluated again.
Called(values, d) ==
  LET callee == Value(d, values[1])
      params == [i \in 1..Len(values) - 1 |-> Value(d, values[i + 1])]
      result == Apply(callee, d, params)
  IN IF values = <<>> \/ callee.type # "Function" THEN Failed(d)
     ELSE IF result.ok THEN Got(<<result.value>>, result.dict)
     ELSE Failed(result.dict)

\* One form: a string is itself, a list is called with the values of its forms,
\* which are the inner ones.
FormMeaning(d, form, inner) ==
  IF form.type = "String" THEN Got(<<form>>, d)
  ELSE IF form.type # "Form" THEN Got(<<Value(d, form)>>, d)
  ELSE IF inner.ok THEN Called(inner.values, inner.dict)
  ELSE inner

\* One form more, this, behind those in front.
AndThis(front, this) ==
  IF ~front.ok THEN front
  ELSE IF this.ok THEN Got(front.values \o this.values, this.dict)
  ELSE this

MeaningOf(d, form) == FormMeaning(d, form, Meaning(d, form.items))

\* It sees what those in front have set.
Then(front, form) == AndThis(front, MeaningOf(front.dict, form))

SameBindings(d1, d2) ==
  \A name \in DOMAIN d1 \cup DOMAIN d2 : Lookup(d1, name) = Lookup(d2, name)

\* A function that makes the same of two environments.
SameResult(callee, params, d1, d2) ==
  LET result1 == Apply(callee, d1, params)
      result2 == Apply(callee, d2, params)
  IN /\ result1.ok <=> result2.ok
     /\ result1.ok => result1.value = result2.value
     /\ SameBindings(result1.dict, result2.dict)

(***************************************************************************)
(* Evaluation while parsing, with a stack of lists, comes to the same as   *)
(* evaluation of the forms as they were written: results() gets the values *)
(* in order, an exception comes if one of them has none and leaves its     *)
(* list on the stack, and the environment is what the functions have made  *)
(* of it, whatever was looked up (src/notlisp.cpp:130-171).                *)
(***************************************************************************)
EvaluatesAsWritten ==
  depth = 0 =>
    LET meaning == Meaning(before.dict, Head(forms))
    IN /\ SameBindings(dict, meaning.dict)
       /\ \/ /\ meaning.ok
             /\ stack = <<Head(before.stack) \o meaning.values>> \o Tail(before.stack)
          \/ ~meaning.ok /\ status = "failed" /\ Len(stack) = Len(before.stack) + 1

(***************************************************************************)
(* rest(src, arg, kwd_arg), called with any list there ever is, gives      *)
(* every parameter to one of the two functions (notlisp.hpp:440-457).      *)
(***************************************************************************)
RestGivesEachOnce == \A s \in DOMAIN stack : GivesEachOnce(stack[s])
=============================================================================
