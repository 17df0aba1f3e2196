------------------------------ MODULE NotLisp -------------------------------
(***************************************************************************)
(* cor::notlisp::Interpreter (src/notlisp.cpp) as the handler of           *)
(* cor::sexp::parse(): it evaluates while the parser reads.  A list is     *)
(* pushed when it opens, atoms are evaluated into the list on top, and a   *)
(* list that closes is called - its items evaluated once more - and its    *)
(* result put into the list below.                                         *)
(*                                                                         *)
(* The calls it gets are those SexpEvents allows.  Parsers come one after  *)
(* the other, with the same interpreter, whatever has become of it, or     *)
(* with a new one on the same environment.  (One that is moved hands all   *)
(* it has to the new object: it is the same one here.)                     *)
(***************************************************************************)
EXTENDS Expressions, Naturals, Sequences

CONSTANTS Atoms,          \* what on_atom() is called with
          Strings,        \* what on_string() is called with
          Environment,    \* env->dict at first
          Value(_, _),    \* eval(env, expr), given env->dict
          Names(_),       \* the names it looks up
          Apply(_, _, _), \* a function of the user's, given env->dict and parameters
          MaxAtoms,       \* bound: atoms and strings, in all inputs
          MaxLists,       \* bound: lists, in all inputs
          MaxParses       \* bound: inputs

ASSUME NotLispAssumption ==
  /\ MaxAtoms \in Nat
  /\ MaxLists \in Nat
  /\ MaxParses \in Nat \ {0}

VARIABLES
  depth, lexeme, status,   \* the parser, as in SexpEvents
  dict,                    \* env->dict
  stack,                   \* stack, the top first
  forms,                   \* history: what this parser read into each open list
  before,                  \* history: stack and dict when this parser began
  atoms, lists, parses     \* history: what is bounded

vars == <<depth, lexeme, status, dict, stack, forms, before,
          atoms, lists, parses>>

Parser == INSTANCE SexpEvents

-----------------------------------------------------------------------------
(* Evaluation. *)

\* Mutant: a name that is looked up is bound anew.
Affected_Rebound(d, items) ==
  LET looked == UNION {Names(items[i]) : i \in DOMAIN items}
  IN [name \in DOMAIN d \cup looked |-> IF name \in looked THEN Null ELSE d[name]]
\* The environment after eval(): dict[name] inserts a null pointer for a name that
\* is not there.
Affected(d, items) ==
  LET looked == UNION {Names(items[i]) : i \in DOMAIN items}
  IN [name \in DOMAIN d \cup looked |-> Lookup(d, name)]

\* eval() of a list
Values(d, items) == [i \in DOMAIN items |-> Value(d, items[i])]

\* What Apply() returns, and CallTop: whether something is returned or thrown.
Returned(value, d) == [ok |-> TRUE, value |-> value, dict |-> d, called |-> TRUE]
Threw(d) == [ok |-> FALSE, value |-> Null, dict |-> d, called |-> TRUE]
NotCalled(d) == [ok |-> FALSE, value |-> Null, dict |-> d, called |-> FALSE]

\* The head is evaluated and has to be a function; the rest is evaluated and
\* passed to it.
CallTop(d, list) ==
  IF list = <<>> THEN NotCalled(d)
  ELSE LET callee == Value(d, Head(list))
           found == Affected(d, <<Head(list)>>)
           params == Tail(list)
       IN IF callee.type # "Function" THEN NotCalled(found)
          ELSE Apply(callee, Affected(found, params), Values(found, params))

-----------------------------------------------------------------------------

EmptyStack == <<(<<>>)>>
PushBack(open, e) == <<Append(Head(open), e)>> \o Tail(open)

Init ==
  /\ Parser!Init
  /\ dict = Environment
  /\ stack = EmptyStack
  /\ forms = EmptyStack
  /\ before = [stack |-> stack, dict |-> dict]
  /\ atoms = 0
  /\ lists = 0
  /\ parses = 1

Reading == status = "reading" /\ UNCHANGED <<before, parses>>
AtomCounted == atoms < MaxAtoms /\ atoms' = atoms + 1 /\ UNCHANGED lists
ListCounted == lists < MaxLists /\ lists' = lists + 1 /\ UNCHANGED atoms

OnListBegin ==
  /\ Reading /\ ListCounted
  /\ Parser!OnListBegin
  /\ status' = "reading"
  /\ stack' = EmptyStack \o stack
  /\ forms' = EmptyStack \o forms
  /\ UNCHANGED dict

\* The parser collects a lexeme, of which the interpreter knows nothing yet.
LexemeBegins ==
  /\ Reading
  /\ Parser!LexemeBegins
  /\ lexeme' # "comment" => atoms < MaxAtoms
  /\ UNCHANGED <<dict, stack, forms, atoms, lists>>

OnAtom ==
  /\ Reading /\ AtomCounted
  /\ lexeme = "atom"
  /\ Parser!OnLexeme
  /\ status' = "reading"
  /\ \E atom \in Atoms :
       LET e == Convert(atom)
       IN /\ stack' = PushBack(stack, Value(dict, e))
          /\ dict' = Affected(dict, <<e>>)
          /\ forms' = PushBack(forms, e)

OnString ==
  /\ Reading /\ AtomCounted
  /\ lexeme = "string"
  /\ Parser!OnLexeme
  /\ status' = "reading"
  /\ \E s \in Strings :
       /\ stack' = PushBack(stack, Text("String", s))
       /\ forms' = PushBack(forms, Text("String", s))
  /\ UNCHANGED dict

OnComment ==
  /\ Reading
  /\ lexeme = "comment"
  /\ Parser!OnLexeme
  /\ status' = "reading"
  /\ UNCHANGED <<dict, stack, forms, atoms, lists>>

\* A list as it was read.
Form(items) == [type |-> "Form", items |-> items]

\* Mutant: the list that was called stays.
Below_NotPopped == stack
Below == Tail(stack)

\* An exception leaves the list on the stack, without its head if it came from the
\* function.
OnListEnd ==
  /\ Reading
  /\ Parser!OnListEnd
  /\ forms' = PushBack(Tail(forms), Form(Head(forms)))
  /\ LET call == CallTop(dict, Head(stack))
     IN /\ dict' = call.dict
        /\ \/ /\ call.ok
              /\ status' = "reading"
              /\ stack' = PushBack(Below, call.value)
           \/ /\ ~call.ok
              /\ status' = "failed"
              /\ stack' = IF call.called THEN <<Tail(Head(stack))>> \o Tail(stack)
                                         ELSE stack
  /\ UNCHANGED <<atoms, lists>>

\* The input is wrong, and parse() throws.
Rejected ==
  /\ Reading
  /\ Parser!Rejected
  /\ UNCHANGED <<dict, stack, forms, atoms, lists>>

OnEof ==
  /\ Reading
  /\ Parser!OnEof
  /\ status' = "done"
  /\ UNCHANGED <<dict, stack, forms, atoms, lists>>

-----------------------------------------------------------------------------
(* parse() has returned or thrown. *)

Parse(interpreterStack) ==
  /\ status \in {"done", "failed"}
  /\ parses < MaxParses
  /\ parses' = parses + 1
  /\ depth' = 0
  /\ lexeme' = "none"
  /\ status' = "reading"
  /\ stack' = interpreterStack
  /\ forms' = EmptyStack
  /\ before' = [stack |-> interpreterStack, dict |-> dict]
  /\ UNCHANGED <<dict, atoms, lists>>

ParseAgain == Parse(stack)
NewInterpreter == Parse(EmptyStack)

Over ==
  /\ status \in {"done", "failed"}
  /\ parses = MaxParses
  /\ UNCHANGED vars

Next ==
  \/ OnListBegin \/ OnListEnd \/ LexemeBegins
  \/ OnAtom \/ OnString \/ OnComment
  \/ Rejected \/ OnEof
  \/ ParseAgain \/ NewInterpreter \/ Over

Spec == Init /\ [][Next]_vars

-----------------------------------------------------------------------------

\* The stack follows the nesting of the input, whatever the functions do: while the
\* parser reads there is one list more for each that is open, with one item for each
\* form that was read into it, and below them is what an earlier parser has left,
\* untouched (src/notlisp.cpp:130-162, include/cor/notlisp.hpp:318-331).
StackFollowsParser ==
  status # "failed" =>
    /\ Len(stack) = Len(before.stack) + depth
    /\ \A i \in 1..depth : Len(stack[i]) = Len(forms[i])
    /\ Len(stack[depth + 1]) = Len(before.stack[1]) + Len(forms[depth + 1])
    /\ \A j \in 1..Len(before.stack[1]) : stack[depth + 1][j] = before.stack[1][j]
    /\ \A i \in 2..Len(before.stack) : stack[depth + i] = before.stack[i]
=============================================================================
