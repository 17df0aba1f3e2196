----------------------------- MODULE SexpEvents -----------------------------
(***************************************************************************)
(* What cor::sexp::parse() promises its handler (include/cor/sexp.hpp):    *)
(* lists open and close like brackets, atoms, strings and comments are     *)
(* reported whole, on_eof() is the last call, and no call follows an       *)
(* exception - the parser's own, or one the handler has thrown.            *)
(***************************************************************************)
EXTENDS Naturals

VARIABLES
  depth,    \* lists that are open
  lexeme,   \* what is being read: "none", "comment", "atom" or "string"
  status    \* "reading", "done" or "failed"

vars == <<depth, lexeme, status>>

Init ==
  /\ depth = 0
  /\ lexeme = "none"
  /\ status = "reading"

\* The handler is called and returns or throws.
HandlerCalled == status' \in {"reading", "failed"}

OnListBegin ==
  /\ lexeme = "none"
  /\ depth' = depth + 1
  /\ HandlerCalled
  /\ UNCHANGED lexeme

OnListEnd ==
  /\ lexeme = "none"
  /\ depth > 0
  /\ depth' = depth - 1
  /\ HandlerCalled
  /\ UNCHANGED lexeme

LexemeBegins ==
  /\ lexeme = "none"
  /\ lexeme' \in {"comment", "atom", "string"}
  /\ UNCHANGED <<depth, status>>

\* on_comment(), on_atom() or on_string()
OnLexeme ==
  /\ lexeme # "none"
  /\ lexeme' = "none"
  /\ HandlerCalled
  /\ UNCHANGED depth

\* The input is wrong.
Rejected ==
  /\ status' = "failed"
  /\ UNCHANGED <<depth, lexeme>>

\* Open lists are not looked at.  Nor is a lexeme that ends in an escape.
OnEof ==
  /\ status' \in {"done", "failed"}
  /\ UNCHANGED <<depth, lexeme>>

Next ==
  /\ status = "reading"
  /\ \/ OnListBegin
     \/ OnListEnd
     \/ LexemeBegins
     \/ OnLexeme
     \/ Rejected
     \/ OnEof

Spec == Init /\ [][Next]_vars
=============================================================================
