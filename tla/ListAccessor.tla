---------------------------- MODULE ListAccessor ----------------------------
(***************************************************************************)
(* cor::notlisp::ListAccessor (include/cor/notlisp.hpp), with which a      *)
(* function takes its parameters from the front.  "left" are those between *)
(* cur and end.                                                            *)
(***************************************************************************)
EXTENDS Expressions, Integers, Sequences, FiniteSets

Taken(value, left) == [ok |-> TRUE, value |-> value, left |-> left]
Refused(left) == [ok |-> FALSE, value |-> Null, left |-> left]

\* optional(dst), and required(), which throws if there is none.
Required(left) ==
  IF left = <<>> THEN Refused(left) ELSE Taken(Head(left), Tail(left))

\* required(convert, dst) with to_string, to_long or to_double: the parameter is
\* taken even if it is not of the type.
RequiredAs(left, type) ==
  LET got == Required(left)
  IN IF got.value.type = type THEN got ELSE Refused(got.left)

\* One turn of the loop in rest(src, arg, kwd_arg): what follows a keyword is its
\* value, another keyword included.
\* Mutant: the keyword is kept after its value.
RestStep_KeyKept(given, v) ==
  CASE given.key = Null /\ v.type = "Keyword" -> [given EXCEPT !.key = v]
    [] given.key = Null /\ v.type # "Keyword" -> [given EXCEPT !.args = Append(@, v)]
    [] OTHER -> [given EXCEPT !.pairs = Append(@, <<given.key, v>>)]
RestStep(given, v) ==
  CASE given.key = Null /\ v.type = "Keyword" -> [given EXCEPT !.key = v]
    [] given.key = Null /\ v.type # "Keyword" -> [given EXCEPT !.args = Append(@, v)]
    [] OTHER -> [given EXCEPT !.pairs = Append(@, <<given.key, v>>), !.key = Null]

Unpaired == [args |-> <<>>, pairs |-> <<>>, key |-> Null]

\* rest(src, arg, kwd_arg); a key that is left over is "Orphaned keyword".
Rest(left) ==
  LET given[n \in 0..Len(left)] ==
        IF n = 0 THEN Unpaired ELSE RestStep(given[n - 1], left[n])
  IN given[Len(left)]
Orphaned(given) == given.key # Null

-----------------------------------------------------------------------------

\* A keyword is a key unless it is the value of another: of the keywords in a row
\* that end here, the first is one, the second not, and so on.
IsKey(items, i) ==
  \E n \in 1..i :
    /\ n % 2 = 1
    /\ \A k \in i - n + 1..i : items[k].type = "Keyword"
    /\ i = n \/ items[i - n].type # "Keyword"

IsValue(items, i) == i > 1 /\ IsKey(items, i - 1)

Keys(items) == {i \in 1..Len(items) - 1 : IsKey(items, i)}
Plain(items) == {i \in 1..Len(items) : ~IsKey(items, i) /\ ~IsValue(items, i)}

\* The place of i in S, in order.
Place(S, i) == Cardinality({j \in S : j <= i})

\* Each parameter goes to one of the two functions, in order, each key with what
\* follows it, whatever that is; and it is known when the last key has no value.
GivesEachOnce(items) ==
  LET given == Rest(items)
      keys == Keys(items)
      plain == Plain(items)
  IN /\ Len(given.args) = Cardinality(plain)
     /\ \A i \in plain : given.args[Place(plain, i)] = items[i]
     /\ Len(given.pairs) = Cardinality(keys)
     /\ \A i \in keys : given.pairs[Place(keys, i)] = <<items[i], items[i + 1]>>
     /\ Orphaned(given) <=> items # <<>> /\ IsKey(items, Len(items))
=============================================================================
