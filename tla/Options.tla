------------------------------ MODULE Options ------------------------------
(***************************************************************************)
(* cor::OptParse::parse() (include/cor/options.hpp:120-238): one step per  *)
(* argument, with the stage, the name and is_leave_param that it carries   *)
(* from one argument to the next.  The caller may parse again into the     *)
(* same opts and params, also after an exception; what has been put there  *)
(* stays.                                                                  *)
(*                                                                         *)
(* An argument is what the parser tells apart: the number of its dashes,   *)
(* the character or the string that names the option - or the whole word   *)
(* when there is no dash - and what follows the name, if anything does.    *)
(* "-" and "--" are short options nobody has defined.  The strings that    *)
(* update_opt() joins with commas are a sequence.                          *)
(***************************************************************************)
EXTENDS Integers, Sequences, SequencesExt

CONSTANTS
  ShortOpts(_),     \* short_opts_: the item of a character, or NoItem
  LongOpts(_),      \* long_opts_: the item of a string, or NoItem
  OptWithParams,    \* opt_with_params_
  LeaveInParams,    \* leave_in_params_
  Letters, Strings, \* what may follow one dash, and two
  Words,            \* words without a dash
  NoItem, Nothing,  \* nothing found, nothing follows the name
  EmptyWord,        \* ""
  MaxArguments      \* bound: arguments, in all the calls together

ASSUME OptionsAssumption ==
  /\ MaxArguments \in Nat
  /\ EmptyWord \notin Words
  /\ Nothing \notin Words \cup {EmptyWord}
  /\ NoItem \notin OptWithParams

Argument(dashes, key, rest) == [dashes |-> dashes, key |-> key, rest |-> rest]
Word(w) == Argument(0, w, Nothing)

Arguments ==
  {Word(w) : w \in Words \cup {EmptyWord}}
    \cup {Argument(1, c, r) : c \in Letters, r \in Words \cup {Nothing}}
    \cup {Argument(2, s, r) : s \in Strings,
                              r \in Words \cup {EmptyWord, Nothing}}

\* In the history of arguments: the next call of parse() begins here.
NextCall == Argument(0, Nothing, Nothing)

Item(a) == CASE a.dashes = 1 -> ShortOpts(a.key)
             [] a.dashes = 2 -> LongOpts(a.key)
             [] OTHER -> NoItem

VARIABLES
  argv,       \* the arguments so far
  stage,      \* "option" or "opt_param"
  item,       \* name: the item the last option stands for
  leave,      \* is_leave_param
  opts,       \* the caller's map, from items to what has been joined
  params,     \* the caller's vector
  thrown      \* "none", or what parse() has thrown

optionVars == <<argv, stage, item, leave, opts, params, thrown>>

OptionsInit ==
  /\ argv = <<>>
  /\ stage = "option"
  /\ item = NoItem
  /\ leave = FALSE
  /\ opts = <<>>
  /\ params = <<>>
  /\ thrown = "none"

SetOpt(n, values) ==
  [i \in DOMAIN opts \cup {n} |-> IF i = n THEN values ELSE opts[i]]

\* Mutant: a parameter that is given again replaces the one before.
UpdateOpt_Overwrites(n, value) == SetOpt(n, <<value>>)

UpdateOpt(n, value) ==
  SetOpt(n, IF n \in DOMAIN opts THEN Append(opts[n], value) ELSE <<value>>)

ParamsWith(condition, s) == IF condition THEN params \o s ELSE params

\* What is not an option, or none that is known, goes to params.
ProcessParam(a) ==
  /\ stage = "option"
  /\ Item(a) = NoItem
  /\ params' = Append(params, a)
  /\ UNCHANGED <<stage, item, leave, opts, thrown>>

\* The beginning parse_short() and parse_long() have in common.
Recognized(a) ==
  /\ stage = "option"
  /\ Item(a) # NoItem
  /\ item' = Item(a)
  /\ leave' = (Item(a) \in LeaveInParams)

ParseFlag(a) ==
  /\ Recognized(a)
  /\ Item(a) \notin OptWithParams
  /\ params' = ParamsWith(leave', <<a>>)
  /\ IF a.dashes = 2 /\ a.rest # Nothing
       THEN thrown' = "cor::Error" /\ UNCHANGED opts
       ELSE opts' = SetOpt(Item(a), <<EmptyWord>>) /\ UNCHANGED thrown
  /\ UNCHANGED stage

ParseInline(a) ==
  /\ Recognized(a)
  /\ Item(a) \in OptWithParams
  /\ a.rest # Nothing
  /\ opts' = UpdateOpt(Item(a), a.rest)
  /\ params' = ParamsWith(leave',
                 IF a.dashes = 1 THEN <<a, Word(a.rest)>> ELSE <<a>>)
  /\ UNCHANGED <<stage, thrown>>

ParseOptionWithParam(a) ==
  /\ Recognized(a)
  /\ Item(a) \in OptWithParams
  /\ a.rest = Nothing
  /\ stage' = "opt_param"
  /\ params' = ParamsWith(leave', <<a>>)
  /\ UNCHANGED <<opts, thrown>>

ParseOptParam(a) ==
  /\ stage = "opt_param"
  /\ IF a.dashes > 0
       THEN thrown' = "std::logic_error" /\ UNCHANGED <<stage, opts, params>>
       ELSE /\ opts' = UpdateOpt(item, a.key)
            /\ params' = ParamsWith(leave, <<a>>)
            /\ stage' = "option"
            /\ UNCHANGED thrown
  /\ UNCHANGED <<item, leave>>

SkipEmpty(a) ==
  /\ a = Word(EmptyWord)
  /\ UNCHANGED <<stage, item, leave, opts, params, thrown>>

Process(a) ==
  /\ thrown = "none"
  /\ argv' = Append(argv, a)
  /\ \/ SkipEmpty(a)
     \/ /\ a # Word(EmptyWord)
        /\ \/ ProcessParam(a)
           \/ ParseFlag(a)
           \/ ParseInline(a)
           \/ ParseOptionWithParam(a)
           \/ ParseOptParam(a)

\* parse() has returned or thrown, and is called with the same containers.
ParseAgain ==
  /\ argv' = Append(argv, NextCall)
  /\ stage' = "option"
  /\ item' = NoItem
  /\ leave' = FALSE
  /\ thrown' = "none"
  /\ UNCHANGED <<opts, params>>

OptionsNext ==
  /\ Len(argv) < MaxArguments
  /\ (\E a \in Arguments : Process(a)) \/ ParseAgain

OptionsSpec == OptionsInit /\ [][OptionsNext]_optionVars

-----------------------------------------------------------------------------

(* The values of the variables are of their types. *)
OptionsTypeOK ==
  /\ argv \in Seq(Arguments \cup {NextCall})
  /\ stage \in {"option", "opt_param"}
  /\ leave \in BOOLEAN
  /\ DOMAIN opts \subseteq
       {ShortOpts(c) : c \in Letters} \cup {LongOpts(s) : s \in Strings}
  /\ params \in Seq(Arguments)
  /\ thrown \in {"none", "cor::Error", "std::logic_error"}

(***************************************************************************)
(* What argv means, told from the arguments alone: an argument is the      *)
(* parameter of the option before it, empty ones not counted, when that    *)
(* option is known, takes one, and has none in its own argument.           *)
(***************************************************************************)
Wants(a) == Item(a) \in OptWithParams /\ a.rest = Nothing

IsParam(i) ==
  \E j \in 1 .. i - 1 :
    /\ Wants(argv[j])
    /\ \A k \in j + 1 .. i - 1 : argv[k] = Word(EmptyWord)
    /\ argv[i] \notin {Word(EmptyWord), NextCall}

OptionOf(i) ==
  LET before == {j \in 1 .. i - 1 : Wants(argv[j])}
  IN  Item(argv[CHOOSE j \in before : \A k \in before : k <= j])

\* What argument i adds to the value of item n, and to params.
ValueOf(n, i) ==
  LET a == argv[i] IN
  IF IsParam(i) THEN IF OptionOf(i) = n /\ a.dashes = 0 THEN <<a.key>> ELSE <<>>
  ELSE IF Item(a) = n /\ n \in OptWithParams /\ a.rest # Nothing
    THEN <<a.rest>> ELSE <<>>

Bad(i) ==
  IF IsParam(i) THEN argv[i].dashes > 0
  ELSE /\ argv[i].dashes = 2 /\ argv[i].rest # Nothing
       /\ Item(argv[i]) \notin OptWithParams \cup {NoItem}

LeftOf(i) ==
  LET a == argv[i]
      n == IF IsParam(i) THEN OptionOf(i) ELSE Item(a)
  IN  IF \/ a \in {NextCall, Word(EmptyWord)}
         \/ n \notin LeaveInParams \cup {NoItem}
         \/ IsParam(i) /\ Bad(i)
        THEN <<>>
      ELSE IF a.dashes = 1 /\ n \in OptWithParams /\ a.rest # Nothing
        THEN <<a, Word(a.rest)>>
      ELSE <<a>>

IsSet(n) == \E i \in 1 .. Len(argv) :
  ~IsParam(i) /\ Item(argv[i]) = n /\ n \notin OptWithParams /\ ~Bad(i)

Gathered(n) == FlattenSeq([i \in 1 .. Len(argv) |-> ValueOf(n, i)])

(***************************************************************************)
(* After every argument of every call, opts has for each item all the      *)
(* parameters given for it in their order, params is what was not an       *)
(* option and what is to be left there in its order, and an exception is   *)
(* thrown by the first argument that is wrong and only by such a one       *)
(* (options.hpp:132-236 against the comments at 50-55 and 115-119).         *)
(***************************************************************************)
OptionsAsWritten ==
  /\ \A n \in DOMAIN opts : opts[n] = IF n \in OptWithParams
                                        THEN Gathered(n) ELSE <<EmptyWord>>
  /\ \A a \in Arguments : LET n == Item(a) IN
       n # NoItem => (n \in DOMAIN opts <=> IsSet(n) \/ Gathered(n) # <<>>)
  /\ params = FlattenSeq([i \in 1 .. Len(argv) |-> LeftOf(i)])
  /\ thrown # "none" <=> argv # <<>> /\ Bad(Len(argv))
=============================================================================
