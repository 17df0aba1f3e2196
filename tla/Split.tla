------------------------------- MODULE Split -------------------------------
(***************************************************************************)
(* cor::split() and cor::join() (include/cor/util.hpp:376-449), one step   *)
(* of split() for each time round its loop.  Positions count from 0, as in *)
(* the code; characters are abstract.                                      *)
(***************************************************************************)
EXTENDS Integers, FiniteSets, SequencesExt

CONSTANTS Characters,
          Separators,   \* symbols: the characters to split at
          MaxLength     \* bound: characters of the source

ASSUME SplitAssumption == MaxLength \in Nat

npos == -1

VARIABLES
  src,        \* the string to split
  begin, end, \* of the part that is next; end may be npos
  parts,      \* what dst has been given
  splitting   \* "idle", "loop", "tail" or "done"

splitVars == <<src, begin, end, parts, splitting>>

\* s.find_first_of(symbols, from) finds this.
FindFirst(s, from, found) ==
  LET separators == {i \in from .. Len(s) - 1 : s[i + 1] \in Separators}
  IN  IF separators = {} THEN found = npos
      ELSE found \in separators /\ \A i \in separators : found <= i

\* src.substr(begin, end - begin): to the end when that is negative.
Part == IF end < begin THEN SubSeq(src, begin + 1, Len(src))
        ELSE SubSeq(src, begin + 1, end)

SplitInit ==
  /\ src = <<>>
  /\ begin = 0
  /\ end = npos
  /\ parts = <<>>
  /\ splitting = "idle"

\* split() is called, and looks for the first separator.
SplitBegin ==
  /\ splitting = "idle"
  /\ src' \in UNION {[1 .. n -> Characters] : n \in 0 .. MaxLength}
  /\ begin' = 0
  /\ end' \in npos .. MaxLength
  /\ FindFirst(src', 0, end')
  /\ parts' = <<>>
  /\ splitting' = "loop"

\* Mutant: the next part begins one character too late.
SplitStep_TooFar ==
  /\ splitting = "loop"
  /\ end # npos
  /\ parts' = Append(parts, Part)
  /\ begin' = end + 2
  /\ IF begin' >= Len(src) THEN splitting' = "tail" /\ UNCHANGED end
     ELSE /\ \E found \in npos .. Len(src) :
               FindFirst(src, begin', found) /\ end' = found
          /\ UNCHANGED splitting
  /\ UNCHANGED src

SplitStep ==
  /\ splitting = "loop"
  /\ end # npos
  /\ parts' = Append(parts, Part)
  /\ begin' = end + 1
  /\ \/ /\ begin' >= Len(src)
        /\ splitting' = "tail"
        /\ UNCHANGED end
     \/ /\ begin' < Len(src)
        /\ \E found \in npos .. Len(src) : FindFirst(src, begin', found) /\ end' = found
        /\ UNCHANGED splitting
  /\ UNCHANGED src

\* Mutant: nothing is left when the last separator ends the string.
SplitTail_Dropped ==
  /\ splitting = "tail" \/ (splitting = "loop" /\ end = npos)
  /\ parts' = IF begin < Len(src) THEN Append(parts, Part) ELSE parts
  /\ splitting' = "done"
  /\ UNCHANGED <<src, begin, end>>

SplitTail ==
  /\ splitting = "tail" \/ (splitting = "loop" /\ end = npos)
  /\ parts' = IF begin # end THEN Append(parts, Part) ELSE parts
  /\ splitting' = "done"
  /\ UNCHANGED <<src, begin, end>>

SplitNext == SplitBegin \/ SplitStep \/ SplitTail

SplitSpec == SplitInit /\ [][SplitNext]_splitVars

\* join(): the first string, then the separator and the string for the others.
Join(strings, sep) ==
  FlattenSeq([i \in DOMAIN strings |-> IF i = 1 THEN strings[i] ELSE sep \o strings[i]])

-----------------------------------------------------------------------------

(* The values of the variables are of their types. *)
SplitTypeOK ==
  /\ src \in Seq(Characters)
  /\ begin \in 0 .. Len(src)
  /\ end \in npos .. Len(src) - 1
  /\ parts \in Seq(Seq(Characters))
  /\ splitting \in {"idle", "loop", "tail", "done"}

\* How many characters of src are separators.
Cuts == Cardinality({i \in DOMAIN src : src[i] \in Separators})

\* src with separator s for all the separators.
Uniform(s) == [i \in DOMAIN src |-> IF src[i] \in Separators THEN s ELSE src[i]]

(***************************************************************************)
(* split() loses and invents nothing: there is one part more than there    *)
(* are separators, also at the ends and for an empty string, no part has   *)
(* a separator, and join() of the parts with a separator gives the string  *)
(* back (util.hpp:383-399, 411-435; tests/util.cpp tid_string_split).      *)
(***************************************************************************)
JoinUndoesSplit ==
  splitting = "done" =>
    /\ Len(parts) = Cuts + 1
    /\ \A i \in DOMAIN parts : \A j \in DOMAIN parts[i] :
         parts[i][j] \notin Separators
    /\ \A s \in Separators : Join(parts, <<s>>) = Uniform(s)
=============================================================================
