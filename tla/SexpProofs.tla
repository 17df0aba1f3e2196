----------------------------- MODULE SexpProofs -----------------------------
(***************************************************************************)
(* What is proved about cor::sexp::parse(), for inputs of any length over  *)
(* any alphabet, with signed and with unsigned char.                       *)
(***************************************************************************)
EXTENDS Sexp, Induction, SequenceTheorems, TLAPS

-----------------------------------------------------------------------------
(* The inductive invariant.  That a rule popped is the right one, and that   *)
(* what is collected is a byte, rests on the shape of the stack of rules and *)
(* of hex_byte under each rule.                                              *)

\* Which rules lie under the one in force: none but in an escape, and there
\* those of the atom or string the escape is in.
ContextOK ==
  /\ rule \in {"top"} \cup Lexemes => ctx = <<>>
  /\ rule \in {"append_escaped", "append_escaped_hex"} =>
       ctx = <<"in_atom">> \/ ctx = <<"in_string">>
  /\ rule = "in_hex" =>
       \/ ctx = <<"append_escaped_hex", "in_atom">>
       \/ ctx = <<"append_escaped_hex", "in_string">>

\* The first digit is the high one.
HexOK == rule = "in_hex" => hexByte = -1 \/ \E d \in 0..15 : hexByte = 16 * d

IInv == TypeOK /\ ContextOK /\ HexOK

USE SexpAssumption DEF Rules, Lexemes, Stages

-----------------------------------------------------------------------------
(* Characters. *)

\* A byte as the rules see it is an int they can turn back into a byte.
LEMMA Bytes ==
  /\ \A b \in 0..255 : AsInt(b) \in -128..255
  /\ \A c \in -128..255 : AsByte(c) \in 0..255 /\ Unescaped(c) \in 0..255
  /\ \A c \in -128..255 : Hex(c) \in -1..15
<1>1. \A b \in 0..255 : AsInt(b) \in -128..255
  BY DEF AsInt
<1>2. \A c \in -128..255 : AsByte(c) \in 0..255
  BY DEF AsByte
<1>3. \A c \in -128..255 : Unescaped(c) \in 0..255
  <2>1. SUFFICES ASSUME NEW c \in -128..255 PROVE Unescaped(c) \in 0..255
    OBVIOUS
  <2>2. CASE c \in {110, 116, 114, 97, 98, 118}
    BY <2>2 DEF Unescaped
  <2>3. CASE c \notin {110, 116, 114, 97, 98, 118}
    <3>1. Unescaped(c) = AsByte(c)
      BY <2>3 DEF Unescaped
    <3> QED
      BY <3>1, <1>2
  <2> QED
    BY <2>2, <2>3
<1>4. \A c \in -128..255 : Hex(c) \in -1..15
  BY DEF Hex
<1> QED
  BY <1>1, <1>2, <1>3, <1>4

\* One hexadecimal digit, and two.
LEMMA Digits ==
  /\ \A n \in 0..15 : 16 * n \in -1..255
  /\ \A d, n \in 0..15 : 16 * d + n \in -1..255
OBVIOUS

\* The stacks of rules there are, pushed and popped.
LEMMA Stacks ==
  /\ \A a \in Rules : /\ <<a>> \o <<>> = <<a>>
            /\ Head(<<a>>) = a
            /\ Tail(<<a>>) = <<>>
            /\ Len(<<a>>) = 1
  /\ \A a, b \in Rules : /\ <<a>> \o <<b>> = <<a, b>>
               /\ Head(<<a, b>>) = a
               /\ Tail(<<a, b>>) = <<b>>
               /\ Len(<<a, b>>) = 2
<1>1. ASSUME NEW a \in Rules
      PROVE  <<a>> \o <<>> = <<a>> /\ Head(<<a>>) = a /\ Tail(<<a>>) = <<>> /\ Len(<<a>>) = 1
  OBVIOUS
<1>2. ASSUME NEW a \in Rules, NEW b \in Rules
      PROVE  <<a>> \o <<b>> = <<a, b>>
  <2>1. /\ <<a>> \in Seq(Rules) /\ <<b>> \in Seq(Rules)
        /\ Len(<<a>>) = 1 /\ Len(<<b>>) = 1
        /\ <<a, b>> \in Seq(Rules) /\ Len(<<a, b>>) = 2
    OBVIOUS
  <2>2. /\ Len(<<a>> \o <<b>>) = 2
        /\ <<a>> \o <<b>> \in Seq(Rules)
    BY <2>1
  <2>3. (<<a>> \o <<b>>)[1] = a /\ (<<a>> \o <<b>>)[2] = b
    BY <2>1
  <2>4. \A i \in 1..Len(<<a>> \o <<b>>) : (<<a>> \o <<b>>)[i] = <<a, b>>[i]
    BY <2>2, <2>3
  <2> QED
    BY <2>1, <2>2, <2>4, SeqEqual
<1>3. ASSUME NEW a \in Rules, NEW b \in Rules
      PROVE  /\ Head(<<a, b>>) = a
             /\ Tail(<<a, b>>) = <<b>>
             /\ Len(<<a, b>>) = 2
  OBVIOUS
<1> QED
  BY <1>1, <1>2, <1>3

-----------------------------------------------------------------------------

\* The initial state satisfies the invariant.
LEMMA InitIInv == Init => IInv
<1> SUFFICES ASSUME Init PROVE IInv
  OBVIOUS
<1>1. rule \in Rules /\ stage \in Stages /\ level \in Nat /\ start \in Nat
  BY DEF Init
<1>2. /\ ctx \in Seq(Rules)
      /\ data \in Seq(0..255)
      /\ read \in Seq(Alphabet)
      /\ told \in Seq(0..255)
  BY DEF Init
<1>3. hexByte \in -1..255 /\ char \in -128..255
  BY DEF Init, Eos
<1>4. ContextOK /\ HexOK
  BY DEF Init, ContextOK, HexOK
<1> QED
  BY <1>1, <1>2, <1>3, <1>4 DEF IInv, TypeOK

\* The stack of rules and hex_byte keep their shape.
LEMMA StepContextOK ==
  ASSUME IInv, [Next]_vars
  PROVE  ContextOK' /\ HexOK' /\ ctx' \in Seq(Rules) /\ rule' \in Rules
<1> USE DEF IInv, TypeOK
<1> DEFINE Shape == ContextOK' /\ HexOK' /\ ctx' \in Seq(Rules) /\ rule' \in Rules
<1>1. ASSUME UNCHANGED <<rule, ctx, hexByte>> PROVE Shape
  BY <1>1 DEF ContextOK, HexOK
<1>2. ASSUME rule' \in {"top"} \cup Lexemes, ctx' = <<>> PROVE Shape
  BY <1>2 DEF ContextOK, HexOK
<1>3. CASE Get \/ GetEnd \/ OnEof \/ Over \/ UNCHANGED vars
  BY <1>1, <1>3 DEF Get, GetEnd, OnEof, Over, vars, lexVars
<1>4. CASE ListEnd \/ ListBegin \/ Space
  BY <1>1, <1>4 DEF ListEnd, ListBegin, Space, Throw, lexVars
<1>5. CASE StringUnlimited \/ EscapeEos \/ Ordinary
  BY <1>1, <1>5 DEF StringUnlimited, EscapeEos, Ordinary, Throw, lexVars
<1>6. CASE CommentBegins \/ StringBegins \/ AtomBegins
  <2>1. rule = "top" /\ ctx' = ctx /\ rule' \in Lexemes
    BY <1>6 DEF CommentBegins, StringBegins, AtomBegins, Calls, Use
  <2> QED
    BY <1>2, <2>1 DEF ContextOK
<1>7. CASE CommentEnds \/ StringEnds \/ AtomEnds
  <2>1. rule \in Lexemes /\ ctx' = ctx /\ rule' = "top"
    BY <1>7 DEF CommentEnds, StringEnds, AtomEnds, Report, Calls, Use, AfterLexeme
  <2> QED
    BY <1>2, <2>1 DEF ContextOK
<1>8. CASE EscapeBegins
  <2>1. /\ rule \in {"in_string", "in_atom"} /\ ctx = <<>>
        /\ ctx' = <<rule>> \o ctx /\ rule' = "append_escaped"
    BY <1>8 DEF EscapeBegins, Calls, Push, ContextOK
  <2>2. ctx' = <<rule>>
    BY <2>1, Stacks
  <2> QED
    BY <2>1, <2>2 DEF ContextOK, HexOK
<1>9. CASE HexBegins
  <2>1. PICK r \in {"in_string", "in_atom"} : ctx = <<r>>
    BY <1>9 DEF HexBegins, Calls, ContextOK
  <2>2. ctx' = <<"append_escaped_hex">> \o <<r>> /\ rule' = "in_hex" /\ hexByte' = -1
    BY <1>9, <2>1 DEF HexBegins, Push
  <2>3. ctx' = <<"append_escaped_hex", r>>
    BY <2>2, Stacks
  <2>4. ContextOK'
    BY <2>2, <2>3 DEF ContextOK
  <2>5. HexOK' /\ rule' \in Rules
    BY <2>2 DEF HexOK
  <2>6. ctx' \in Seq(Rules)
    <3>1. "append_escaped_hex" \in Rules /\ r \in Rules
      OBVIOUS
    <3> HIDE DEF Rules
    <3> QED
      BY <2>3, <3>1
  <2> QED
    BY <2>4, <2>5, <2>6
<1>10. CASE Escaped
  <2>1. PICK r \in {"in_string", "in_atom"} : ctx = <<r>>
    BY <1>10 DEF Escaped, Calls, ContextOK
  <2>2. rule' = Head(<<r>>) /\ ctx' = Tail(<<r>>)
    BY <1>10, <2>1 DEF Escaped, Pop, Popped
  <2> QED
    BY <1>2, <2>2, Stacks
<1>11. CASE FirstDigit
  <2>1. Hex(char) \in 0..15 /\ hexByte' = 16 * Hex(char)
    <3>1. Hex(char) \in -1..15
      BY Bytes
    <3> QED
      BY <1>11, <3>1 DEF FirstDigit
  <2> QED
    BY <1>11, <2>1 DEF FirstDigit, ContextOK, HexOK
<1>12. CASE HexEnds
  <2>1. PICK r \in {"in_string", "in_atom"} : ctx = <<"append_escaped_hex", r>>
    BY <1>12 DEF HexEnds, Calls, ContextOK
  <2>2. rule' = "append_escaped_hex" /\ ctx' = <<r>>
    <3>1. rule' = Head(ctx) /\ ctx' = Tail(ctx)
      BY <1>12 DEF HexEnds, Pop, Popped
    <3> QED
      BY <3>1, <2>1, Stacks
  <2> QED
    BY <2>2 DEF ContextOK, HexOK
<1>13. CASE AppendHex
  <2>1. PICK r \in {"in_string", "in_atom"} : ctx = <<r>>
    BY <1>13 DEF AppendHex, Calls, ContextOK
  <2>2. CASE NoDigits
    BY <1>1, <1>13, <2>2 DEF AppendHex, Throw, lexVars
  <2>3. CASE ~NoDigits
    <3>1. rule' = Head(<<r>>) /\ ctx' = Tail(<<r>>)
      BY <1>13, <2>1, <2>3 DEF AppendHex, Pop, Popped
    <3> QED
      BY <1>2, <3>1, Stacks
  <2> QED
    BY <2>2, <2>3
<1> QED
  BY <1>3, <1>4, <1>5, <1>6, <1>7, <1>8, <1>9, <1>10, <1>11, <1>12, <1>13
     DEF Next, RuleCalled

\* What is collected are bytes.
LEMMA StepTypeOK == ASSUME IInv, [Next]_vars PROVE TypeOK'
<1> USE DEF IInv, TypeOK
<1>1. rule' \in Rules /\ ctx' \in Seq(Rules)
  BY StepContextOK
<1>2. stage' \in Stages
  <2>1. CASE Get \/ GetEnd \/ OnEof \/ Over \/ UNCHANGED vars
    BY <2>1 DEF Get, GetEnd, OnEof, Over, vars
  <2>2. CASE RuleCalled
    BY <2>2 DEF RuleCalled, ListEnd, ListBegin, CommentBegins, Space, StringBegins,
       AtomBegins, CommentEnds, StringEnds, AtomEnds, StringUnlimited, Ordinary,
       EscapeBegins, EscapeEos, HexBegins, Escaped, FirstDigit, HexEnds, AppendHex,
       Report, Tells, Skip, Stay, Throw, Calls
  <2> QED
    BY <2>1, <2>2 DEF Next
<1>3. /\ level' \in Nat
      /\ start' \in Nat
  <2>1. CASE ListEnd \/ ListBegin
    BY <2>1 DEF ListEnd, ListBegin, MayClose, Throw, lexVars
  <2>2. CASE CommentBegins \/ StringBegins \/ AtomBegins
    BY <2>2 DEF CommentBegins, StringBegins, AtomBegins
  <2>3. CASE UNCHANGED <<level, start>>
    BY <2>3
  <2>4. CASE Get \/ GetEnd \/ OnEof \/ Over \/ UNCHANGED vars
    BY <2>3, <2>4 DEF Get, GetEnd, OnEof, Over, vars, lexVars
  <2>5. CASE Space \/ CommentEnds \/ StringEnds \/ AtomEnds \/ StringUnlimited \/ Ordinary
    BY <2>3, <2>5 DEF Space, CommentEnds, StringEnds, AtomEnds, StringUnlimited,
       Ordinary, Report, Throw, lexVars
  <2>6. CASE EscapeBegins \/ EscapeEos \/ HexBegins \/ Escaped \/ FirstDigit \/ HexEnds
             \/ AppendHex
    BY <2>3, <2>6 DEF EscapeBegins, EscapeEos, HexBegins, Escaped, FirstDigit, HexEnds,
       AppendHex, Throw, lexVars
  <2> QED
    BY <2>1, <2>2, <2>4, <2>5, <2>6 DEF Next, RuleCalled
<1>4. char' \in -128..255 /\ read' \in Seq(Alphabet)
  <2>1. CASE Get
    <3>1. PICK byte \in Alphabet : read' = Append(read, byte) /\ char' = AsInt(byte)
      BY <2>1 DEF Get
    <3>2. Append(read, byte) \in Seq(Alphabet)
      BY <3>1, AppendProperties
    <3>3. AsInt(byte) \in -128..255
      BY Bytes
    <3> QED
      BY <3>1, <3>2, <3>3
  <2>2. CASE GetEnd
    BY <2>2 DEF GetEnd, Eos
  <2>3. CASE UNCHANGED <<char, read>>
    BY <2>3
  <2>4. CASE OnEof \/ Over \/ UNCHANGED vars
    BY <2>3, <2>4 DEF OnEof, Over, vars
  <2>5. CASE RuleCalled
    BY <2>3, <2>5 DEF RuleCalled, ListEnd, ListBegin, CommentBegins, Space,
       StringBegins, AtomBegins, CommentEnds, StringEnds, AtomEnds, StringUnlimited,
       Ordinary, EscapeBegins, EscapeEos, HexBegins, Escaped, FirstDigit, HexEnds,
       AppendHex, Report
  <2> QED
    BY <2>1, <2>2, <2>4, <2>5 DEF Next
<1>5. hexByte' \in -1..255
  <2>1. CASE UNCHANGED hexByte
    BY <2>1
  <2>2. CASE Get \/ GetEnd \/ OnEof \/ Over \/ UNCHANGED vars
    BY <2>1, <2>2 DEF Get, GetEnd, OnEof, Over, vars, lexVars
  <2>3. CASE HexBegins
    BY <2>3 DEF HexBegins
  <2>4. CASE FirstDigit
    <3>1. Hex(char) \in -1..15
      BY Bytes
    <3>2. Hex(char) \in 0..15
      BY <2>4, <3>1 DEF FirstDigit
    <3>3. hexByte' = 16 * Hex(char)
      BY <2>4 DEF FirstDigit
    <3> QED
      BY <3>2, <3>3, Digits
  <2>5. CASE HexEnds
    <3>1. Hex(char) \in -1..15
      BY Bytes
    <3>2. CASE hexByte' = hexByte
      BY <3>2
    <3>3. CASE hexByte' # hexByte
      <4>1. Hex(char) >= 0 /\ hexByte >= 0 /\ rule = "in_hex"
        BY <2>5, <3>3 DEF HexEnds, Calls
      <4>2. hexByte' = hexByte + Hex(char)
        BY <2>5, <3>3 DEF HexEnds
      <4>3. PICK d \in 0..15 : hexByte = 16 * d
        BY <4>1 DEF HexOK
      <4>4. Hex(char) \in 0..15
        BY <3>1, <4>1
      <4>5. hexByte' = 16 * d + Hex(char)
        BY <4>2, <4>3
      <4> QED
        BY <4>4, <4>5, Digits
    <3> QED
      BY <3>2, <3>3
  <2>6. CASE ListEnd \/ ListBegin \/ CommentBegins \/ Space \/ StringBegins \/ AtomBegins
    BY <2>1, <2>6 DEF ListEnd, ListBegin, CommentBegins, Space, StringBegins,
       AtomBegins, Throw, lexVars
  <2>7. CASE CommentEnds \/ StringEnds \/ AtomEnds \/ StringUnlimited \/ Ordinary
    BY <2>1, <2>7 DEF CommentEnds, StringEnds, AtomEnds, StringUnlimited, Ordinary,
       Report, Throw, lexVars
  <2>8. CASE EscapeBegins \/ EscapeEos \/ Escaped \/ AppendHex
    BY <2>1, <2>8 DEF EscapeBegins, EscapeEos, Escaped, AppendHex, Throw, lexVars
  <2> QED
    BY <2>2, <2>3, <2>4, <2>5, <2>6, <2>7, <2>8 DEF Next, RuleCalled
<1>6. data' \in Seq(0..255) /\ told' \in Seq(0..255)
  <2>1. CASE UNCHANGED <<data, told>>
    BY <2>1
  <2>2. ASSUME NEW byte \in 0..255, data' = Append(data, byte), told' = told
        PROVE  data' \in Seq(0..255) /\ told' \in Seq(0..255)
    <3>1. Append(data, byte) \in Seq(0..255)
      BY AppendProperties
    <3> QED
      BY <2>2, <3>1
  <2>3. CASE Get \/ GetEnd \/ OnEof \/ Over \/ UNCHANGED vars
    BY <2>1, <2>3 DEF Get, GetEnd, OnEof, Over, vars, lexVars
  <2>4. CASE ListEnd \/ ListBegin \/ Space \/ StringUnlimited \/ EscapeEos
    BY <2>1, <2>4 DEF ListEnd, ListBegin, Space, StringUnlimited, EscapeEos, Throw,
       lexVars
  <2>5. CASE EscapeBegins \/ HexBegins \/ FirstDigit \/ HexEnds
    BY <2>1, <2>5 DEF EscapeBegins, HexBegins, FirstDigit, HexEnds
  <2>6. CASE CommentBegins \/ StringBegins \/ AtomBegins
    <3>1. data' = <<>> /\ told' = told
      BY <2>6 DEF CommentBegins, StringBegins, AtomBegins, Use
    <3> QED
      BY <3>1
  <2>7. CASE CommentEnds \/ StringEnds \/ AtomEnds
    <3>1. data' = <<>> /\ told' = data
      BY <2>7 DEF CommentEnds, StringEnds, AtomEnds, Report, Use
    <3> QED
      BY <3>1
  <2>8. CASE Ordinary
    BY <2>2, <2>8, Bytes DEF Ordinary, Collect
  <2>9. CASE Escaped
    BY <2>2, <2>9, Bytes DEF Escaped, Collect
  <2>10. CASE AppendHex
    <3>1. CASE NoDigits
      BY <2>1, <2>10, <3>1 DEF AppendHex, Throw, lexVars
    <3>2. CASE ~NoDigits
      <4>1. hexByte \in 0..255
        BY <3>2 DEF NoDigits
      <4>2. data' = Append(data, hexByte) /\ told' = told
        BY <2>10, <3>2 DEF AppendHex, Collect
      <4> QED
        BY <2>2, <4>1, <4>2
    <3> QED
      BY <3>1, <3>2
  <2> QED
    BY <2>3, <2>4, <2>5, <2>6, <2>7, <2>8, <2>9, <2>10 DEF Next, RuleCalled
<1> QED
  BY <1>1, <1>2, <1>3, <1>4, <1>5, <1>6

\* The invariant holds in every state.
LEMMA Invariance == SafeSpec => []IInv
<1>1. IInv /\ [Next]_vars => IInv'
  BY StepContextOK, StepTypeOK DEF IInv
<1> QED
  BY <1>1, InitIInv, PTL DEF SafeSpec

\* Every variable of the parser keeps its type: what is collected are bytes,
\* the level is not decremented below zero, and the rule popped is a rule.
THEOREM TypeCorrect == SafeSpec => []TypeOK
<1>1. IInv => TypeOK
  BY DEF IInv
<1> QED
  BY <1>1, Invariance, PTL

-----------------------------------------------------------------------------
(* The parser implements SexpEvents. *)

\* An escape is in the same atom or string from its beginning to its end.
LEMMA WithinKept ==
  ASSUME IInv, EscapeBegins \/ HexBegins \/ Escaped \/ HexEnds \/ (AppendHex /\ ~NoDigits)
  PROVE  Within' = Within /\ Within \in {"in_string", "in_atom"}
<1> USE DEF IInv, ContextOK
<1>1. CASE EscapeBegins
  <2>1. PICK r \in {"in_string", "in_atom"} : rule = r /\ ctx = <<>>
    BY <1>1 DEF EscapeBegins, Calls
  <2>2. ctx' = <<r>>
    BY <1>1, <2>1, Stacks DEF EscapeBegins, Push
  <2>3. ctx' # <<>> /\ ctx'[Len(ctx')] = r
    BY <2>2
  <2> QED BY <2>1, <2>3 DEF Within
<1>2. CASE HexBegins
  <2>1. PICK r \in {"in_string", "in_atom"} : ctx = <<r>>
    BY <1>2 DEF HexBegins, Calls
  <2>2. ctx' = <<"append_escaped_hex", r>>
    BY <1>2, <2>1, Stacks DEF HexBegins, Push
  <2>3. ctx # <<>> /\ ctx[Len(ctx)] = r
    BY <2>1
  <2>4. ctx' # <<>> /\ ctx'[Len(ctx')] = r
    BY <2>2
  <2> QED BY <2>3, <2>4 DEF Within
<1>3. CASE HexEnds
  <2>1. PICK r \in {"in_string", "in_atom"} : ctx = <<"append_escaped_hex", r>>
    BY <1>3 DEF HexEnds, Calls
  <2>2. ctx' = <<r>>
    <3>1. ctx' = Tail(ctx)
      BY <1>3 DEF HexEnds, Pop, Popped
    <3> QED BY <2>1, <3>1, Stacks
  <2>3. ctx # <<>> /\ ctx[Len(ctx)] = r
    BY <2>1
  <2>4. ctx' # <<>> /\ ctx'[Len(ctx')] = r
    BY <2>2
  <2> QED BY <2>3, <2>4 DEF Within
<1>4. CASE Escaped \/ (AppendHex /\ ~NoDigits)
  <2>1. PICK r \in {"in_string", "in_atom"} : ctx = <<r>>
    BY <1>4 DEF Escaped, AppendHex, Calls
  <2>2. rule' = r /\ ctx' = <<>>
    <3>1. rule' = Head(ctx) /\ ctx' = Tail(ctx)
      BY <1>4 DEF Escaped, AppendHex, Pop, Popped
    <3> QED BY <2>1, <3>1, Stacks
  <2>3. ctx # <<>> /\ ctx[Len(ctx)] = r
    BY <2>1
  <2> QED BY <2>2, <2>3 DEF Within
<1> QED BY <1>1, <1>2, <1>3, <1>4

\* What is being read, told from the rule in force and from what lies under it.
LEMMA LexemeIs ==
  ASSUME IInv
  PROVE  /\ rule = "top" => Lexeme = "none"
         /\ rule \in Lexemes => Lexeme # "none"
         /\ rule = "in_comment" => Lexeme = "comment"
         /\ rule = "in_atom" \/ ctx = <<"in_atom">>
              \/ ctx = <<"append_escaped_hex", "in_atom">> => Lexeme = "atom"
         /\ rule = "in_string" \/ ctx = <<"in_string">>
              \/ ctx = <<"append_escaped_hex", "in_string">> => Lexeme = "string"
<1> USE DEF IInv, ContextOK
<1>1. ASSUME rule \in {"top"} \cup Lexemes PROVE Within = rule
  BY <1>1 DEF Within
<1>2. ASSUME NEW r \in {"in_atom", "in_string"}, ctx = <<r>> PROVE Within = r
  BY <1>2 DEF Within
<1>3. ASSUME NEW r \in {"in_atom", "in_string"}, ctx = <<"append_escaped_hex", r>>
      PROVE  Within = r
  <2>1. ctx # <<>> /\ Len(ctx) = 2 /\ ctx[2] = r
    BY <1>3
  <2> QED
    BY <2>1 DEF Within
<1> QED
  BY <1>1, <1>2, <1>3 DEF Lexeme

\* Every step of the parser is a call of the handler, or the beginning of a
\* lexeme, or a rejection, or nothing its handler can see.
THEOREM Implements == SafeSpec => ImplementsEvents
<1> DEFINE Status == IF stage \in {"done", "failed"} THEN stage ELSE "reading"
<1>1. Init => Events!Init
  <2> SUFFICES ASSUME Init PROVE Events!Init
    OBVIOUS
  <2>1. Lexeme = "none"
    BY DEF Init, Lexeme, Within
  <2> QED
    BY <2>1 DEF Init, Events!Init
<1>2. ASSUME IInv, IInv', [Next]_vars PROVE [Events!Next]_Events!vars
  <2> USE <1>2
  <2> DEFINE Abstract == [Events!Next]_Events!vars
             Still == level' = level /\ Lexeme' = Lexeme /\ Status' = Status
  <2>1. ASSUME Still PROVE Abstract
    BY <2>1 DEF Events!vars
  <2>2. ASSUME stage \in {"rule", "last"} PROVE Status = "reading"
    BY <2>2
  <2>3. ASSUME UNCHANGED <<rule, ctx>> PROVE Lexeme' = Lexeme
    BY <2>3 DEF Lexeme, Within
  <2>4. ASSUME Skip \/ Stay PROVE Status' = "reading"
    BY <2>4 DEF Skip, Stay
  <2>5. ASSUME NEW r, Calls(r), Throw PROVE Abstract
    <3>1. Status = "reading" /\ Status' = "failed" /\ level' = level /\ Lexeme' = Lexeme
      BY <2>5, <2>2, <2>3 DEF Calls, Throw, lexVars
    <3> QED
      BY <3>1 DEF Events!Next, Events!Rejected
  <2>6. ASSUME NEW r, Calls(r), Skip \/ Stay, level' = level, Lexeme' = Lexeme
        PROVE  Abstract
    BY <2>6, <2>1, <2>2, <2>4 DEF Calls
  <2>7. CASE Get \/ GetEnd \/ Over \/ UNCHANGED vars
    <3>1. level' = level /\ Lexeme' = Lexeme
      BY <2>7, <2>3 DEF Get, GetEnd, Over, vars, lexVars
    <3>2. Status' = Status
      BY <2>7 DEF Get, GetEnd, Over, vars
    <3> QED
      BY <2>1, <3>1, <3>2
  <2>8. CASE OnEof
    <3>1. level' = level /\ Lexeme' = Lexeme
      BY <2>8, <2>3 DEF OnEof, lexVars
    <3>2. Status = "reading" /\ Status' \in {"done", "failed"}
      BY <2>8 DEF OnEof
    <3> QED
      BY <3>1, <3>2 DEF Events!Next, Events!OnEof
  <2>9. CASE ListBegin
    <3>1. Lexeme = "none" /\ Lexeme' = Lexeme /\ level' = level + 1
      BY <2>9, <2>3, LexemeIs DEF ListBegin, Calls, lexVars
    <3>2. Status = "reading" /\ Status' \in {"reading", "failed"}
      BY <2>9, <2>2, <2>4 DEF ListBegin, Calls, Tells
    <3> QED
      BY <3>1, <3>2 DEF Events!Next, Events!OnListBegin, Events!HandlerCalled
  <2>10. CASE ListEnd
    <3>1. CASE MayClose
      <4>1. Lexeme = "none" /\ Lexeme' = Lexeme /\ level' = level - 1
        BY <2>10, <3>1, <2>3, LexemeIs DEF ListEnd, Calls, lexVars
      <4>2. Status = "reading" /\ Status' \in {"reading", "failed"}
        BY <2>10, <3>1, <2>2, <2>4 DEF ListEnd, Calls, Tells
      <4>3. level > 0
        BY <3>1 DEF MayClose, IInv, TypeOK
      <4> QED
        BY <4>1, <4>2, <4>3 DEF Events!Next, Events!OnListEnd, Events!HandlerCalled
    <3>2. CASE ~MayClose
      BY <2>10, <3>2, <2>5 DEF ListEnd
    <3> QED
      BY <3>1, <3>2
  <2>11. CASE CommentBegins \/ StringBegins \/ AtomBegins
    <3>1. rule = "top" /\ rule' \in Lexemes /\ level' = level
      BY <2>11 DEF CommentBegins, StringBegins, AtomBegins, Calls, Use
    <3>2. Lexeme = "none"
      BY <3>1, LexemeIs
    <3>3. Lexeme' \in {"comment", "atom", "string"}
      <4>1. Within' = rule'
        BY <3>1 DEF Within, IInv, ContextOK
      <4> QED
        BY <3>1, <4>1 DEF Lexeme
    <3>4. Status = "reading" /\ Status' = "reading"
      BY <2>11, <2>2, <2>4 DEF CommentBegins, StringBegins, AtomBegins, Calls
    <3> QED
      BY <3>1, <3>2, <3>3, <3>4 DEF Events!Next, Events!LexemeBegins
  <2>12. CASE CommentEnds \/ StringEnds \/ AtomEnds
    <3>1. rule \in Lexemes /\ rule' = "top" /\ level' = level
      BY <2>12 DEF CommentEnds, StringEnds, AtomEnds, Calls, Report, Use, AfterLexeme
    <3>2. Lexeme # "none"
      BY <3>1, LexemeIs
    <3>3. Lexeme' = "none"
      BY <3>1 DEF Lexeme, Within, IInv, ContextOK
    <3>4. Status = "reading" /\ Status' \in {"reading", "failed"}
      BY <2>12, <2>2, <2>4 DEF CommentEnds, StringEnds, AtomEnds, Calls, Report, Tells
    <3> QED
      BY <3>1, <3>2, <3>3, <3>4 DEF Events!Next, Events!OnLexeme, Events!HandlerCalled
  <2>13. CASE StringUnlimited \/ EscapeEos
    BY <2>13, <2>5 DEF StringUnlimited, EscapeEos
  <2>14. CASE Space \/ Ordinary \/ FirstDigit
    <3>1. level' = level /\ Lexeme' = Lexeme
      BY <2>14, <2>3 DEF Space, Ordinary, FirstDigit, lexVars
    <3>2. \E r : Calls(r)
      BY <2>14 DEF Space, Ordinary, FirstDigit
    <3>3. Skip
      BY <2>14 DEF Space, Ordinary, FirstDigit
    <3> QED
      BY <3>1, <3>2, <3>3, <2>6
  <2>15. CASE EscapeBegins \/ HexBegins \/ Escaped \/ HexEnds \/ (AppendHex /\ ~NoDigits)
    <3>1. level' = level /\ Lexeme' = Lexeme
      BY <2>15, WithinKept DEF EscapeBegins, HexBegins, Escaped, HexEnds, AppendHex, Lexeme
    <3>2. (Skip \/ Stay) /\ Calls(rule)
      BY <2>15 DEF EscapeBegins, HexBegins, Escaped, HexEnds, AppendHex, Calls
    <3> QED
      BY <3>1, <3>2, <2>6
  <2>16. CASE AppendHex /\ NoDigits
    BY <2>16, <2>5 DEF AppendHex
  <2>17. CASE RuleCalled
    BY <2>9, <2>10, <2>11, <2>12, <2>13, <2>14, <2>15, <2>16, <2>17 DEF RuleCalled
  <2>18. CASE Next
    BY <2>7, <2>8, <2>17, <2>18 DEF Next
  <2>19. CASE UNCHANGED vars
    BY <2>7, <2>19
  <2> QED
    BY <2>18, <2>19
<1> QED
  BY <1>1, <1>2, Invariance, PTL DEF SafeSpec, ImplementsEvents, Events!Spec

-----------------------------------------------------------------------------
(* What a text says.                                                         *)

Meanings(raw) == {Meaning(raw, i) : i \in 1..Len(raw)}

\* The meaning of a place is followed by what is said after it: the recursion
\* goes up to the end of the text, and ends there.
LEMMA FromUnfolds ==
  ASSUME NEW raw \in Seq(0..255)
  PROVE  /\ Decoded(raw) = From(raw)[1]
         /\ \A i \in 1..Len(raw) + 3 : From(raw)[i] \in Seq(Meanings(raw))
         /\ \A i \in 1..Len(raw) + 3 :
              i > Len(raw) => From(raw)[i] = <<>>
         /\ \A i \in 1..Len(raw) :
              /\ After(raw, i) \in i + 1..i + 3
              /\ From(raw)[i] = <<Meaning(raw, i)>> \o From(raw)[After(raw, i)]
<1> DEFINE N == Len(raw)
           Places == 1..N + 3
           S == [Places -> Seq(Meanings(raw))]
           turn == [p \in (1..N) \X S |->
                      [i \in Places |->
                         IF i = N + 1 - p[1]
                           THEN <<Meaning(raw, i)>> \o p[2][After(raw, i)]
                           ELSE p[2][i]]]
           nothing == [i \in Places |-> <<>>]
           loop(g) == [i \in Places |->
                         IF i > N THEN <<>>
                         ELSE <<Meaning(raw, i)>> \o g[After(raw, i)]]
           from == CHOOSE g : g = loop(g)
<1>1. N \in Nat
  OBVIOUS
<1>2. ASSUME NEW i \in 1..N
      PROVE  After(raw, i) \in i + 1..i + 3 /\ After(raw, i) \in Places /\ i \in Places
  <2>1. After(raw, i) \in i + 1..i + 3
    BY <1>1 DEF After
  <2> QED BY <1>1, <2>1
<1>3. ASSUME NEW i \in 1..N, NEW t \in Seq(Meanings(raw))
      PROVE  <<Meaning(raw, i)>> \o t \in Seq(Meanings(raw))
  <2>1. Meaning(raw, i) \in Meanings(raw)
    BY DEF Meanings
  <2> QED BY <2>1
<1> HIDE DEF Places
<1>4. nothing \in S
  OBVIOUS
<1>5. turn \in [(1..N) \X S -> S]
  <2> SUFFICES ASSUME NEW k \in 1..N, NEW t \in S
               PROVE  [i \in Places |-> IF i = N + 1 - k
                                          THEN <<Meaning(raw, i)>> \o t[After(raw, i)]
                                          ELSE t[i]] \in S
    OBVIOUS
  <2>1. N + 1 - k \in 1..N
    BY <1>1
  <2>2. <<Meaning(raw, N + 1 - k)>> \o t[After(raw, N + 1 - k)] \in Seq(Meanings(raw))
    BY <1>2, <1>3, <2>1
  <2> QED BY <2>2
<1>6. PICK f \in [0..N -> S] : IsLoop(f, N, nothing, turn)
  <2> HIDE DEF turn, S, nothing, N
  <2> QED BY <1>1, <1>4, <1>5, LoopDefined
<1>7. ASSUME NEW k \in 1..N, NEW i \in Places
      PROVE  /\ f[k] \in S /\ f[k - 1] \in S
             /\ i # N + 1 - k => f[k][i] = f[k - 1][i]
             /\ i = N + 1 - k => f[k][i] = <<Meaning(raw, i)>> \o f[k - 1][After(raw, i)]
  <2>1. k - 1 \in 0..N /\ k \in 0..N
    BY <1>1
  <2>2. f[k - 1] \in S /\ f[k] \in S
    BY <1>6, <2>1
  <2>3. <<k, f[k - 1]>> \in (1..N) \X S /\ f[k] = turn[<<k, f[k - 1]>>]
    BY <1>6, <2>2 DEF IsLoop
  <2>4. turn[<<k, f[k - 1]>>] =
          [j \in Places |-> IF j = N + 1 - k
                              THEN <<Meaning(raw, j)>> \o f[k - 1][After(raw, j)]
                              ELSE f[k - 1][j]]
    BY <2>3
  <2> HIDE DEF turn, S
  <2>5. f[k] = [j \in Places |-> IF j = N + 1 - k
                              THEN <<Meaning(raw, j)>> \o f[k - 1][After(raw, j)]
                              ELSE f[k - 1][j]]
    BY <2>3, <2>4
  <2> QED BY <2>2, <2>5
<1> HIDE DEF turn
<1> DEFINE Holds(k) == \A i \in Places : i > N - k =>
             /\ i > N => f[k][i] = <<>>
             /\ i <= N => f[k][i] = <<Meaning(raw, i)>> \o f[k][After(raw, i)]
           T == {k \in 0..N : Holds(k)}
<1>8. 0 \in T
  <2>1. f[0] = nothing
    BY <1>6 DEF IsLoop
  <2> QED BY <1>1, <2>1 DEF Places
<1>9. ASSUME NEW k \in 0..N - 1, k \in T PROVE k + 1 \in T
  <2>1. k + 1 \in 1..N /\ (k + 1) - 1 = k /\ k + 1 \in 0..N /\ Holds(k)
    BY <1>1, <1>9
  <2>2. ASSUME NEW i \in Places, i > N - (k + 1)
        PROVE  /\ i > N => f[k + 1][i] = <<>>
               /\ i <= N => f[k + 1][i] = <<Meaning(raw, i)>> \o f[k + 1][After(raw, i)]
    <3>1. i = N - k \/ i > N - k
      BY <1>1, <2>2 DEF Places
    <3>2. i <= N => /\ After(raw, i) \in Places
                    /\ f[k + 1][After(raw, i)] = f[k][After(raw, i)]
      <4>1. ASSUME i <= N PROVE i \in 1..N
        BY <1>1, <4>1 DEF Places
      <4>2. ASSUME i <= N
            PROVE  After(raw, i) \in Places /\ After(raw, i) # N + 1 - (k + 1)
        BY <1>1, <1>2, <2>2, <4>1, <4>2
      <4> QED BY <1>7, <2>1, <4>2
    <3>3. CASE i = N - k
      <4>1. i <= N /\ i = N + 1 - (k + 1)
        BY <1>1, <3>3
      <4>2. f[k + 1][i] = <<Meaning(raw, i)>> \o f[k][After(raw, i)]
        BY <1>7, <2>1, <4>1
      <4>3. ~(i > N)
        BY <1>1, <4>1 DEF Places
      <4> QED BY <3>2, <4>1, <4>2, <4>3
    <3>4. CASE i > N - k
      <4>1. i # N + 1 - (k + 1)
        BY <1>1, <3>4 DEF Places
      <4>2. f[k + 1][i] = f[k][i]
        BY <1>7, <2>1, <4>1
      <4> QED BY <2>1, <3>2, <3>4, <4>2
    <3> QED BY <3>1, <3>3, <3>4
  <2> QED BY <2>1, <2>2
<1>10. N \in T
  <2> HIDE DEF T
  <2>1. 0..N \subseteq T
    BY <1>1, <1>8, <1>9, StepByStep
  <2> QED BY <1>1, <2>1
<1>11. f[N] \in S /\ f[N] = loop(f[N])
  <2>1. f[N] \in S /\ Holds(N)
    BY <1>1, <1>6, <1>10
  <2>2. \A i \in Places : i > N - N
    BY <1>1 DEF Places
  <2>3. \A i \in Places : f[N][i] = IF i > N THEN <<>>
                                   ELSE <<Meaning(raw, i)>> \o f[N][After(raw, i)]
    <3> TAKE i \in Places
    <3>1. i > N \/ i <= N
      BY <1>1 DEF Places
    <3> QED BY <2>1, <2>2, <3>1
  <2> QED BY <2>1, <2>3
<1> HIDE DEF T, loop
<1>12. from = loop(from)
  BY <1>11
<1>13. From(raw) = from /\ Decoded(raw) = from[1]
  BY DEF From, Decoded, loop, Places
<1> HIDE DEF from
<1>14. \A i \in Places : from[i] = IF i > N THEN <<>>
                                  ELSE <<Meaning(raw, i)>> \o from[After(raw, i)]
  BY <1>12 DEF loop
<1>15. from \in S
  <2> DEFINE U == {k \in 0..N : \A i \in Places : i > N - k => from[i] \in Seq(Meanings(raw))}
  <2>1. 0 \in U
    <3>1. ASSUME NEW i \in Places, i > N - 0 PROVE from[i] \in Seq(Meanings(raw))
      <4>1. i > N
        BY <1>1, <3>1
      <4>2. from[i] = <<>>
        BY <1>14, <4>1
      <4> QED BY <4>2
    <3> QED BY <1>1, <3>1
  <2>2. ASSUME NEW k \in 0..N - 1, k \in U PROVE k + 1 \in U
    <3>1. k + 1 \in 0..N
      BY <1>1
    <3>2. ASSUME NEW i \in Places, i > N - (k + 1) PROVE from[i] \in Seq(Meanings(raw))
      <4>1. i = N - k \/ i > N - k
        BY <1>1, <3>2 DEF Places
      <4>2. CASE i = N - k
        <5>1. i \in 1..N /\ ~(i > N)
          BY <1>1, <4>2
        <5>2. After(raw, i) \in Places /\ After(raw, i) > N - k
          BY <1>1, <1>2, <4>2, <5>1
        <5>3. from[After(raw, i)] \in Seq(Meanings(raw))
          BY <2>2, <5>2
        <5> QED BY <1>3, <1>14, <5>1, <5>3
      <4>3. CASE i > N - k
        BY <2>2, <4>3
      <4> QED BY <4>1, <4>2, <4>3
    <3> QED BY <3>1, <3>2
  <2>3. N \in U
    <3> HIDE DEF U
    <3>1. 0..N \subseteq U
      BY <1>1, <2>1, <2>2, StepByStep
    <3> QED BY <1>1, <3>1
  <2>4. \A i \in Places : from[i] \in Seq(Meanings(raw))
    <3>1. \A i \in Places : i > N - N
      BY <1>1 DEF Places
    <3> QED BY <2>3, <3>1
  <2>5. from = [i \in Places |-> from[i]]
    BY <1>12 DEF loop
  <2> QED BY <2>4, <2>5
<1>16. \A i \in 1..N : ~(i > N) /\ i \in Places
  BY <1>1, <1>2
<1> QED BY <1>2, <1>13, <1>14, <1>15, <1>16 DEF Places

-----------------------------------------------------------------------------
(* A text that goes on.                                                      *)

\* Looking at a place of a text that goes on.
LEMMA Joined ==
  ASSUME NEW S, NEW u \in Seq(S), NEW s \in Seq(S)
  PROVE  /\ u \o s \in Seq(S)
         /\ Len(u \o s) = Len(u) + Len(s)
         /\ \A i \in 1..Len(u) : (u \o s)[i] = u[i]
         /\ \A i \in 1..Len(s) : (u \o s)[Len(u) + i] = s[i]
<1>1. ASSUME NEW i \in 1..Len(u) PROVE (u \o s)[i] = u[i]
  <2>1. Len(u) \in Nat /\ Len(s) \in Nat
    BY LenProperties
  <2>2. i \in 1..Len(u) + Len(s) /\ i <= Len(u)
    BY <2>1
  <2> QED BY <2>2, ConcatProperties
<1>2. ASSUME NEW i \in 1..Len(s) PROVE (u \o s)[Len(u) + i] = s[i]
  <2>1. Len(u) \in Nat /\ Len(s) \in Nat
    BY LenProperties
  <2>2. Len(u) + i \in 1..Len(u) + Len(s) /\ ~(Len(u) + i <= Len(u)) /\ Len(u) + i - Len(u) = i
    BY <2>1
  <2> QED BY <2>2, ConcatProperties
<1> QED BY <1>1, <1>2, ConcatProperties

\* What follows the next character.
LEMMA NextThenRest ==
  ASSUME NEW S, NEW u \in Seq(S), NEW b \in S, NEW s \in Seq(S)
  PROVE  /\ <<b>> \o s \in Seq(S)
         /\ <<b>> \o s # <<>>
         /\ (<<b>> \o s)[1] = b
         /\ Append(u, b) \o s = u \o (<<b>> \o s)
<1>1. <<b>> \in Seq(S) /\ Len(<<b>>) = 1 /\ <<b>>[1] = b
  OBVIOUS
<1>2. <<b>> \o s \in Seq(S) /\ (<<b>> \o s)[1] = b
  BY <1>1, Joined
<1>3. <<b>> \o s # <<>>
  BY <1>1, ConcatEqualIffEmpty
<1>4. Append(u, b) \o s = u \o (<<b>> \o s)
  BY <1>1, AppendIsConcat, ConcatAssociative
<1> QED BY <1>2, <1>3, <1>4

\* The end of what has been read, with and without the last character.
LEMMA LastCharacter ==
  ASSUME NEW S, NEW t \in Seq(S), NEW m \in 1..Len(t) + 1
  PROVE  /\ SubSeq(t, m, Len(t)) \in Seq(S)
         /\ \A b \in S : SubSeq(Append(t, b), m, Len(Append(t, b)) - 1) = SubSeq(t, m, Len(t))
         /\ m = Len(t) + 1 => SubSeq(t, m, Len(t)) = <<>>
         /\ m <= Len(t) => /\ SubSeq(t, m, Len(t) - 1) \in Seq(S)
                           /\ SubSeq(t, m, Len(t)) = Append(SubSeq(t, m, Len(t) - 1), t[Len(t)])
         /\ m = Len(t) => SubSeq(t, m, Len(t) - 1) = <<>>
<1>1. Len(t) \in Nat /\ m \in Int /\ Len(t) - 1 \in Int
  BY LenProperties
<1>2. \A i \in m..Len(t) : t[i] \in S
  BY <1>1, ElementOfSeq
<1>3. SubSeq(t, m, Len(t)) \in Seq(S)
  BY <1>1, <1>2, SubSeqProperties
<1>4. \A i \in m..Len(t) - 1 : t[i] \in S
  BY <1>1, <1>2
<1>5. SubSeq(t, m, Len(t) - 1) \in Seq(S)
  BY <1>1, <1>4, SubSeqProperties
<1>6. ASSUME NEW b \in S
      PROVE  SubSeq(Append(t, b), m, Len(Append(t, b)) - 1) = SubSeq(t, m, Len(t))
  <2> DEFINE a == Append(t, b)
  <2>1. Len(a) - 1 = Len(t) /\ \A i \in m..Len(t) : a[i] = t[i]
    BY <1>1, AppendProperties
  <2> HIDE DEF a
  <2>2. \A i \in m..Len(t) : a[i] \in S
    BY <1>2, <2>1
  <2>3. /\ SubSeq(a, m, Len(t)) \in Seq(S)
        /\ Len(SubSeq(a, m, Len(t))) = IF m <= Len(t) THEN Len(t) - m + 1 ELSE 0
        /\ \A i \in 1..Len(t) - m + 1 : SubSeq(a, m, Len(t))[i] = a[m + i - 1]
    BY <1>1, <2>2, SubSeqProperties
  <2>4. /\ Len(SubSeq(t, m, Len(t))) = IF m <= Len(t) THEN Len(t) - m + 1 ELSE 0
        /\ \A i \in 1..Len(t) - m + 1 : SubSeq(t, m, Len(t))[i] = t[m + i - 1]
    BY <1>1, <1>2, SubSeqProperties
  <2>5. \A i \in 1..Len(t) - m + 1 : m + i - 1 \in m..Len(t)
    BY <1>1
  <2>6. Len(SubSeq(a, m, Len(t))) = Len(SubSeq(t, m, Len(t)))
    BY <2>3, <2>4
  <2>7. \A i \in 1..Len(SubSeq(a, m, Len(t))) : SubSeq(a, m, Len(t))[i] = SubSeq(t, m, Len(t))[i]
    <3> TAKE i \in 1..Len(SubSeq(a, m, Len(t)))
    <3>1. i \in 1..Len(t) - m + 1
      BY <1>1, <2>3
    <3> QED BY <2>1, <2>3, <2>4, <2>5, <3>1
  <2>8. SubSeq(a, m, Len(t)) = SubSeq(t, m, Len(t))
    BY <1>3, <2>3, <2>6, <2>7, SeqEqual
  <2> QED BY <2>1, <2>8 DEF a
<1>7. ASSUME m <= Len(t)
      PROVE  SubSeq(t, m, Len(t)) = Append(SubSeq(t, m, Len(t) - 1), t[Len(t)])
  <2>1. m \in 1..Len(t) /\ Len(t) \in m..Len(t) /\ t[Len(t)] \in S
    BY <1>1, <1>2, <1>7
  <2>2. SubSeq(t, m, Len(t)) = SubSeq(t, m, Len(t) - 1) \o <<t[Len(t)]>>
    BY <2>1, SubSeqRecursiveSecond
  <2> QED BY <1>5, <2>1, <2>2, AppendIsConcat
<1>8. m = Len(t) + 1 => SubSeq(t, m, Len(t)) = <<>>
  BY <1>1, SubSeqEmpty
<1>9. m = Len(t) => SubSeq(t, m, Len(t) - 1) = <<>>
  BY <1>1, SubSeqEmpty
<1> QED BY <1>3, <1>5, <1>6, <1>7, <1>8, <1>9

\* The rules see the character that was read: a rule that looks for one, a digit
\* or the letter of an escape finds it in the int where it is in the input.
LEMMA SeenAsRead ==
  ASSUME NEW b \in 0..255
  PROVE  /\ AsByte(AsInt(b)) = b
         /\ Hex(AsInt(b)) = Hex(b)
         /\ Unescaped(AsInt(b)) = Unescaped(b)
         /\ \A k \in 0..127 : AsInt(b) = k <=> b = k
<1>1. AsByte(AsInt(b)) = b /\ AsByte(b) = b
  BY DEF AsByte, AsInt
<1>2. ASSUME NEW k \in 0..127 PROVE AsInt(b) = k <=> b = k
  BY DEF AsInt
<1>3. CASE AsInt(b) = b
  BY <1>1, <1>2, <1>3
<1>4. CASE AsInt(b) # b
  <2>1. AsInt(b) < 0 /\ b > 127 /\ AsInt(b) \in Int
    BY <1>4 DEF AsInt
  <2>2. Hex(AsInt(b)) = -1 /\ Hex(b) = -1
    BY <2>1 DEF Hex
  <2>3. Unescaped(AsInt(b)) = AsByte(AsInt(b)) /\ Unescaped(b) = AsByte(b)
    BY <2>1 DEF Unescaped
  <2> QED BY <1>1, <1>2, <2>2, <2>3
<1> QED BY <1>3, <1>4

\* A character as Decoded gives it.
Marks == [plain : BOOLEAN, byte : 0..255]

\* What has been said up to some place is said with the meaning of that place
\* up to the next.
LEMMA SaidSoFar ==
  ASSUME NEW raw \in Seq(0..255), NEW p \in 1..Len(raw), NEW marks \in Seq(Marks),
         From(raw)[1] = marks \o From(raw)[p]
  PROVE  From(raw)[1] = Append(marks, Meaning(raw, p)) \o From(raw)[After(raw, p)]
<1> DEFINE S == Marks \cup Meanings(raw)
           rest == From(raw)[After(raw, p)]
           m == Meaning(raw, p)
<1>1. Len(raw) \in Nat /\ p \in 1..Len(raw) + 3 /\ After(raw, p) \in 1..Len(raw) + 3
  <2>1. After(raw, p) \in p + 1..p + 3
    BY FromUnfolds
  <2> QED BY <2>1
<1>2. rest \in Seq(Meanings(raw)) /\ m \in Meanings(raw)
  BY <1>1, FromUnfolds DEF Meanings
<1>3. From(raw)[p] = <<m>> \o rest
  BY FromUnfolds
<1> HIDE DEF rest, m
<1>4. marks \in Seq(S) /\ rest \in Seq(S) /\ m \in S
  BY <1>2, SeqMonotonic
<1> HIDE DEF S
<1>5. Append(marks, m) \o rest = marks \o (<<m>> \o rest)
  BY <1>4, NextThenRest
<1> QED BY <1>3, <1>5 DEF rest, m

-----------------------------------------------------------------------------
(* The main loop.                                                            *)

\* The main loop knows what it calls the rule with.  Only HexEnds brings
\* append_escaped_hex into force, and leaves its character to it.
LoopOK ==
  /\ stage = "last" => char = Eos
  /\ stage = "rule" => Len(read) > 0 /\ char = AsInt(read[Len(read)])
  /\ rule = "append_escaped_hex" => stage \notin {"get", "last"}
  /\ rule # "top" /\ stage = "rule" => start \in 1..Len(read)
  /\ rule # "top" /\ stage \in {"get", "last"} => start \in 1..Len(read) + 1

\* A rule leaves the input alone, and is not called again with the end of it.
LEMMA RuleReturns ==
  ASSUME RuleCalled
  PROVE  /\ UNCHANGED <<read, char>>
         /\ stage \in {"rule", "last"}
         /\ stage' \in {"get", "rule", "eof", "failed"}
         /\ stage' \in {"get", "rule"} => stage = "rule"
<1>1. UNCHANGED <<read, char>>
  BY DEF RuleCalled, ListEnd, ListBegin, CommentBegins, Space, StringBegins,
     AtomBegins, CommentEnds, StringEnds, AtomEnds, StringUnlimited, Ordinary,
     EscapeBegins, EscapeEos, HexBegins, Escaped, FirstDigit, HexEnds, AppendHex, Report
<1>2. \E r : Calls(r)
  BY DEF RuleCalled, ListEnd, ListBegin, CommentBegins, Space, StringBegins,
     AtomBegins, CommentEnds, StringEnds, AtomEnds, StringUnlimited, Ordinary,
     EscapeBegins, EscapeEos, HexBegins, Escaped, FirstDigit, HexEnds, AppendHex
<1>3. Skip \/ Stay \/ stage' = "failed"
  BY DEF RuleCalled, ListEnd, ListBegin, CommentBegins, Space, StringBegins,
     AtomBegins, CommentEnds, StringEnds, AtomEnds, StringUnlimited, Ordinary,
     EscapeBegins, EscapeEos, HexBegins, Escaped, FirstDigit, HexEnds, AppendHex, Report,
     Tells, Throw
<1> QED BY <1>1, <1>2, <1>3 DEF Calls, Skip, Stay

\* And the main loop keeps knowing it.
LEMMA StepLoopOK ==
  ASSUME IInv, LoopOK, [Next]_vars
  PROVE  LoopOK'
<1> USE DEF LoopOK
<1> USE DEF IInv, TypeOK
<1>1. Len(read) \in Nat
  BY LenProperties
<1>2. CASE Get
  <2>1. PICK byte \in Alphabet : read' = Append(read, byte) /\ char' = AsInt(byte)
    BY <1>2 DEF Get
  <2>2. Len(read') = Len(read) + 1 /\ read'[Len(read')] = byte
    BY <2>1, AppendProperties
  <2>3. stage = "get" /\ stage' = "rule" /\ rule' = rule /\ start' = start
    BY <1>2 DEF Get, lexVars
  <2> QED BY <1>1, <2>1, <2>2, <2>3
<1>3. CASE GetEnd
  BY <1>3 DEF GetEnd, lexVars
<1>4. CASE OnEof
  BY <1>4 DEF OnEof
<1>5. CASE RuleCalled
  <2>1. CASE stage' \notin {"get", "rule"}
    BY <1>5, <2>1, RuleReturns
  <2>2. CASE stage' \in {"get", "rule"}
    <3>1. stage = "rule" /\ read' = read /\ char' = char
      BY <1>5, <2>2, RuleReturns
    <3>2. rule' = "append_escaped_hex" => stage' # "get"
      <4>1. CASE ListEnd \/ ListBegin \/ CommentBegins \/ Space \/ StringBegins \/ AtomBegins
        BY <4>1 DEF ListEnd, ListBegin, CommentBegins, Space, StringBegins, AtomBegins,
           Throw, lexVars, Calls, Use
      <4>2. CASE CommentEnds \/ StringEnds \/ AtomEnds \/ EscapeBegins \/ HexBegins
        BY <4>2 DEF CommentEnds, StringEnds, AtomEnds, Report, Use, AfterLexeme,
           EscapeBegins, HexBegins, Push
      <4>3. CASE StringUnlimited \/ Ordinary \/ EscapeEos \/ FirstDigit
        BY <4>3 DEF StringUnlimited, Ordinary, EscapeEos, FirstDigit, Throw, lexVars, Calls
      <4>4. CASE Escaped \/ (AppendHex /\ ~NoDigits)
        <5>1. PICK r \in {"in_string", "in_atom"} : ctx = <<r>>
          BY <4>4 DEF Escaped, AppendHex, Calls, ContextOK
        <5>2. rule' = Head(<<r>>)
          BY <4>4, <5>1 DEF Escaped, AppendHex, Pop
        <5> QED BY <5>2
      <4>5. CASE AppendHex /\ NoDigits
        BY <2>2, <4>5 DEF AppendHex, Throw
      <4>6. CASE HexEnds
        BY <3>1, <4>6 DEF HexEnds, Stay
      <4> QED BY <1>5, <4>1, <4>2, <4>3, <4>4, <4>5, <4>6 DEF RuleCalled
    <3>3. rule' # "top" => start' \in 1..Len(read) + 1 /\ (stage' = "rule" => start' \in 1..Len(read))
      <4>1. CASE CommentBegins \/ StringBegins
        <5>1. start' = Len(read) + 1 /\ stage' = "get"
          BY <3>1, <4>1 DEF CommentBegins, StringBegins, Skip
        <5> QED BY <1>1, <5>1
      <4>2. CASE AtomBegins
        <5>1. start' = Len(read)
          BY <4>2 DEF AtomBegins
        <5> QED BY <1>1, <3>1, <5>1
      <4>3. CASE CommentEnds \/ StringEnds \/ AtomEnds
        BY <4>3 DEF CommentEnds, StringEnds, AtomEnds, Report, Use, AfterLexeme
      <4>4. CASE ListEnd \/ ListBegin \/ Space
        BY <4>4 DEF ListEnd, ListBegin, Space, Throw, Calls, lexVars
      <4>5. ASSUME start' = start, rule # "top"
            PROVE  start' \in 1..Len(read) + 1 /\ start' \in 1..Len(read)
        BY <1>1, <3>1, <4>5
      <4>6. CASE StringUnlimited \/ Ordinary \/ EscapeBegins \/ EscapeEos
        BY <4>5, <4>6 DEF StringUnlimited, Ordinary, EscapeBegins, EscapeEos, Throw,
           lexVars, Calls
      <4>7. CASE HexBegins \/ Escaped \/ FirstDigit \/ HexEnds \/ AppendHex
        BY <4>5, <4>7 DEF HexBegins, Escaped, FirstDigit, HexEnds, AppendHex, Throw,
           lexVars, Calls
      <4> QED BY <1>5, <4>1, <4>2, <4>3, <4>4, <4>6, <4>7 DEF RuleCalled
    <3> QED BY <2>2, <3>1, <3>2, <3>3
  <2> QED BY <2>1, <2>2
<1>6. CASE Over \/ UNCHANGED vars
  BY <1>6 DEF Over, vars
<1> QED BY <1>2, <1>3, <1>4, <1>5, <1>6 DEF Next

-----------------------------------------------------------------------------
(* The text of a lexeme while it is read.                                    *)

\* What has been read of the lexeme and used up.
Used == SubSeq(read, start, IF stage = "rule" THEN Len(read) - 1 ELSE Len(read))

\* What is read becomes what is used up when a rule skips it, and not when a
\* rule leaves it to the next.
LEMMA UsedUp ==
  ASSUME IInv, LoopOK, rule # "top", start' = start, stage \in {"get", "rule", "last"}
  PROVE  /\ Used \in Seq(0..255)
         /\ Get \/ GetEnd => Used' = Used
         /\ stage = "rule" /\ UNCHANGED read =>
              /\ char = AsInt(AsByte(char)) /\ AsByte(char) \in 0..255
              /\ stage' = "rule" => Used' = Used
              /\ stage' = "get" => Used' = Append(Used, AsByte(char))
<1> USE DEF IInv, TypeOK
<1>1. read \in Seq(0..255) /\ Len(read) \in Nat
  <2>1. read \in Seq(Alphabet) /\ Alphabet \subseteq 0..255
    OBVIOUS
  <2>2. read \in Seq(0..255)
    <3> DEFINE T == 0..255
    <3> HIDE DEF T
    <3>1. ASSUME Alphabet \subseteq T, read \in Seq(Alphabet) PROVE read \in Seq(T)
      BY ONLY <3>1, SeqMonotonic, Zenon
    <3> QED BY <2>1, <3>1 DEF T
  <2> QED BY ONLY <2>2, LenProperties
<1>2. start \in 1..Len(read) + 1 /\ (stage = "rule" => start \in 1..Len(read))
  BY <1>1 DEF LoopOK
<1>3. Used \in Seq(0..255)
  <2>1. SubSeq(read, start, Len(read)) \in Seq(0..255)
    BY ONLY <1>1, <1>2, LastCharacter
  <2>2. stage = "rule" => SubSeq(read, start, Len(read) - 1) \in Seq(0..255)
    BY <1>1, <1>2, LastCharacter
  <2> QED BY <2>1, <2>2 DEF Used
<1>4. ASSUME Get PROVE Used' = Used
  <2>1. PICK byte \in Alphabet : read' = Append(read, byte)
    BY <1>4 DEF Get
  <2>2. stage = "get" /\ stage' = "rule"
    BY <1>4 DEF Get
  <2>3. Used' = SubSeq(Append(read, byte), start, Len(Append(read, byte)) - 1)
    BY <2>1, <2>2 DEF Used
  <2>4. Used = SubSeq(read, start, Len(read))
    BY <2>2 DEF Used
  <2>5. byte \in 0..255
    OBVIOUS
  <2> QED BY <1>1, <1>2, <2>3, <2>4, <2>5, LastCharacter
<1>5. ASSUME GetEnd PROVE Used' = Used
  BY <1>5 DEF GetEnd, Used, lexVars
<1>6. ASSUME stage = "rule", UNCHANGED read
      PROVE  /\ char = AsInt(AsByte(char)) /\ AsByte(char) \in 0..255
             /\ stage' = "rule" => Used' = Used
             /\ stage' = "get" => Used' = Append(Used, AsByte(char))
  <2> DEFINE b == read[Len(read)]
  <2>1. Len(read) \in 1..Len(read)
    BY <1>1, <1>2, <1>6
  <2>2. b \in 0..255
    BY <1>1, <2>1, ElementOfSeq
  <2>3. char = AsInt(b)
    BY <1>6 DEF LoopOK
  <2>4. AsByte(char) = b
    BY <2>2, <2>3, SeenAsRead
  <2>5. stage' = "rule" => Used' = Used
    BY <1>6 DEF Used
  <2>6. ASSUME stage' = "get" PROVE Used' = Append(Used, b)
    <3>1. Used' = SubSeq(read, start, Len(read)) /\ Used = SubSeq(read, start, Len(read) - 1)
      BY <1>6, <2>6 DEF Used
    <3>2. start <= Len(read)
      BY <1>1, <1>2, <1>6
    <3> QED BY <1>1, <1>2, <3>1, <3>2, LastCharacter
  <2> QED BY <2>2, <2>3, <2>4, <2>5, <2>6
<1> QED BY <1>3, <1>4, <1>5, <1>6

\* What the rest of the lexeme may be: after the end of the input, nothing; when
\* a character has not been used up, it is the first, unless the lexeme ends
\* before it; only what is not a digit can end it.
Follows(s) ==
  /\ stage = "last" => s = <<>>
  /\ stage = "rule" => \/ s = <<>> /\ Hex(char) < 0
                       \/ s # <<>> /\ s[1] = AsByte(char)

\* How far the escape that starts at p has been read, if one has.
EscapeAt(raw, p) ==
  /\ p \in 1..Len(raw) + 1
  /\ rule \in {"in_atom", "in_string"} => p = Len(raw) + 1
  /\ rule = "append_escaped" => p = Len(raw)
  /\ rule \in {"in_hex", "append_escaped_hex"} =>
       /\ p = Len(raw) - IF hexByte < 0 THEN 1 ELSE 2
       /\ raw[p + 1] = LetterX
  /\ rule \in {"append_escaped", "in_hex", "append_escaped_hex"} => raw[p] = Backslash
  /\ rule = "in_hex" /\ hexByte >= 0 => hexByte = 16 * Hex(raw[p + 2])
  /\ rule = "append_escaped_hex" /\ hexByte >= 0 =>
       hexByte = 16 * Hex(raw[p + 2]) + IF Hex(char) >= 0 THEN Hex(char) ELSE 0

\* The data are the bytes of these, none of which should have ended the lexeme.
Spells(marks) ==
  /\ Len(marks) = Len(data)
  /\ \A i \in 1..Len(data) :
       /\ marks[i].byte = data[i]
       /\ marks[i].plain => marks[i].byte \notin Delimiters(Within)

\* However the lexeme goes on, Decoded gives what has been collected, and goes
\* on where the escape that is being read starts.
Reads(raw, p, marks) ==
  \A s \in Seq(0..255) : Follows(s) =>
    From(raw \o s)[1] = marks \o From(raw \o s)[p]

\* The data of a comment are what was read.
CommentOK == data = Used /\ \A i \in 1..Len(data) : data[i] # Newline
\* What was collected so far, and where reading it on starts.
Collected(marks, p) == Spells(marks) /\ EscapeAt(Used, p) /\ Reads(Used, p, marks)

\* The invariant.  Once parse() is over nothing is being read.
TextOK ==
  stage \in {"get", "rule", "last"} =>
    /\ rule = "in_comment" => CommentOK
    /\ rule \notin {"top", "in_comment"} =>
         \E marks \in Seq(Marks), p \in Nat : Collected(marks, p)

\* Nothing has been collected at the beginning of a lexeme.
LEMMA TextBegins ==
  ASSUME IInv', rule' \in Lexemes, data' = <<>>, Used' = <<>>
  PROVE  TextOK'
<1>1. ctx' = <<>>
  BY DEF IInv, ContextOK
<1>2. CommentOK'
  BY DEF CommentOK
<1>3. rule' \in {"in_atom", "in_string"} => Collected(<<>>, 1)'
  <2>1. Spells(<<>>)'
    BY DEF Spells
  <2>2. rule' \in {"in_atom", "in_string"} => EscapeAt(Used, 1)'
    BY DEF EscapeAt
  <2>3. ASSUME NEW s \in Seq(0..255) PROVE From(<<>> \o s)[1] = <<>> \o From(<<>> \o s)[1]
    <3>1. <<>> \o s = s
      BY ConcatEmptySeq
    <3>2. Len(s) \in Nat
      BY LenProperties
    <3>3. From(s)[1] \in Seq(Meanings(s))
      BY <3>2, FromUnfolds
    <3>4. <<>> \o From(s)[1] = From(s)[1]
      BY <3>3, ConcatEmptySeq
    <3> QED BY <3>1, <3>4
  <2>4. Reads(Used, 1, <<>>)'
    BY <2>3 DEF Reads
  <2> QED BY <2>1, <2>2, <2>4 DEF Collected
<1>4. <<>> \in Seq(Marks) /\ 1 \in Nat
  OBVIOUS
<1> QED BY <1>2, <1>3, <1>4 DEF TextOK

\* A character used up is one of the text that may follow.
LEMMA ReadsOn ==
  ASSUME IInv, LoopOK, rule # "top", stage = "rule", stage' = "get", UNCHANGED <<read, start>>,
         NEW marks \in Seq(Marks), NEW p \in Nat, Reads(Used, p, marks)
  PROVE  /\ \A s \in Seq(0..255) : From(Used' \o s)[1] = marks \o From(Used' \o s)[p]
         /\ Reads(Used, p, marks)'
<1> DEFINE b == AsByte(char)
<1>1. /\ Used \in Seq(0..255) /\ b \in 0..255
      /\ Used' = Append(Used, b)
  BY UsedUp
<1>2. ASSUME NEW s \in Seq(0..255)
      PROVE  From(Used' \o s)[1] = marks \o From(Used' \o s)[p]
  <2>1. /\ <<b>> \o s \in Seq(0..255)
        /\ <<b>> \o s # <<>>
        /\ (<<b>> \o s)[1] = b
        /\ Append(Used, b) \o s = Used \o (<<b>> \o s)
    BY <1>1, NextThenRest
  <2>2. Follows(<<b>> \o s)
    BY <2>1 DEF Follows
  <2>3. From(Used \o (<<b>> \o s))[1] = marks \o From(Used \o (<<b>> \o s))[p]
    BY <2>1, <2>2 DEF Reads
  <2> QED BY <1>1, <2>1, <2>3
<1>3. Reads(Used, p, marks)'
  BY <1>2 DEF Reads
<1> QED BY <1>2, <1>3

\* And so is the one that ends what stands for one character.
LEMMA ReadsPast ==
  ASSUME IInv, LoopOK, rule # "top", stage = "rule", stage' = "get", UNCHANGED <<read, start>>,
         NEW marks \in Seq(Marks), NEW p \in 1..Len(Used) + 1, NEW m, NEW q,
         Reads(Used, p, marks),
         \A s \in Seq(0..255) : Meaning(Used' \o s, p) = m /\ After(Used' \o s, p) = q
  PROVE  Reads(Used, q, Append(marks, m))'
<1>1. /\ Used \in Seq(0..255) /\ AsByte(char) \in 0..255
      /\ Used' = Append(Used, AsByte(char))
  BY UsedUp
<1>2. Used' \in Seq(0..255) /\ Len(Used') = Len(Used) + 1 /\ Len(Used) \in Nat
  BY <1>1, AppendProperties, LenProperties
<1>3. ASSUME NEW s \in Seq(0..255)
      PROVE  From(Used' \o s)[1] = Append(marks, m) \o From(Used' \o s)[q]
  <2> DEFINE W == Used' \o s
  <2>1. W \in Seq(0..255) /\ Len(W) = Len(Used') + Len(s) /\ Len(s) \in Nat
    <3>1. Len(s) \in Nat
      BY LenProperties
    <3>2. W \in Seq(0..255) /\ Len(W) = Len(Used') + Len(s)
      BY ONLY <1>2, s \in Seq(0..255), Joined
    <3> QED BY <3>1, <3>2
  <2>2. p \in 1..Len(W) /\ p \in Nat
    BY <1>2, <2>1
  <2>3. From(W)[1] = marks \o From(W)[p]
    BY <2>2, ReadsOn
  <2>4. Meaning(W, p) = m /\ After(W, p) = q
    OBVIOUS
  <2> HIDE DEF W
  <2>5. From(W)[1] = Append(marks, m) \o From(W)[q]
    BY <2>1, <2>2, <2>3, <2>4, SaidSoFar
  <2> QED BY <2>5 DEF W
<1> QED BY <1>3 DEF Reads

\* A byte is collected with its mark.
LEMMA SpellsOn ==
  ASSUME data \in Seq(0..255), NEW marks \in Seq(Marks), NEW m \in Marks, Spells(marks),
         data' = Append(data, m.byte), Within' = Within,
         m.plain => m.byte \notin Delimiters(Within)
  PROVE  Append(marks, m) \in Seq(Marks) /\ Spells(Append(marks, m))'
<1>1. m.byte \in 0..255
  BY DEF Marks
<1>2. /\ Append(marks, m) \in Seq(Marks)
      /\ Len(Append(marks, m)) = Len(marks) + 1
      /\ \A i \in 1..Len(marks) : Append(marks, m)[i] = marks[i]
      /\ Append(marks, m)[Len(marks) + 1] = m
  BY AppendProperties
<1>3. /\ Len(data') = Len(data) + 1
      /\ \A i \in 1..Len(data) : data'[i] = data[i]
      /\ data'[Len(data) + 1] = m.byte
  BY <1>1, AppendProperties
<1>4. Len(marks) = Len(data) /\ Len(data) \in Nat
  BY LenProperties DEF Spells
<1>5. ASSUME NEW i \in 1..Len(data')
      PROVE  /\ Append(marks, m)[i].byte = data'[i]
             /\ Append(marks, m)[i].plain => Append(marks, m)[i].byte \notin Delimiters(Within)
  <2>1. i \in 1..Len(data) \/ i = Len(data) + 1
    BY <1>3, <1>4
  <2>2. CASE i \in 1..Len(data)
    BY <1>2, <1>3, <1>4, <2>2 DEF Spells
  <2>3. CASE i = Len(data) + 1
    BY <1>2, <1>3, <1>4, <2>3
  <2> QED BY <2>1, <2>2, <2>3
<1> QED BY <1>2, <1>3, <1>4, <1>5 DEF Spells

\* The places of a text are those of one that goes on.
LEMMA GoesOn ==
  ASSUME NEW u \in Seq(0..255), NEW s \in Seq(0..255)
  PROVE  /\ u \o s \in Seq(0..255)
         /\ \A i \in 1..Len(u) : (u \o s)[i] = u[i] /\ i \in 1..Len(u \o s)
<1>1. Len(u) \in Nat /\ Len(s) \in Nat
  BY LenProperties
<1>2. /\ u \o s \in Seq(0..255)
      /\ Len(u \o s) = Len(u) + Len(s)
      /\ \A i \in 1..Len(u) : (u \o s)[i] = u[i]
  BY Joined
<1> QED BY <1>1, <1>2

\* The byte b is used up: the character that the rule sees is b - or, where char
\* is signed, what b is as an int.
IsUsedUp(b) ==
  /\ b = AsByte(char)
  /\ char = b \/ (char < 0 /\ b > 127)
  /\ Hex(char) = Hex(b) /\ Hex(b) \in -1..15
  /\ Unescaped(char) = Unescaped(b) /\ Unescaped(b) \in 0..255
  /\ Used \in Seq(0..255) /\ Len(Used) \in Nat
  /\ Used' \in Seq(0..255) /\ Len(Used') = Len(Used) + 1
  /\ Used'[Len(Used) + 1] = b
  /\ \A i \in 1..Len(Used) : Used'[i] = Used[i]

\* The character that a rule uses up is added to what has been used up; it is
\* the one the rule sees.
LEMMA NextCharacter ==
  ASSUME IInv, LoopOK, rule # "top", stage = "rule", stage' = "get", UNCHANGED <<read, start>>
  PROVE  \E b \in 0..255 : IsUsedUp(b)
<1>1. PICK b \in 0..255 : b = AsByte(char) /\ char = AsInt(b)
  BY UsedUp
<1>2. Used \in Seq(0..255) /\ Used' = Append(Used, b)
  BY <1>1, UsedUp
<1>3. /\ Hex(char) = Hex(b) /\ Unescaped(char) = Unescaped(b)
      /\ char = b \/ (char < 0 /\ b > 127)
  <2>1. char = AsInt(b)
    BY <1>1
  <2>2. Hex(AsInt(b)) = Hex(b) /\ Unescaped(AsInt(b)) = Unescaped(b)
    BY SeenAsRead
  <2>3. AsInt(b) = b \/ (AsInt(b) < 0 /\ b > 127)
    BY DEF AsInt
  <2> QED BY <2>1, <2>2, <2>3
<1>4. Hex(b) \in -1..15 /\ Unescaped(b) \in 0..255
  <2>1. b \in -128..255
    OBVIOUS
  <2> QED BY <2>1, Bytes
<1>5. Len(Used) \in Nat
  BY ONLY <1>2, LenProperties
<1>6. /\ Append(Used, b) \in Seq(0..255) /\ Len(Append(Used, b)) = Len(Used) + 1
      /\ Append(Used, b)[Len(Used) + 1] = b
      /\ \A i \in 1..Len(Used) : Append(Used, b)[i] = Used[i]
  BY ONLY <1>2, b \in 0..255, AppendProperties
<1> QED BY <1>1, <1>2, <1>3, <1>4, <1>5, <1>6 DEF IsUsedUp

\* The steps of an escape before its character is collected: what is used up
\* belongs to it.
LEMMA EscapeGoesOn ==
  ASSUME IInv, LoopOK, TextOK, EscapeBegins \/ HexBegins \/ FirstDigit
  PROVE  TextOK'
<1>0. data \in Seq(0..255) /\ hexByte \in -1..255 /\ ContextOK
  BY DEF IInv, TypeOK
<1> SUFFICES ASSUME stage' \in {"get", "rule"} PROVE TextOK'
  BY RuleReturns DEF TextOK, RuleCalled
<1>1. /\ stage = "rule" /\ stage' = "get" /\ UNCHANGED <<read, start, data, char>>
      /\ rule \notin {"top", "in_comment"} /\ rule' \notin {"top", "in_comment"}
  BY RuleReturns DEF EscapeBegins, HexBegins, FirstDigit, Push, Skip, Calls, RuleCalled
<1>2. PICK marks \in Seq(Marks), p \in Nat : Collected(marks, p)
  BY <1>1 DEF TextOK
<1>3. Within' = Within
  <2>1. CASE EscapeBegins \/ HexBegins
    BY <2>1, WithinKept
  <2>2. CASE FirstDigit
    BY <2>2 DEF FirstDigit, Within
  <2> QED BY <2>1, <2>2
<1>4. Spells(marks)'
  BY <1>1, <1>2, <1>3 DEF Collected, Spells
<1>5. Reads(Used, p, marks)'
  BY <1>1, <1>2, ReadsOn DEF Collected
<1>6. EscapeAt(Used, p)'
  <2>1. PICK b \in 0..255 : IsUsedUp(b)
    BY <1>1, NextCharacter
  <2>2. /\ Hex(char) = Hex(b) /\ Hex(b) \in -1..15
        /\ char = b \/ (char < 0 /\ b > 127)
    BY ONLY <2>1 DEF IsUsedUp
  <2>3. Len(Used) \in Nat /\ Len(Used') = Len(Used) + 1
    BY ONLY <2>1 DEF IsUsedUp
  <2>4. /\ Used'[Len(Used) + 1] = b
        /\ \A i \in 1..Len(Used) : Used'[i] = Used[i]
    BY ONLY <2>1 DEF IsUsedUp
  <2>5. EscapeAt(Used, p) /\ p \in 1..Len(Used) + 1
    BY <1>2 DEF Collected, EscapeAt
  <2>6. CASE EscapeBegins
    <3>1. p = Len(Used) + 1 /\ rule' = "append_escaped" /\ b = Backslash
      BY <2>2, <2>5, <2>6 DEF EscapeBegins, Calls, Push, EscapeAt, Backslash
    <3>2. p = Len(Used') /\ p \in 1..Len(Used') + 1 /\ Used'[p] = Backslash
      BY <2>3, <2>4, <3>1
    <3> QED BY <3>1, <3>2 DEF EscapeAt
  <2>7. CASE HexBegins
    <3>1. /\ p = Len(Used) /\ rule' = "in_hex" /\ hexByte' = -1 /\ b = LetterX
          /\ Used[p] = Backslash
      BY <2>2, <2>5, <2>7 DEF HexBegins, Calls, Push, EscapeAt, LetterX
    <3>2. p \in 1..Len(Used) /\ p + 1 = Len(Used) + 1
      BY <2>3, <2>5, <3>1
    <3>3. Used'[p] = Backslash /\ Used'[p + 1] = LetterX
      BY <2>4, <3>1, <3>2
    <3>4. p = Len(Used') - 1 /\ p \in 1..Len(Used') + 1
      BY <2>3, <3>1, <3>2
    <3> QED BY <3>1, <3>3, <3>4 DEF EscapeAt
  <2>8. CASE FirstDigit
    <3>1. /\ p = Len(Used) - 1 /\ rule' = "in_hex" /\ hexByte' = 16 * Hex(b) /\ Hex(b) >= 0
          /\ Used[p] = Backslash /\ Used[p + 1] = LetterX
      BY <2>2, <2>5, <2>8 DEF FirstDigit, Calls, EscapeAt
    <3>2. p \in 1..Len(Used) /\ p + 1 \in 1..Len(Used) /\ p + 2 = Len(Used) + 1
      BY <2>3, <2>5, <3>1
    <3>3. ~(hexByte' < 0)
      <4>1. Hex(b) \in 0..15
        BY <2>2, <3>1
      <4>2. \A n \in 0..15 : ~(16 * n < 0)
        OBVIOUS
      <4> QED BY <3>1, <4>1, <4>2
    <3>4. Used'[p] = Backslash /\ Used'[p + 1] = LetterX /\ Used'[p + 2] = b
      BY <2>4, <3>1, <3>2
    <3>5. p = Len(Used') - 2 /\ p \in 1..Len(Used') + 1
      BY <2>3, <3>1, <3>2
    <3> QED BY <3>1, <3>3, <3>4, <3>5 DEF EscapeAt
  <2> QED BY <2>6, <2>7, <2>8
<1>7. Collected(marks, p)'
  BY <1>4, <1>5, <1>6 DEF Collected
<1> QED BY <1>1, <1>7 DEF TextOK

\* The two characters of an escape stand for one.
LEMMA EscapedMeans ==
  ASSUME NEW W \in Seq(0..255), NEW p \in 1..Len(W), W[p] = Backslash, W[p + 1] # LetterX
  PROVE  /\ Meaning(W, p) = [plain |-> FALSE, byte |-> Unescaped(W[p + 1])]
         /\ After(W, p) = p + 2
BY DEF Meaning, After, IsHexEscape, IsEscape

\* A character that begins no escape stands for itself.
LEMMA PlainMeans ==
  ASSUME NEW W \in Seq(0..255), NEW p \in 1..Len(W), W[p] # Backslash
  PROVE  /\ Meaning(W, p) = [plain |-> TRUE, byte |-> W[p]]
         /\ After(W, p) = p + 1
BY DEF Meaning, After, IsHexEscape, IsEscape

\* A second digit is looked at, and left.
LEMMA HexMeans ==
  ASSUME NEW W \in Seq(0..255), NEW p \in 1..Len(W), W[p] = Backslash, W[p + 1] = LetterX
  PROVE  /\ Meaning(W, p) =
              [plain |-> FALSE, byte |-> 16 * Hex(W[p + 2]) + SecondDigit(W, p + 3)]
         /\ After(W, p) = p + 3
BY DEF Meaning, After, IsHexEscape, IsEscape

\* The steps that collect a byte and use its character up.
LEMMA CharacterCollected ==
  ASSUME IInv, LoopOK, TextOK, Ordinary \/ Escaped, rule # "in_comment"
  PROVE  TextOK'
<1>0. data \in Seq(0..255) /\ hexByte \in -1..255 /\ ContextOK
  BY DEF IInv, TypeOK
<1> SUFFICES ASSUME stage' \in {"get", "rule"} PROVE TextOK'
  BY RuleReturns DEF TextOK, RuleCalled
<1>1. /\ stage = "rule" /\ stage' = "get" /\ UNCHANGED <<read, start, char>>
      /\ rule \notin {"top", "in_comment"}
  BY RuleReturns DEF Ordinary, Escaped, Skip, Calls, RuleCalled
<1>2. PICK marks \in Seq(Marks), p \in Nat : Collected(marks, p)
  BY <1>1 DEF TextOK
<1>3. PICK b \in 0..255 : IsUsedUp(b)
  BY <1>1, NextCharacter
<1>4. /\ char = b \/ (char < 0 /\ b > 127)
      /\ b = AsByte(char) /\ Unescaped(char) = Unescaped(b) /\ Unescaped(b) \in 0..255
  BY ONLY <1>3 DEF IsUsedUp
<1>5. Len(Used) \in Nat /\ Len(Used') = Len(Used) + 1
  BY ONLY <1>3 DEF IsUsedUp
<1>6. /\ Used'[Len(Used) + 1] = b
      /\ \A i \in 1..Len(Used) : Used'[i] = Used[i]
  BY ONLY <1>3 DEF IsUsedUp
<1>7. ASSUME NEW s \in Seq(0..255)
      PROVE  /\ Used' \o s \in Seq(0..255)
             /\ \A i \in 1..Len(Used') : (Used' \o s)[i] = Used'[i] /\ i \in 1..Len(Used' \o s)
  <2>1. Used' \in Seq(0..255)
    BY ONLY <1>3 DEF IsUsedUp
  <2> QED BY ONLY <2>1, s \in Seq(0..255), GoesOn
<1>8. EscapeAt(Used, p) /\ Spells(marks) /\ Reads(Used, p, marks) /\ p \in 1..Len(Used) + 1
  BY <1>2 DEF Collected, EscapeAt
<1>9. ASSUME NEW m \in Marks, data' = Append(data, m.byte), Within' = Within,
             m.plain => m.byte \notin Delimiters(Within),
             rule' \in {"in_atom", "in_string"},
             \A s \in Seq(0..255) :
               Meaning(Used' \o s, p) = m /\ After(Used' \o s, p) = Len(Used') + 1
      PROVE  TextOK'
  <2>1. Append(marks, m) \in Seq(Marks) /\ Spells(Append(marks, m))'
    BY <1>0, <1>8, <1>9, SpellsOn
  <2>2. PICK q \in Nat : q = Len(Used') + 1
    BY <1>5
  <2>3. Reads(Used, q, Append(marks, m))'
    BY <1>1, <1>8, <1>9, <2>2, ReadsPast
  <2>4. EscapeAt(Used, q)'
    <3>1. q \in 1..Len(Used') + 1
      BY <1>5, <2>2
    <3> QED BY <1>9, <2>2, <3>1 DEF EscapeAt
  <2>5. Collected(Append(marks, m), q)'
    BY <2>1, <2>3, <2>4 DEF Collected
  <2> QED BY <1>9, <2>1, <2>5 DEF TextOK
<1>10. CASE Ordinary
  <2> DEFINE m == [plain |-> TRUE, byte |-> b]
  <2>1. m \in Marks /\ m.byte = b
    BY DEF Marks
  <2>2. /\ rule \in {"in_atom", "in_string"} /\ rule' = rule /\ data' = Append(data, b)
        /\ Within' = Within /\ Within = rule
    BY <1>0, <1>1, <1>4, <1>10 DEF Ordinary, Calls, Collect, Within, ContextOK
  <2>3. b # Backslash
    BY <1>4, <1>10, <2>2 DEF Ordinary, Calls, Backslash
  <2>4. b \notin Delimiters(rule)
    <3>1. CASE rule = "in_string"
      BY <1>4, <1>10, <3>1 DEF Ordinary, Calls, EndsString, Quote, Delimiters
    <3>2. CASE rule = "in_atom"
      <4>1. ~EndsAtom(char)
        BY <1>10, <3>2 DEF Ordinary, Calls
      <4>2. b \notin {LParen, RParen, 9, 10, 11, 12, 13, 32}
        BY <1>4, <4>1 DEF EndsAtom, IsSpace, LParen, RParen
      <4> QED BY <3>2, <4>2 DEF Delimiters
    <3> QED BY <2>2, <3>1, <3>2
  <2>5. p = Len(Used) + 1 /\ p = Len(Used') /\ p \in 1..Len(Used')
    BY <1>5, <1>8, <2>2 DEF EscapeAt
  <2>6. ASSUME NEW s \in Seq(0..255)
        PROVE  Meaning(Used' \o s, p) = m /\ After(Used' \o s, p) = Len(Used') + 1
    <3>1. /\ Used' \o s \in Seq(0..255) /\ p \in 1..Len(Used' \o s)
          /\ (Used' \o s)[p] = b
      BY <1>6, <1>7, <2>5
    <3> QED BY ONLY <2>3, <2>5, <3>1, PlainMeans
  <2> HIDE DEF m
  <2> QED BY <1>9, <2>1, <2>2, <2>4, <2>6
<1>11. CASE Escaped
  <2> DEFINE m == [plain |-> FALSE, byte |-> Unescaped(b)]
  <2>1. m \in Marks /\ m.byte = Unescaped(b) /\ m.plain = FALSE
    BY <1>4 DEF Marks
  <2>2. /\ rule = "append_escaped" /\ data' = Append(data, Unescaped(b)) /\ char # LetterX
    BY <1>4, <1>11 DEF Escaped, Calls, Collect
  <2>3. Within' = Within /\ rule' \in {"in_atom", "in_string"}
    <3>1. PICK r \in {"in_string", "in_atom"} : ctx = <<r>>
      BY <1>0, <1>11 DEF Escaped, Calls, ContextOK
    <3>2. rule' = Head(<<r>>)
      BY <1>11, <3>1 DEF Escaped, Pop
    <3> QED BY <1>11, <3>2, WithinKept
  <2>4. b # LetterX
    BY <1>4, <2>2 DEF LetterX
  <2>5. p = Len(Used) /\ Used[p] = Backslash
    BY <1>8, <2>2 DEF EscapeAt
  <2>6. /\ p \in 1..Len(Used) /\ p \in 1..Len(Used') /\ p + 1 \in 1..Len(Used')
        /\ p + 1 = Len(Used) + 1 /\ p + 2 = Len(Used') + 1
    BY <1>5, <1>8, <2>5
  <2>7. ASSUME NEW s \in Seq(0..255)
        PROVE  Meaning(Used' \o s, p) = m /\ After(Used' \o s, p) = Len(Used') + 1
    <3>1. Used' \o s \in Seq(0..255) /\ p \in 1..Len(Used' \o s)
      BY <1>7, <2>6
    <3>2. (Used' \o s)[p] = Backslash /\ (Used' \o s)[p + 1] = b
      BY <1>6, <1>7, <2>5, <2>6
    <3> QED BY ONLY <2>4, <2>6, <3>1, <3>2, EscapedMeans
  <2> HIDE DEF m
  <2> QED BY <1>9, <2>1, <2>2, <2>3, <2>7
<1> QED BY <1>10, <1>11

\* What ends the digits is left to the rules below.
LEMMA DigitsEnd ==
  ASSUME IInv, LoopOK, TextOK, HexEnds
  PROVE  TextOK'
<1>0. hexByte \in -1..255 /\ Hex(char) \in -1..15
  BY Bytes DEF IInv, TypeOK
<1> SUFFICES ASSUME stage' \in {"get", "rule"} PROVE TextOK'
  BY RuleReturns DEF TextOK, RuleCalled
<1>1. /\ stage = "rule" /\ stage' = "rule" /\ UNCHANGED <<read, start, data, char>>
      /\ rule = "in_hex"
  BY RuleReturns DEF HexEnds, Stay, Calls, RuleCalled
<1>2. rule' = "append_escaped_hex"
  <2>1. PICK r \in {"in_string", "in_atom"} : ctx = <<"append_escaped_hex", r>>
    BY <1>1 DEF IInv, ContextOK
  <2>2. rule' = Head(ctx)
    BY DEF HexEnds, Pop
  <2> QED BY <2>1, <2>2, Stacks
<1>3. PICK marks \in Seq(Marks), p \in Nat : Collected(marks, p)
  BY <1>1 DEF TextOK
<1>4. Used' = Used
  BY <1>1, UsedUp
<1>5. Spells(marks)'
  BY <1>1, <1>3, WithinKept DEF Collected, Spells
<1>6. Reads(Used, p, marks)'
  BY <1>1, <1>3, <1>4 DEF Collected, Reads, Follows
<1>7. EscapeAt(Used, p)'
  <2>1. /\ p \in 1..Len(Used) + 1
        /\ p = Len(Used) - IF hexByte < 0 THEN 1 ELSE 2
        /\ Used[p + 1] = LetterX
        /\ Used[p] = Backslash
        /\ hexByte >= 0 => hexByte = 16 * Hex(Used[p + 2])
    BY <1>1, <1>3 DEF Collected, EscapeAt
  <2>2. /\ hexByte < 0 => hexByte' < 0
        /\ hexByte >= 0 => /\ hexByte' >= 0
                           /\ hexByte' = hexByte + IF Hex(char) >= 0 THEN Hex(char) ELSE 0
    BY <1>0 DEF HexEnds
  <2>3. ~(hexByte < 0) <=> hexByte >= 0
    BY <1>0
  <2>4. p = Len(Used) - IF hexByte' < 0 THEN 1 ELSE 2
    <3>1. CASE hexByte < 0
      BY <2>1, <2>2, <3>1
    <3>2. CASE hexByte >= 0
      <4>1. ~(hexByte < 0) /\ ~(hexByte' < 0)
        BY <1>0, <2>2, <3>2
      <4> QED BY <2>1, <4>1
    <3> QED BY <2>3, <3>1, <3>2
  <2>5. ASSUME hexByte' >= 0
        PROVE  hexByte' = 16 * Hex(Used[p + 2]) + IF Hex(char) >= 0 THEN Hex(char) ELSE 0
    <3>1. hexByte >= 0
      BY <1>0, <2>2, <2>5 DEF HexEnds
    <3> QED BY <2>1, <2>2, <3>1
  <2> QED BY <1>1, <1>2, <1>4, <2>1, <2>4, <2>5 DEF EscapeAt
<1>8. Collected(marks, p)'
  BY <1>5, <1>6, <1>7 DEF Collected
<1> QED BY <1>2, <1>8 DEF TextOK

\* The byte the digits give is collected, and what ended them is left to the
\* string or atom: what Decoded gives once more as a character.
LEMMA ByteCollected ==
  ASSUME IInv, LoopOK, TextOK, AppendHex
  PROVE  TextOK'
<1>0. data \in Seq(0..255) /\ hexByte \in -1..255 /\ ContextOK
  BY DEF IInv, TypeOK
<1> SUFFICES ASSUME stage' \in {"get", "rule"} PROVE TextOK'
  BY RuleReturns DEF TextOK, RuleCalled
<1>1. /\ stage = "rule" /\ stage' = "rule" /\ UNCHANGED <<read, start, char>>
      /\ rule = "append_escaped_hex" /\ ~NoDigits /\ data' = Append(data, hexByte)
  BY RuleReturns DEF AppendHex, Stay, Throw, Calls, Collect, RuleCalled
<1>2. hexByte >= 0 /\ ~(hexByte < 0) /\ hexByte \in 0..255
  BY <1>0, <1>1 DEF NoDigits
<1>3. PICK marks \in Seq(Marks), p \in Nat : Collected(marks, p)
  BY <1>1 DEF TextOK
<1>4. Used' = Used /\ Used \in Seq(0..255)
  BY <1>1, UsedUp
<1>5. /\ p = Len(Used) - 2 /\ p \in 1..Len(Used) + 1
      /\ Used[p] = Backslash /\ Used[p + 1] = LetterX
      /\ hexByte = 16 * Hex(Used[p + 2]) + IF Hex(char) >= 0 THEN Hex(char) ELSE 0
  BY <1>1, <1>2, <1>3 DEF Collected, EscapeAt
<1>6. Len(Used) \in Nat
  BY ONLY <1>4, LenProperties
<1>7. /\ p \in 1..Len(Used) /\ p + 1 \in 1..Len(Used) /\ p + 2 \in 1..Len(Used)
      /\ p + 3 = Len(Used) + 1 /\ p + 3 \in Nat
  BY <1>5, <1>6
<1> DEFINE m == [plain |-> FALSE, byte |-> hexByte]
<1>8. PICK mark \in Marks : mark = m
  BY <1>2 DEF Marks
<1>9. ASSUME NEW s \in Seq(0..255), Follows(s)
      PROVE  From(Used \o s)[1] = Append(marks, mark) \o From(Used \o s)[p + 3]
  <2> DEFINE W == Used \o s
  <2>1. W \in Seq(0..255) /\ \A i \in 1..Len(Used) : W[i] = Used[i] /\ i \in 1..Len(W)
    BY ONLY <1>4, s \in Seq(0..255), GoesOn
  <2>2. From(W)[1] = marks \o From(W)[p]
    BY <1>3, <1>9 DEF Collected, Reads
  <2>3. SecondDigit(W, p + 3) = IF Hex(char) >= 0 THEN Hex(char) ELSE 0
    <3>1. Hex(AsByte(char)) = Hex(char)
      <4>1. char = AsInt(AsByte(char)) /\ AsByte(char) \in 0..255
        BY <1>1, UsedUp
      <4> QED BY ONLY <4>1, SeenAsRead
    <3>2. CASE s = <<>> /\ Hex(char) < 0
      <4>1. W = Used
        BY ONLY <3>2, <1>4, ConcatEmptySeq
      <4>2. ~(p + 3 <= Len(W))
        BY <1>6, <1>7, <4>1
      <4>3. ~(Hex(char) >= 0)
        <5>1. Hex(char) \in -1..15
          BY Bytes DEF IInv, TypeOK
        <5> QED BY <3>2, <5>1
      <4> QED BY <4>2, <4>3 DEF SecondDigit
    <3>3. CASE s # <<>> /\ s[1] = AsByte(char)
      <4>1. Len(s) \in Nat \ {0}
        BY ONLY <3>3, s \in Seq(0..255), EmptySeq
      <4>2. Len(W) = Len(Used) + Len(s) /\ W[Len(Used) + 1] = s[1]
        <5>1. 1 \in 1..Len(s)
          BY <4>1
        <5> QED BY ONLY <5>1, <1>4, s \in Seq(0..255), Joined
      <4>3. p + 3 <= Len(W) /\ W[p + 3] = AsByte(char)
        BY <1>6, <1>7, <3>3, <4>1, <4>2
      <4> QED BY <3>1, <4>3 DEF SecondDigit
    <3> QED BY <1>1, <1>9, <3>2, <3>3 DEF Follows
  <2>4. W[p] = Backslash /\ W[p + 1] = LetterX /\ W[p + 2] = Used[p + 2] /\ p \in 1..Len(W)
    BY <1>5, <1>7, <2>1
  <2> HIDE DEF W
  <2>5. /\ Meaning(W, p) = [plain |-> FALSE, byte |-> 16 * Hex(W[p + 2]) + SecondDigit(W, p + 3)]
        /\ After(W, p) = p + 3
    BY ONLY <2>1, <2>4, HexMeans
  <2>6. Meaning(W, p) = mark
    BY <1>5, <1>8, <2>3, <2>4, <2>5
  <2>7. From(W)[1] = Append(marks, Meaning(W, p)) \o From(W)[After(W, p)]
    BY <2>1, <2>2, <2>4, SaidSoFar
  <2> QED BY <2>5, <2>6, <2>7 DEF W
<1>10. Append(marks, mark) \in Seq(Marks) /\ Spells(Append(marks, mark))'
  <2>1. Spells(marks) /\ Within' = Within
    BY <1>1, <1>3, WithinKept DEF Collected
  <2>2. data' = Append(data, mark.byte) /\ ~mark.plain
    BY <1>1, <1>8
  <2> QED BY <1>0, <2>1, <2>2, SpellsOn
<1>11. PICK q \in Nat : q = p + 3
  BY <1>7
<1>12. Reads(Used, q, Append(marks, mark))'
  BY <1>1, <1>4, <1>9, <1>11 DEF Reads, Follows
<1>13. rule' \in {"in_atom", "in_string"}
  <2>1. PICK r \in {"in_string", "in_atom"} : ctx = <<r>>
    BY <1>0, <1>1 DEF ContextOK
  <2>2. rule' = Head(ctx)
    BY <1>1 DEF AppendHex, Pop
  <2> QED BY <2>1, <2>2, Stacks
<1>14. EscapeAt(Used, q)'
  <2>1. q = Len(Used') + 1 /\ q \in 1..Len(Used') + 1
    BY <1>4, <1>6, <1>7, <1>11
  <2> QED BY <1>13, <2>1 DEF EscapeAt
<1>15. Collected(Append(marks, mark), q)'
  BY <1>10, <1>12, <1>14 DEF Collected
<1> QED BY <1>10, <1>13, <1>15 DEF TextOK

\* The main loop reads a character or the end: nothing is used up by that.
LEMMA LoopReads ==
  ASSUME IInv, LoopOK, TextOK, Get \/ GetEnd
  PROVE  TextOK'
<1>1. /\ stage = "get" /\ UNCHANGED <<rule, ctx, data, hexByte, start>>
      /\ Within' = Within
  BY DEF Get, GetEnd, lexVars, Within
<1>2. CASE rule = "top"
  BY <1>1, <1>2 DEF TextOK
<1>3. CASE rule # "top"
  <2>1. Used' = Used
    BY <1>1, <1>3, UsedUp
  <2>2. CASE rule = "in_comment"
    BY <1>1, <2>1, <2>2 DEF TextOK, CommentOK
  <2>3. CASE rule # "in_comment"
    <3>1. PICK marks \in Seq(Marks), p \in Nat : Collected(marks, p)
      BY <1>1, <1>3, <2>3 DEF TextOK
    <3>2. Spells(marks)'
      BY <1>1, <3>1 DEF Collected, Spells
    <3>3. Reads(Used, p, marks)'
      BY <1>1, <2>1, <3>1 DEF Collected, Reads, Follows
    <3>4. EscapeAt(Used, p)'
      <4>1. rule # "append_escaped_hex"
        BY <1>1 DEF LoopOK
      <4> QED BY <1>1, <2>1, <3>1, <4>1 DEF Collected, EscapeAt
    <3>5. Collected(marks, p)'
      BY <3>2, <3>3, <3>4 DEF Collected
    <3> QED BY <1>1, <1>3, <2>3, <3>5 DEF TextOK
  <2> QED BY <2>2, <2>3
<1> QED BY <1>2, <1>3

\* A comment is collected as it is.
LEMMA CommentCollected ==
  ASSUME IInv, LoopOK, TextOK, Ordinary, rule = "in_comment"
  PROVE  TextOK'
<1> SUFFICES ASSUME stage' \in {"get", "rule"} PROVE TextOK'
  BY RuleReturns DEF TextOK, RuleCalled
<1>1. /\ stage = "rule" /\ stage' = "get" /\ UNCHANGED <<read, start, char>>
      /\ rule' = "in_comment" /\ char # Newline /\ data' = Append(data, AsByte(char))
  BY RuleReturns DEF Ordinary, Skip, Calls, Collect, EndsComment, RuleCalled
<1>2. data \in Seq(0..255) /\ data = Used /\ \A i \in 1..Len(data) : data[i] # Newline
  BY <1>1 DEF TextOK, CommentOK, IInv, TypeOK
<1>3. PICK b \in 0..255 : b = AsByte(char) /\ Used' = Append(Used, b) /\ char = AsInt(b)
  BY <1>1, UsedUp
<1>4. b # Newline
  <2>1. AsInt(b) # Newline
    BY <1>1, <1>3
  <2> QED BY <2>1 DEF AsInt, Newline
<1>5. Len(data) \in Nat
  BY ONLY <1>2, LenProperties
<1>6. data' = Append(data, b) /\ data' = Used'
  BY <1>1, <1>2, <1>3
<1>7. /\ Len(data') = Len(data) + 1
      /\ data'[Len(data) + 1] = b
      /\ \A i \in 1..Len(data) : data'[i] = data[i]
  <2>1. /\ Len(Append(data, b)) = Len(data) + 1
        /\ Append(data, b)[Len(data) + 1] = b
        /\ \A i \in 1..Len(data) : Append(data, b)[i] = data[i]
    BY ONLY <1>2, b \in 0..255, AppendProperties
  <2> QED BY <1>6, <2>1
<1>8. ASSUME NEW i \in 1..Len(data') PROVE data'[i] # Newline
  <2>1. i \in 1..Len(data) \/ i = Len(data) + 1
    BY <1>5, <1>7
  <2> QED BY <1>2, <1>4, <1>7, <2>1
<1> QED BY <1>1, <1>6, <1>8 DEF TextOK, CommentOK

\* A lexeme begins after its first character, or at it.
LEMMA LexemeStarts ==
  ASSUME IInv, IInv', LoopOK, CommentBegins \/ StringBegins \/ AtomBegins
  PROVE  TextOK'
<1> SUFFICES ASSUME stage' \in {"get", "rule"} PROVE TextOK'
  BY RuleReturns DEF TextOK, RuleCalled
<1>1. /\ stage = "rule" /\ read' = read /\ rule' \in Lexemes /\ data' = <<>>
      /\ \/ stage' = "get" /\ start' = Len(read) + 1
         \/ stage' = "rule" /\ start' = Len(read)
  BY RuleReturns DEF CommentBegins, StringBegins, AtomBegins, Use, Skip, Stay, RuleCalled
<1>2. read \in Seq(Alphabet) /\ Len(read) \in Nat \ {0}
  BY <1>1, LenProperties DEF IInv, TypeOK, LoopOK
<1>3. Len(read) \in 1..Len(read) + 1 /\ Len(read) + 1 \in 1..Len(read) + 1
  BY <1>2
<1>4. SubSeq(read, Len(read) + 1, Len(read)) = <<>> /\ SubSeq(read, Len(read), Len(read) - 1) = <<>>
  BY ONLY <1>2, <1>3, LastCharacter
<1>5. Used' = <<>>
  BY <1>1, <1>4 DEF Used
<1> QED BY <1>1, <1>5, TextBegins

\* The invariant of the text is kept.
LEMMA StepTextOK ==
  ASSUME IInv, IInv', LoopOK, TextOK, [Next]_vars
  PROVE  TextOK'
<1>1. ASSUME rule' = "top" \/ stage' \notin {"get", "rule", "last"} PROVE TextOK'
  BY <1>1 DEF TextOK
<1>2. CASE Get \/ GetEnd
  BY <1>2, LoopReads
<1>3. CASE OnEof
  BY <1>1, <1>3 DEF OnEof
<1>4. CASE Over \/ UNCHANGED vars
  <2>1. UNCHANGED <<rule, ctx, data, hexByte, char, stage, read, start>>
    BY <1>4 DEF Over, vars
  <2>2. Used' = Used /\ Within' = Within
    BY <2>1 DEF Used, Within
  <2>3. CommentOK => CommentOK'
    BY <2>1, <2>2 DEF CommentOK
  <2>4. ASSUME NEW marks \in Seq(Marks), NEW p \in Nat, Collected(marks, p)
        PROVE  Collected(marks, p)'
    <3>1. Spells(marks)'
      BY <2>1, <2>2, <2>4 DEF Collected, Spells
    <3>2. EscapeAt(Used, p)'
      BY <2>1, <2>2, <2>4 DEF Collected, EscapeAt
    <3>3. Reads(Used, p, marks)'
      BY <2>1, <2>2, <2>4 DEF Collected, Reads, Follows
    <3> QED BY <3>1, <3>2, <3>3 DEF Collected
  <2> QED BY <2>1, <2>3, <2>4 DEF TextOK
<1>5. CASE ListEnd \/ ListBegin \/ Space
  BY <1>1, <1>5 DEF ListEnd, ListBegin, Space, Throw, lexVars, Calls
<1>6. CASE CommentBegins \/ StringBegins \/ AtomBegins
  BY <1>6, LexemeStarts
<1>7. CASE CommentEnds \/ StringEnds \/ AtomEnds
  BY <1>1, <1>7 DEF CommentEnds, StringEnds, AtomEnds, Report, Use, AfterLexeme
<1>8. CASE StringUnlimited \/ EscapeEos
  BY <1>1, <1>8 DEF StringUnlimited, EscapeEos, Throw
<1>9. CASE Ordinary
  BY <1>9, CommentCollected, CharacterCollected
<1>10. CASE EscapeBegins \/ HexBegins \/ FirstDigit
  BY <1>10, EscapeGoesOn
<1>11. CASE Escaped
  <2>1. rule # "in_comment"
    BY <1>11 DEF Escaped, Calls
  <2> QED BY <1>11, <2>1, CharacterCollected
<1>12. CASE HexEnds
  BY <1>12, DigitsEnd
<1>13. CASE AppendHex
  BY <1>13, ByteCollected
<1> QED BY <1>2, <1>3, <1>4, <1>5, <1>6, <1>7, <1>8, <1>9, <1>10, <1>11, <1>12, <1>13
   DEF Next, RuleCalled

\* What ends a string or an atom is not a digit: nothing has to follow.
LEMMA ReportIsRight ==
  ASSUME IInv, LoopOK, TextOK, CommentEnds \/ StringEnds \/ AtomEnds
  PROVE  ReportAsWritten
<1>1. /\ stage \in {"rule", "last"} /\ rule \in Lexemes /\ told' = data
      /\ ctx = <<>> /\ Within = rule /\ start' = start
  BY DEF CommentEnds, StringEnds, AtomEnds, Report, Calls, IInv, ContextOK, Within
<1> DEFINE raw == SubSeq(read, start, IF stage = "last" THEN Len(read) ELSE Len(read) - 1)
           plainly == [i \in DOMAIN raw |-> [byte |-> raw[i], plain |-> TRUE]]
           lexeme == IF rule = "in_comment" THEN plainly ELSE Decoded(raw)
<1> SUFFICES /\ told' = [i \in DOMAIN lexeme |-> lexeme[i].byte]
             /\ \A i \in DOMAIN lexeme :
                  lexeme[i].plain => lexeme[i].byte \notin Delimiters(rule)
  BY DEF ReportAsWritten
<1>2. raw = Used
  BY <1>1 DEF Used
<1>3. Used \in Seq(0..255) /\ data \in Seq(0..255)
  <2>1. Used \in Seq(0..255)
    BY <1>1, UsedUp
  <2> QED BY <2>1 DEF IInv, TypeOK
<1>4. Len(data) \in Nat /\ DOMAIN data = 1..Len(data) /\ data = [i \in DOMAIN data |-> data[i]]
  BY ONLY <1>3, LenProperties
<1> HIDE DEF raw
<1>5. CASE rule = "in_comment"
  <2>1. lexeme = [i \in DOMAIN data |-> [byte |-> data[i], plain |-> TRUE]]
    BY <1>1, <1>2, <1>5 DEF TextOK, CommentOK
  <2>2. \A i \in DOMAIN data : data[i] # Newline
    BY <1>1, <1>4, <1>5 DEF TextOK, CommentOK
  <2>3. Delimiters(rule) = {Newline}
    BY <1>5 DEF Delimiters
  <2> HIDE DEF lexeme
  <2> QED BY <1>1, <1>4, <2>1, <2>2, <2>3
<1>6. CASE rule # "in_comment"
  <2>1. PICK marks \in Seq(Marks), p \in Nat : Collected(marks, p)
    BY <1>1, <1>6 DEF TextOK
  <2>2. p = Len(Used) + 1
    BY <1>1, <1>6, <2>1 DEF Collected, EscapeAt
  <2>3. Follows(<<>>) /\ <<>> \in Seq(0..255)
    <3>1. stage = "rule" => Hex(char) < 0
      <4>1. CASE StringEnds
        BY <4>1 DEF StringEnds, EndsString, Quote, Hex
      <4>2. CASE AtomEnds
        <5>1. char \in Int /\ char < 48
          BY <4>2 DEF AtomEnds, EndsAtom, IsSpace, LParen, RParen, Eos
        <5>2. char \notin 48..57 /\ char \notin 65..70 /\ char \notin 97..102
          BY <5>1
        <5> QED BY <5>2 DEF Hex
      <4>3. CASE CommentEnds
        BY <1>6, <4>3 DEF CommentEnds, Calls
      <4> QED BY <4>1, <4>2, <4>3
    <3> QED BY <3>1 DEF Follows
  <2>4. Used \o <<>> = Used
    BY ONLY <1>3, ConcatEmptySeq
  <2>5. From(Used)[1] = marks \o From(Used)[p]
    BY <2>1, <2>3, <2>4 DEF Collected, Reads
  <2>6. Decoded(Used) = From(Used)[1] /\ From(Used)[p] = <<>>
    <3>1. Len(Used) \in Nat
      BY ONLY <1>3, LenProperties
    <3>2. p \in 1..Len(Used) + 3 /\ p > Len(Used)
      BY <2>2, <3>1
    <3> QED BY ONLY <1>3, <3>2, FromUnfolds
  <2>7. marks \o <<>> = marks
    BY ONLY marks \in Seq(Marks), ConcatEmptySeq
  <2>8. lexeme = marks
    BY <1>2, <1>6, <2>5, <2>6, <2>7
  <2> HIDE DEF lexeme
  <2>9. DOMAIN marks = 1..Len(data) /\ \A i \in 1..Len(data) : marks[i].byte = data[i]
                                  /\ (marks[i].plain => marks[i].byte \notin Delimiters(rule))
    <3>1. DOMAIN marks = 1..Len(marks)
      BY ONLY marks \in Seq(Marks), LenProperties
    <3> QED BY <1>1, <2>1, <3>1 DEF Collected, Spells
  <2> QED BY <1>1, <1>4, <2>8, <2>9
<1> QED BY <1>5, <1>6

\* Every atom, string and comment is reported as it was written: whatever the
\* input, its escapes are decoded one after the other, and nothing is lost or
\* taken twice where a rule leaves a character to the next.
THEOREM LexemesAreAsWritten == SafeSpec => LexemeAsWritten
<1> DEFINE TextInv == IInv /\ LoopOK /\ TextOK
<1>1. Init => TextInv
  <2> SUFFICES ASSUME Init PROVE LoopOK /\ TextOK
    BY InitIInv
  <2>1. stage = "get" /\ rule = "top"
    BY DEF Init
  <2> QED BY <2>1 DEF LoopOK, TextOK
<1>2. TextInv /\ [Next]_vars => TextInv'
  BY StepContextOK, StepTypeOK, StepLoopOK, StepTextOK DEF IInv
<1>3. TextInv /\ [Next]_vars =>
        [CommentEnds \/ StringEnds \/ AtomEnds => ReportAsWritten]_vars
  BY ReportIsRight
<1> QED BY <1>1, <1>2, <1>3, PTL DEF SafeSpec, LexemeAsWritten
=============================================================================
