-------------------------------- MODULE Sexp --------------------------------
(***************************************************************************)
(* cor::sexp::parse() (include/cor/sexp_impl.hpp): a machine that calls    *)
(* the rule in force with each character of the input.  A rule uses the    *)
(* character up (Skip) or leaves it to the rule that is in force next      *)
(* (Stay).  The rules of an escape are pushed over the atom or string they *)
(* are in.                                                                 *)
(*                                                                         *)
(* Characters are bytes.  What a rule is called with is an int: -1 is the  *)
(* end of the input - and byte 255, where char is signed.                  *)
(***************************************************************************)
EXTENDS Integers, Sequences

CONSTANTS Alphabet,    \* the bytes the input may hold
          MaxInput,    \* bound: the length of the input
          SignedChar   \* is char signed in this build?

ASSUME SexpAssumption ==
  /\ Alphabet \subseteq 0..255
  /\ MaxInput \in Nat
  /\ SignedChar \in BOOLEAN

VARIABLES
  rule,     \* the rule in force
  ctx,      \* rules to go back to, the top first
  level,    \* lists that are open
  data,     \* text collected for the lexeme being read
  hexByte,  \* hex_byte
  char,     \* what the rule is called with
  stage,    \* where the main loop is
  read,     \* history: the input so far
  start,    \* history: where in read the last lexeme starts
  told      \* history: the last text reported

vars == <<rule, ctx, level, data, hexByte, char, stage, read, start, told>>
lexVars == <<rule, ctx, data, hexByte, start>>

LParen == 40
RParen == 41
Semicolon == 59
Quote == 34
Backslash == 92
Newline == 10
LetterX == 120
Eos == -1

IsSpace(c) == c \in 9..13 \cup {32}

AsInt(byte) == IF SignedChar /\ byte > 127 THEN byte - 256 ELSE byte
AsByte(c) == IF c < 0 THEN c + 256 ELSE c

\* char2hex()
Hex(c) ==
  CASE c \in 48..57 -> c - 48
    [] c \in 65..70 -> c - 55
    [] c \in 97..102 -> c - 87
    [] OTHER -> -1

\* \n, \t, \r, \a, \b and \v; any other character stands for itself.
Unescaped(c) ==
  CASE c = 110 -> 10
    [] c = 116 -> 9
    [] c = 114 -> 13
    [] c = 97 -> 7
    [] c = 98 -> 8
    [] c = 118 -> 11
    [] OTHER -> AsByte(c)

Lexemes == {"in_comment", "in_atom", "in_string"}
Rules == {"top", "append_escaped", "in_hex", "append_escaped_hex"} \cup Lexemes
Stages == {"get", "rule", "last", "eof", "done", "failed"}

Init ==
  /\ rule = "top"
  /\ ctx = <<>>
  /\ level = 0
  /\ data = <<>>
  /\ hexByte = -1
  /\ char = Eos
  /\ stage = "get"
  /\ read = <<>>
  /\ start = 1
  /\ told = <<>>

-----------------------------------------------------------------------------
(* The main loop. *)

Get ==
  /\ stage = "get"
  /\ Len(read) < MaxInput
  /\ \E byte \in Alphabet :
       /\ read' = Append(read, byte)
       /\ char' = AsInt(byte)
  /\ stage' = "rule"
  /\ UNCHANGED <<lexVars, level, told>>

\* src.gcount() == 0: the rule is called once more, with eos.
GetEnd ==
  /\ stage = "get"
  /\ char' = Eos
  /\ stage' = "last"
  /\ UNCHANGED <<lexVars, level, told, read>>

\* handler.on_eof() returns or throws.
OnEof ==
  /\ stage = "eof"
  /\ stage' \in {"done", "failed"}
  /\ UNCHANGED <<lexVars, level, told, read, char>>

Calls(r) == stage \in {"rule", "last"} /\ rule = r

Skip == stage' = IF stage = "last" THEN "eof" ELSE "get"

\* The last call's Stay is not looked at.
Stay == stage' = IF stage = "last" THEN "eof" ELSE "rule"

Throw ==
  /\ stage' = "failed"
  /\ UNCHANGED <<lexVars, level, told>>

\* The handler is called; it returns, and then Skip or Stay, or throws.
Tells(then) == then \/ stage' = "failed"

-----------------------------------------------------------------------------
(* rule_use, rule_push, rule_pop *)

Use(r) ==
  /\ rule' = r
  /\ data' = <<>>

Push(after, current) ==
  /\ ctx' = <<after>> \o ctx
  /\ rule' = current

Popped == Tail(ctx)

Pop ==
  /\ rule' = Head(ctx)
  /\ ctx' = Popped

Collect(byte) == data' = Append(data, byte)

-----------------------------------------------------------------------------
(* The rule top. *)

\* Mutant: the level is not looked at.
MayClose_Unchecked == TRUE
MayClose == level # 0

ListEnd ==
  /\ Calls("top")
  /\ char = RParen
  /\ \/ /\ MayClose
        /\ level' = level - 1
        /\ Tells(Skip)
        /\ UNCHANGED <<lexVars, told>>
     \/ ~MayClose /\ Throw
  /\ UNCHANGED <<read, char>>

ListBegin ==
  /\ Calls("top")
  /\ char = LParen
  /\ level' = level + 1
  /\ Tells(Skip)
  /\ UNCHANGED <<lexVars, told, read, char>>

CommentBegins ==
  /\ Calls("top")
  /\ char = Semicolon
  /\ Use("in_comment")
  /\ start' = Len(read) + 1
  /\ Skip
  /\ UNCHANGED <<ctx, level, hexByte, told, read, char>>

Space ==
  /\ Calls("top")
  /\ IsSpace(char) \/ char = Eos
  /\ Skip
  /\ UNCHANGED <<lexVars, level, told, read, char>>

StringBegins ==
  /\ Calls("top")
  /\ char = Quote
  /\ Use("in_string")
  /\ start' = Len(read) + 1
  /\ Skip
  /\ UNCHANGED <<ctx, level, hexByte, told, read, char>>

\* The first character of an atom is left to the rule in_atom.
AtomBegins ==
  /\ Calls("top")
  /\ char \notin {LParen, RParen, Semicolon, Quote, Eos}
  /\ ~IsSpace(char)
  /\ Use("in_atom")
  /\ start' = Len(read)
  /\ Stay
  /\ UNCHANGED <<ctx, level, hexByte, told, read, char>>

-----------------------------------------------------------------------------
(* The rules in_comment, in_string and in_atom. *)

EndsComment(c) == c \in {Newline, Eos}
EndsString(c) == c = Quote

\* Mutant: an atom does not end at a parenthesis.
EndsAtom_AtSpaceOnly(c) == IsSpace(c) \/ c = Eos
EndsAtom(c) == c \in {LParen, RParen, Eos} \/ IsSpace(c)

\* Mutant: the rule stays in force.
AfterLexeme_Same == rule
AfterLexeme == "top"

\* on_comment(), on_string() or on_atom() with the data, then rule_use(top).
Report(then) ==
  /\ told' = data
  /\ Use(AfterLexeme)
  /\ Tells(then)
  /\ UNCHANGED <<ctx, level, hexByte, start, read, char>>

CommentEnds == Calls("in_comment") /\ EndsComment(char) /\ Report(Skip)
StringEnds == Calls("in_string") /\ EndsString(char) /\ Report(Skip)
AtomEnds == Calls("in_atom") /\ EndsAtom(char) /\ Report(Stay)

StringUnlimited ==
  /\ Calls("in_string")
  /\ char = Eos
  /\ Throw
  /\ UNCHANGED <<read, char>>

Ordinary ==
  /\ \/ Calls("in_comment") /\ ~EndsComment(char)
     \/ Calls("in_string") /\ ~EndsString(char) /\ char \notin {Backslash, Eos}
     \/ Calls("in_atom") /\ ~EndsAtom(char) /\ char # Backslash
  /\ Collect(AsByte(char))
  /\ Skip
  /\ UNCHANGED <<rule, ctx, level, hexByte, start, told, read, char>>

-----------------------------------------------------------------------------
(* Escapes. *)

EscapeBegins ==
  /\ Calls("in_string") \/ Calls("in_atom")
  /\ char = Backslash
  /\ Push(rule, "append_escaped")
  /\ Skip
  /\ UNCHANGED <<level, data, hexByte, start, told, read, char>>

EscapeEos ==
  /\ Calls("append_escaped")
  /\ char = Eos
  /\ Throw
  /\ UNCHANGED <<read, char>>

HexBegins ==
  /\ Calls("append_escaped")
  /\ char = LetterX
  /\ hexByte' = -1
  /\ Push("append_escaped_hex", "in_hex")
  /\ Skip
  /\ UNCHANGED <<level, data, start, told, read, char>>

Escaped ==
  /\ Calls("append_escaped")
  /\ char \notin {Eos, LetterX}
  /\ Collect(Unescaped(char))
  /\ Pop
  /\ Skip
  /\ UNCHANGED <<level, hexByte, start, told, read, char>>

FirstDigit ==
  /\ Calls("in_hex")
  /\ Hex(char) >= 0
  /\ hexByte < 0
  /\ hexByte' = 16 * Hex(char)
  /\ Skip
  /\ UNCHANGED <<rule, ctx, level, data, start, told, read, char>>

\* The second digit, or what is not a digit, is left to the rule below.
HexEnds ==
  /\ Calls("in_hex")
  /\ \/ /\ Hex(char) >= 0
        /\ hexByte >= 0
        /\ hexByte' = hexByte + Hex(char)
     \/ /\ Hex(char) < 0
        /\ UNCHANGED hexByte
  /\ Pop
  /\ Stay
  /\ UNCHANGED <<level, data, start, told, read, char>>

\* Mutant: nothing is collected when there are no digits.
NoDigits_Ignored == FALSE
NoDigits == hexByte < 0

AppendHex ==
  /\ Calls("append_escaped_hex")
  /\ \/ /\ ~NoDigits
        /\ Collect(hexByte)
        /\ Pop
        /\ Stay
        /\ UNCHANGED <<level, hexByte, start, told>>
     \/ NoDigits /\ Throw
  /\ UNCHANGED <<read, char>>

-----------------------------------------------------------------------------

RuleCalled ==
  \/ ListEnd \/ ListBegin \/ CommentBegins \/ Space \/ StringBegins \/ AtomBegins
  \/ CommentEnds \/ StringEnds \/ AtomEnds \/ StringUnlimited \/ Ordinary
  \/ EscapeBegins \/ EscapeEos \/ HexBegins \/ Escaped
  \/ FirstDigit \/ HexEnds \/ AppendHex

\* parse() has returned, or thrown.
Over == stage \in {"done", "failed"} /\ UNCHANGED vars

Next == Get \/ GetEnd \/ OnEof \/ RuleCalled \/ Over

\* The input is rejected by the parser itself.
Rejects ==
  \/ StringUnlimited
  \/ EscapeEos
  \/ ListEnd /\ ~MayClose
  \/ AppendHex /\ NoDigits

\* parse() runs.  Whether the input ever ends is not its business, and no
\* handler has to throw.
Spec ==
  /\ Init /\ [][Next]_vars
  /\ WF_vars(RuleCalled /\ (stage' = "failed" => Rejects))
  /\ WF_vars(OnEof)
SafeSpec == Init /\ [][Next]_vars

-----------------------------------------------------------------------------
(* Properties. *)

TypeOK ==
  /\ rule \in Rules
  /\ ctx \in Seq(Rules)
  /\ level \in Nat
  /\ data \in Seq(0..255)
  /\ hexByte \in -1..255
  /\ char \in -128..255
  /\ stage \in Stages
  /\ read \in Seq(Alphabet)
  /\ start \in Nat
  /\ told \in Seq(0..255)

\* A character is used up after finitely many calls of rules: Stay does not
\* hand it round for ever.
CharacterUsedUp == (stage = "rule") ~> (stage # "rule")

\* What the text between start and the end of a lexeme says, read as a whole:
\* for each character its byte and whether it was written plainly.  A second
\* hexadecimal digit counts for the byte and once more as a character: it is
\* left to the string or atom the escape is in.
IsEscape(raw, i) == raw[i] = Backslash
IsHexEscape(raw, i) == IsEscape(raw, i) /\ raw[i + 1] = LetterX

SecondDigit(raw, i) ==
  IF i <= Len(raw) /\ Hex(raw[i]) >= 0 THEN Hex(raw[i]) ELSE 0

Meaning(raw, i) ==
  [plain |-> ~IsEscape(raw, i),
   byte |-> IF IsHexEscape(raw, i)
              THEN 16 * Hex(raw[i + 2]) + SecondDigit(raw, i + 3)
            ELSE IF IsEscape(raw, i) THEN Unescaped(raw[i + 1])
            ELSE raw[i]]

After(raw, i) ==
  i + IF IsHexEscape(raw, i) THEN 3 ELSE IF IsEscape(raw, i) THEN 2 ELSE 1

\* What a text says from each of its places on.
From(raw) ==
  LET from[i \in 1..Len(raw) + 3] ==
        IF i > Len(raw) THEN <<>> ELSE <<Meaning(raw, i)>> \o from[After(raw, i)]
  IN from

Decoded(raw) == From(raw)[1]

Delimiters(kind) ==
  CASE kind = "in_comment" -> {Newline}
    [] kind = "in_string" -> {Quote}
    [] kind = "in_atom" -> {LParen, RParen, 9, 10, 11, 12, 13, 32}

\* What a handler is told is what was written, escapes, characters looked at
\* twice and the end of the input notwithstanding: the text of a lexeme is its
\* raw characters decoded, and none of those written plainly should have ended
\* it before.
ReportAsWritten ==
  LET raw == SubSeq(read, start, IF stage = "last" THEN Len(read) ELSE Len(read) - 1)
      lexeme == IF rule = "in_comment"
                  THEN [i \in DOMAIN raw |-> [byte |-> raw[i], plain |-> TRUE]]
                  ELSE Decoded(raw)
  IN /\ told' = [i \in DOMAIN lexeme |-> lexeme[i].byte]
     /\ \A i \in DOMAIN lexeme :
          lexeme[i].plain => lexeme[i].byte \notin Delimiters(rule)

\* Every atom, string and comment is reported so.
LexemeAsWritten == [][CommentEnds \/ StringEnds \/ AtomEnds => ReportAsWritten]_vars

-----------------------------------------------------------------------------
(* What parse() promises its handler. *)

\* An escape is read by rules pushed over the one of its lexeme.
Within == IF ctx = <<>> THEN rule ELSE ctx[Len(ctx)]

Lexeme ==
  CASE Within = "in_comment" -> "comment"
    [] Within = "in_atom" -> "atom"
    [] Within = "in_string" -> "string"
    [] OTHER -> "none"

Events == INSTANCE SexpEvents WITH
  depth <- level,
  lexeme <- Lexeme,
  status <- IF stage \in {"done", "failed"} THEN stage ELSE "reading"

\* The calls the handler gets are such as SexpEvents describes, whatever the
\* input and whenever the handler throws.
ImplementsEvents == Events!Spec

\* include/cor/sexp_impl.hpp:151, "string is not limited, got EOS": an input
\* that ends inside a string is rejected.
StringsAreLimited == stage = "done" => Lexeme # "string"
=============================================================================
