--------------------------- MODULE NotLispProofs ---------------------------
(***************************************************************************)
(* Proofs about the interpreter, for inputs of any length, any number of   *)
(* parsers one after the other, and any atoms: its stack, whatever eval()  *)
(* and the functions of the environment return or throw; how rest() gives  *)
(* parameters out; the types; and that evaluation while parsing comes to   *)
(* what the forms mean.                                                    *)
(***************************************************************************)
EXTENDS Evaluation, Induction, FiniteSetTheorems

(***************************************************************************)
(* Expressions are of no known type, for the functions may return what     *)
(* they like; so a sequence is one of its own items.                       *)
(***************************************************************************)
IsSequence(s) == s \in Seq({s[i] : i \in DOMAIN s})

IsStack(s) ==
  /\ IsSequence(s)
  /\ s # <<>>
  /\ \A i \in 1..Len(s) : IsSequence(s[i])

\* The number of items in list i.
Size(s, i) == Len(s[i])

(***************************************************************************)
(* What StackFollowsParser says of the variables, for any stack and forms  *)
(* at any depth, with the shape all of them have.                          *)
(***************************************************************************)
Nested(s, f, d, base) ==
  /\ d \in Nat
  /\ IsStack(s)
  /\ IsStack(f)
  /\ IsStack(base)
  /\ Len(f) = d + 1
  /\ Len(s) = Len(base) + d
  /\ \A i \in 1..d : Size(s, i) = Size(f, i)
  /\ Size(s, d + 1) = Size(base, 1) + Size(f, d + 1)
  /\ \A j \in 1..Size(base, 1) : s[d + 1][j] = base[1][j]
  /\ \A i \in 2..Len(base) : s[d + i] = base[i]

(***************************************************************************)
(* After an exception the stack need not follow anything, but it is still  *)
(* one, which the next parser may get.                                     *)
(***************************************************************************)
NestingInv ==
  /\ IsStack(stack)
  /\ status # "failed" => Nested(stack, forms, depth, before.stack)

-----------------------------------------------------------------------------
(* What the operations on a stack do to its lists. *)

\* A sequence over any set is one of its own items.
LEMMA SequenceOf ==
  ASSUME NEW S, NEW s \in Seq(S)
  PROVE  IsSequence(s)
BY DEF IsSequence

\* One item more at the end.
LEMMA Appended ==
  ASSUME NEW s, IsSequence(s), NEW e
  PROVE  /\ IsSequence(Append(s, e))
         /\ Len(s) \in Nat
         /\ Len(Append(s, e)) = Len(s) + 1
         /\ \A i \in 1..Len(s) : Append(s, e)[i] = s[i]
<1> DEFINE S == {s[i] : i \in DOMAIN s} \cup {e}
<1>1. s \in Seq(S)
  BY DEF IsSequence
<1>2. Append(s, e) \in Seq(S)
  BY <1>1
<1>3. IsSequence(Append(s, e))
  BY <1>2, SequenceOf
<1> QED BY <1>1, <1>3

\* One item less at the beginning.
LEMMA Dropped ==
  ASSUME NEW s, IsSequence(s), s # <<>>
  PROVE  /\ IsSequence(Tail(s))
         /\ Len(s) \in Nat \ {0}
         /\ Len(Tail(s)) = Len(s) - 1
         /\ \A i \in 1..Len(s) - 1 : Tail(s)[i] = s[i + 1]
         /\ Head(s) = s[1]
<1> DEFINE S == {s[i] : i \in DOMAIN s}
<1>1. s \in Seq(S)
  BY DEF IsSequence
<1>2. Tail(s) \in Seq(S)
  BY <1>1
<1>3. IsSequence(Tail(s))
  BY <1>2, SequenceOf
<1> QED BY <1>1, <1>3

\* One item more at the beginning.
LEMMA Prepended ==
  ASSUME NEW s, IsSequence(s), NEW e
  PROVE  /\ IsSequence(<<e>> \o s)
         /\ Len(<<e>> \o s) = Len(s) + 1
         /\ (<<e>> \o s)[1] = e
         /\ \A i \in 1..Len(s) : (<<e>> \o s)[i + 1] = s[i]
<1> DEFINE S == {s[i] : i \in DOMAIN s} \cup {e}
<1>1. s \in Seq(S) /\ <<e>> \in Seq(S)
  BY DEF IsSequence
<1>2. <<e>> \o s \in Seq(S)
  BY <1>1
<1>3. IsSequence(<<e>> \o s)
  BY <1>2, SequenceOf
<1> QED BY <1>1, <1>3

\* The stack of an interpreter that is new.
LEMMA EmptyIsStack == IsStack(EmptyStack) /\ Len(EmptyStack) = 1
<1>1. EmptyStack \in Seq({<<>>}) /\ EmptyStack # <<>> /\ EmptyStack[1] = <<>>
      /\ Len(EmptyStack) = 1
  BY DEF EmptyStack
<1>2. IsSequence(EmptyStack)
  BY <1>1, SequenceOf
<1>3. <<>> \in Seq({})
  OBVIOUS
<1>4. IsSequence(<<>>)
  BY <1>3, SequenceOf
<1>5. \A i \in 1..Len(EmptyStack) : IsSequence(EmptyStack[i])
  BY <1>1, <1>4
<1> QED BY <1>1, <1>2, <1>5 DEF IsStack

(* The stack with another list on top. *)
WithTop(s, t) == <<t>> \o Tail(s)

\* Another list on top leaves those below.
LEMMA ReplacedTop ==
  ASSUME NEW s, IsStack(s), NEW t, IsSequence(t)
  PROVE  /\ IsStack(WithTop(s, t))
         /\ Len(WithTop(s, t)) = Len(s)
         /\ WithTop(s, t)[1] = t
         /\ \A i \in 2..Len(s) : WithTop(s, t)[i] = s[i]
<1> DEFINE r == <<t>> \o Tail(s)
<1>1. /\ IsSequence(Tail(s)) /\ Len(s) \in Nat \ {0}
      /\ Len(Tail(s)) = Len(s) - 1
      /\ \A i \in 1..Len(s) - 1 : Tail(s)[i] = s[i + 1]
  BY Dropped DEF IsStack
<1>2. /\ IsSequence(r) /\ Len(r) = Len(s) /\ r[1] = t
      /\ \A i \in 1..Len(s) - 1 : r[i + 1] = s[i + 1]
  BY <1>1, Prepended
<1>3. \A i \in 2..Len(s) : r[i] = s[i]
  <2> TAKE i \in 2..Len(s)
  <2>1. i - 1 \in 1..Len(s) - 1 /\ (i - 1) + 1 = i
    BY <1>1
  <2> QED BY <1>2, <2>1
<1>4. r # <<>>
  BY <1>1, <1>2
<1>5. \A i \in 1..Len(r) : IsSequence(r[i])
  BY <1>1, <1>2, <1>3 DEF IsStack
<1> QED BY <1>2, <1>3, <1>4, <1>5 DEF IsStack, WithTop

\* One item more in the list on top.
LEMMA Pushed ==
  ASSUME NEW s, IsStack(s), NEW e
  PROVE  /\ IsStack(PushBack(s, e))
         /\ Len(PushBack(s, e)) = Len(s)
         /\ PushBack(s, e)[1] = Append(s[1], e)
         /\ \A i \in 2..Len(s) : PushBack(s, e)[i] = s[i]
         /\ Size(PushBack(s, e), 1) = Size(s, 1) + 1
         /\ \A i \in 2..Len(s) : Size(PushBack(s, e), i) = Size(s, i)
         /\ \A i \in 1..Size(s, 1) : PushBack(s, e)[1][i] = s[1][i]
<1>1. Head(s) = s[1] /\ Len(s) \in Nat \ {0}
  BY Dropped DEF IsStack
<1>2. IsSequence(s[1])
  BY <1>1 DEF IsStack
<1>3. /\ IsSequence(Append(s[1], e)) /\ Len(Append(s[1], e)) = Len(s[1]) + 1
      /\ \A i \in 1..Len(s[1]) : Append(s[1], e)[i] = s[1][i]
  BY <1>2, Appended
<1> DEFINE t == Append(s[1], e)
<1>4. PushBack(s, e) = WithTop(s, t)
  BY <1>1 DEF PushBack, WithTop
<1>5. IsSequence(t)
  BY <1>3
<1> HIDE DEF t
<1>6. IsStack(PushBack(s, e)) /\ Len(PushBack(s, e)) = Len(s)
      /\ PushBack(s, e)[1] = t
      /\ \A i \in 2..Len(s) : PushBack(s, e)[i] = s[i]
  BY <1>4, <1>5, ReplacedTop
<1> QED BY <1>3, <1>6 DEF t, Size

(* The stack with an empty list on top. *)
WithEmpty(s) == EmptyStack \o s

\* One list more, and those below as they were.
LEMMA Opened ==
  ASSUME NEW s, IsStack(s)
  PROVE  /\ IsStack(WithEmpty(s))
         /\ Len(WithEmpty(s)) = Len(s) + 1
         /\ Size(WithEmpty(s), 1) = 0
         /\ \A i \in 1..Len(s) :
              /\ WithEmpty(s)[i + 1] = s[i]
              /\ Size(WithEmpty(s), i + 1) = Size(s, i)
<1> DEFINE r == <<(<<>>)>> \o s
<1>1. Len(s) \in Nat
  BY Dropped DEF IsStack
<1>2. /\ IsSequence(r) /\ Len(r) = Len(s) + 1 /\ r[1] = <<>>
      /\ \A i \in 1..Len(s) : r[i + 1] = s[i]
  BY Prepended DEF IsStack
<1>3. IsSequence(<<>>)
  <2>1. <<>> \in Seq({})
    OBVIOUS
  <2> QED BY <2>1, SequenceOf
<1>4. \A i \in 1..Len(r) : IsSequence(r[i])
  <2> TAKE i \in 1..Len(r)
  <2>1. CASE i = 1
    BY <1>2, <1>3, <2>1
  <2>2. CASE i # 1
    <3>1. i - 1 \in 1..Len(s) /\ (i - 1) + 1 = i
      BY <1>1, <1>2, <2>2
    <3> QED BY <1>2, <3>1 DEF IsStack
  <2> QED BY <2>1, <2>2
<1>5. r # <<>>
  BY <1>1, <1>2
<1>6. r = WithEmpty(s)
  BY DEF EmptyStack, WithEmpty
<1> HIDE DEF r
<1>7. Size(r, 1) = 0 /\ \A i \in 1..Len(s) : Size(r, i + 1) = Size(s, i)
  BY <1>2 DEF Size
<1>8. IsStack(r)
  BY <1>2, <1>4, <1>5 DEF IsStack
<1> QED BY <1>2, <1>6, <1>7, <1>8

\* One list less, and those below as they were.
LEMMA Popped ==
  ASSUME NEW s, IsStack(s), Len(s) >= 2
  PROVE  /\ IsStack(Tail(s))
         /\ Len(Tail(s)) = Len(s) - 1
         /\ \A i \in 1..Len(s) - 1 : Tail(s)[i] = s[i + 1]
<1>1. /\ IsSequence(Tail(s)) /\ Len(s) \in Nat \ {0}
      /\ Len(Tail(s)) = Len(s) - 1
      /\ \A i \in 1..Len(s) - 1 : Tail(s)[i] = s[i + 1]
  BY Dropped DEF IsStack
<1>2. Tail(s) # <<>>
  BY <1>1
<1>3. \A i \in 1..Len(Tail(s)) : IsSequence(Tail(s)[i])
  BY <1>1 DEF IsStack
<1> QED BY <1>1, <1>2, <1>3 DEF IsStack

-----------------------------------------------------------------------------
(* What the steps do to the nesting. *)

(***************************************************************************)
(* The numbers the steps count with: the depth of the stack, and how many  *)
(* items its lists have.                                                   *)
(***************************************************************************)
LEMMA Sizes ==
  ASSUME NEW s, NEW f, NEW d, NEW base, Nested(s, f, d, base)
  PROVE  /\ d \in Nat
         /\ Len(s) \in Nat \ {0}
         /\ Len(base) \in Nat \ {0}
         /\ \A i \in 1..Len(s) : Size(s, i) \in Nat
         /\ \A i \in 1..Len(f) : Size(f, i) \in Nat
         /\ Size(base, 1) \in Nat
BY Appended, Dropped DEF Nested, IsStack, Size

(* A form that is read becomes one item in the list on top. *)
LEMMA NestedItem ==
  ASSUME NEW s, NEW f, NEW d, NEW base, Nested(s, f, d, base), NEW e, NEW form
  PROVE  Nested(PushBack(s, e), PushBack(f, form), d, base)
<1> DEFINE t == PushBack(s, e)
           g == PushBack(f, form)
<1>1. /\ Len(s) = Len(base) + d
      /\ \A i \in 1..d : Size(s, i) = Size(f, i)
      /\ Size(s, d + 1) = Size(base, 1) + Size(f, d + 1)
      /\ \A j \in 1..Size(base, 1) : s[d + 1][j] = base[1][j]
      /\ \A i \in 2..Len(base) : s[d + i] = base[i]
  BY DEF Nested
<1>2. IsStack(s) /\ IsStack(f) /\ Len(f) = d + 1 /\ IsStack(base)
  BY DEF Nested
<1>3. /\ IsStack(t)
      /\ Len(t) = Len(s)
      /\ Size(t, 1) = Size(s, 1) + 1
      /\ \A i \in 2..Len(s) : t[i] = s[i] /\ Size(t, i) = Size(s, i)
      /\ \A i \in 1..Size(s, 1) : t[1][i] = s[1][i]
  BY <1>2, Pushed
<1>4. /\ IsStack(g)
      /\ Len(g) = Len(f)
      /\ Size(g, 1) = Size(f, 1) + 1
      /\ \A i \in 2..Len(f) : Size(g, i) = Size(f, i)
  BY <1>2, Pushed
<1> HIDE DEF t, g
<1>5. d \in Nat /\ Len(base) \in Nat \ {0} /\ Size(base, 1) \in Nat
  BY Sizes
<1>6. \A i \in 1..d + 1 :
        /\ Size(s, i) \in Nat /\ Size(f, i) \in Nat
        /\ \/ i = 1 /\ Size(t, i) = Size(s, i) + 1 /\ Size(g, i) = Size(f, i) + 1
           \/ Size(t, i) = Size(s, i) /\ Size(g, i) = Size(f, i)
  <2> TAKE i \in 1..d + 1
  <2>1. i \in 1..Len(s) /\ i \in 1..Len(f)
    BY <1>1, <1>2, <1>5
  <2>2. Size(s, i) \in Nat /\ Size(f, i) \in Nat
    BY <2>1, Sizes
  <2>3. CASE i = 1
    BY <1>3, <1>4, <2>2, <2>3
  <2>4. CASE i # 1
    <3>1. i \in 2..Len(s) /\ i \in 2..Len(f)
      BY <1>5, <2>1, <2>4
    <3> QED BY <1>3, <1>4, <2>2, <3>1
  <2> QED BY <2>3, <2>4
<1>7. \A i \in 1..d : Size(t, i) = Size(g, i)
  <2> TAKE i \in 1..d
  <2>1. i \in 1..d + 1
    BY <1>5
  <2> QED BY <1>1, <1>6, <2>1
<1>8. Size(t, d + 1) = Size(base, 1) + Size(g, d + 1)
  <2>1. d + 1 \in 1..d + 1
    BY <1>5
  <2> QED BY <1>1, <1>5, <1>6, <2>1
<1>9. \A j \in 1..Size(base, 1) : t[d + 1][j] = base[1][j]
  <2> TAKE j \in 1..Size(base, 1)
  <2>1. CASE d = 0
    <3>1. j \in 1..Size(s, 1)
      BY <1>1, <1>5, <1>6, <2>1
    <3> QED BY <1>1, <1>3, <2>1, <3>1
  <2>2. CASE d # 0
    <3>1. d + 1 \in 2..Len(s)
      BY <1>1, <1>5, <2>2
    <3> QED BY <1>1, <1>3, <3>1
  <2> QED BY <2>1, <2>2
<1>10. \A i \in 2..Len(base) : t[d + i] = base[i]
  <2> TAKE i \in 2..Len(base)
  <2>1. d + i \in 2..Len(s)
    BY <1>1, <1>5
  <2> QED BY <1>1, <1>3, <2>1
<1>11. Nested(t, g, d, base)
  BY <1>1, <1>2, <1>3, <1>4, <1>5, <1>7, <1>8, <1>9, <1>10 DEF Nested
<1> QED BY <1>11 DEF t, g

(* A list that opens is an empty one on top. *)
LEMMA NestedOpened ==
  ASSUME NEW s, NEW f, NEW d, NEW base, Nested(s, f, d, base)
  PROVE  Nested(WithEmpty(s), WithEmpty(f), d + 1, base)
<1> DEFINE t == WithEmpty(s)
           g == WithEmpty(f)
<1>1. /\ d \in Nat /\ Len(base) \in Nat \ {0} /\ IsStack(base)
      /\ Len(s) = Len(base) + d /\ Len(f) = d + 1
      /\ IsStack(s) /\ IsStack(f)
  BY Sizes DEF Nested
<1>2. /\ IsStack(t) /\ Len(t) = Len(s) + 1
      /\ Size(t, 1) = 0
      /\ \A i \in 1..Len(s) : t[i + 1] = s[i] /\ Size(t, i + 1) = Size(s, i)
  BY <1>1, Opened
<1>3. /\ IsStack(g) /\ Len(g) = Len(f) + 1
      /\ Size(g, 1) = 0
      /\ \A i \in 1..Len(f) : Size(g, i + 1) = Size(f, i)
  BY <1>1, Opened
<1> HIDE DEF t, g
<1>4. \A i \in 1..d + 1 : Size(t, i) = Size(g, i)
  <2> TAKE i \in 1..d + 1
  <2>1. CASE i = 1
    BY <1>2, <1>3, <2>1
  <2>2. CASE i # 1
    <3>1. /\ i - 1 \in 1..d /\ i - 1 \in 1..Len(s) /\ i - 1 \in 1..Len(f)
          /\ (i - 1) + 1 = i
      BY <1>1, <2>2
    <3> QED BY <1>2, <1>3, <3>1 DEF Nested
  <2> QED BY <2>1, <2>2
<1>5. /\ d + 1 \in 1..Len(s) /\ d + 1 \in 1..Len(f)
      /\ \A i \in 2..Len(base) : d + i \in 1..Len(s) /\ (d + i) + 1 = (d + 1) + i
  BY <1>1
<1>6. Size(t, (d + 1) + 1) = Size(base, 1) + Size(g, (d + 1) + 1)
  BY <1>2, <1>3, <1>5 DEF Nested
<1>7. \A j \in 1..Size(base, 1) : t[(d + 1) + 1][j] = base[1][j]
  BY <1>2, <1>5 DEF Nested
<1>8. \A i \in 2..Len(base) : t[(d + 1) + i] = base[i]
  <2> TAKE i \in 2..Len(base)
  <2>1. t[(d + i) + 1] = s[d + i] /\ (d + i) + 1 = (d + 1) + i
    BY <1>2, <1>5
  <2> QED BY <2>1 DEF Nested
<1>9. Nested(t, g, d + 1, base)
  BY <1>1, <1>2, <1>3, <1>4, <1>6, <1>7, <1>8 DEF Nested
<1> QED BY <1>9 DEF t, g

(* A list that is popped leaves those below it. *)
LEMMA NestedPopped ==
  ASSUME NEW s, NEW f, NEW d, NEW base, Nested(s, f, d, base), d > 0
  PROVE  Nested(Tail(s), Tail(f), d - 1, base)
<1> DEFINE t == Tail(s)
           g == Tail(f)
<1>0. d \in Nat \ {0} /\ Len(base) \in Nat \ {0}
  <2>1. d \in Nat /\ Len(base) \in Nat \ {0}
    BY Sizes
  <2> QED BY <2>1
<1>1. /\ d \in Nat \ {0} /\ Len(base) \in Nat \ {0} /\ IsStack(base)
      /\ Len(s) = Len(base) + d /\ Len(f) = d + 1
      /\ IsStack(s) /\ IsStack(f)
  BY <1>0 DEF Nested
<1>2. Len(s) >= 2 /\ Len(f) >= 2
  BY <1>1
<1>3. /\ IsStack(t) /\ Len(t) = Len(s) - 1
      /\ \A i \in 1..Len(s) - 1 : t[i] = s[i + 1] /\ Size(t, i) = Size(s, i + 1)
  BY <1>1, <1>2, Popped DEF Size
<1>4. /\ IsStack(g) /\ Len(g) = Len(f) - 1
      /\ \A i \in 1..Len(f) - 1 : Size(g, i) = Size(f, i + 1)
  BY <1>1, <1>2, Popped DEF Size
<1> HIDE DEF t, g
<1>5. \A i \in 1..d - 1 : Size(t, i) = Size(g, i)
  <2> TAKE i \in 1..d - 1
  <2>1. i + 1 \in 1..d /\ i \in 1..Len(s) - 1 /\ i \in 1..Len(f) - 1
    BY <1>1
  <2> QED BY <1>3, <1>4, <2>1 DEF Nested
<1>6. d \in 1..Len(s) - 1 /\ d \in 1..Len(f) - 1 /\ (d - 1) + 1 = d
  BY <1>1
<1>7. Size(t, (d - 1) + 1) = Size(base, 1) + Size(g, (d - 1) + 1)
  BY <1>3, <1>4, <1>6 DEF Nested
<1>8. \A j \in 1..Size(base, 1) : t[(d - 1) + 1][j] = base[1][j]
  BY <1>3, <1>6 DEF Nested
<1>9. \A i \in 2..Len(base) : t[(d - 1) + i] = base[i]
  <2> TAKE i \in 2..Len(base)
  <2>1. (d - 1) + i \in 1..Len(s) - 1 /\ ((d - 1) + i) + 1 = d + i
    BY <1>1
  <2> QED BY <1>3, <2>1 DEF Nested
<1>10. Nested(t, g, d - 1, base)
  BY <1>1, <1>3, <1>4, <1>5, <1>7, <1>8, <1>9 DEF Nested
<1> QED BY <1>10 DEF t, g

(* A parser that begins has read nothing into what it finds. *)
LEMMA NestedNew ==
  ASSUME NEW base, IsStack(base)
  PROVE  Nested(base, EmptyStack, 0, base)
<1>1. Len(base) \in Nat \ {0}
  BY Dropped DEF IsStack
<1>2. Size(base, 1) \in Nat
  BY <1>1, Appended DEF IsStack, Size
<1>3. IsStack(EmptyStack) /\ Len(EmptyStack) = 1 /\ Size(EmptyStack, 1) = 0
  BY EmptyIsStack DEF Size, EmptyStack
<1> QED BY <1>1, <1>2, <1>3 DEF Nested

-----------------------------------------------------------------------------
(* The steps. *)

(* An interpreter that is new has one list, which is empty. *)
LEMMA NestingStart ==
  ASSUME Init
  PROVE  NestingInv
<1>1. stack = EmptyStack /\ forms = EmptyStack /\ depth = 0
  BY DEF Init, Parser!Init
<1>2. before.stack = EmptyStack
  BY DEF Init
<1> QED BY <1>1, <1>2, EmptyIsStack, NestedNew DEF NestingInv

\* Every step keeps the stack and the forms nested in each other.
LEMMA NestingStep ==
  ASSUME NestingInv, [Next]_vars
  PROVE  NestingInv'
<1> DEFINE base == before.stack
<1>0. /\ IsStack(stack)
      /\ status = "reading" => Nested(stack, forms, depth, base)
  BY DEF NestingInv
<1>1. ASSUME OnListBegin PROVE NestingInv'
  <2>1. /\ stack' = WithEmpty(stack) /\ forms' = WithEmpty(forms)
        /\ depth' = depth + 1 /\ before' = before /\ status = "reading"
    BY <1>1 DEF OnListBegin, Reading, Parser!OnListBegin, WithEmpty
  <2>2. Nested(stack', forms', depth', base')
    BY <1>0, <2>1, NestedOpened
  <2> QED BY <2>2 DEF NestingInv, Nested
<1>2. ASSUME OnListEnd PROVE NestingInv'
  <2> DEFINE call == CallTop(dict, Head(stack))
             form == Form(Head(forms))
  <2>1. /\ forms' = PushBack(Tail(forms), form)
        /\ depth' = depth - 1 /\ depth > 0 /\ before' = before
        /\ status = "reading"
        /\ \/ call.ok /\ stack' = PushBack(Tail(stack), call.value)
           \/ /\ status' = "failed"
              /\ stack' = IF call.called THEN WithTop(stack, Tail(Head(stack)))
                                         ELSE stack
    BY <1>2 DEF OnListEnd, Reading, Parser!OnListEnd, Below, WithTop
  <2>2. Nested(Tail(stack), Tail(forms), depth - 1, base)
    BY <1>0, <2>1, NestedPopped
  <2>3. CASE stack' = PushBack(Tail(stack), call.value)
    <3>1. Nested(stack', forms', depth', base')
      BY <2>1, <2>2, <2>3, NestedItem
    <3> QED BY <3>1 DEF NestingInv, Nested
  <2>4. CASE /\ status' = "failed"
             /\ stack' = IF call.called THEN WithTop(stack, Tail(Head(stack)))
                                        ELSE stack
    <3>1. CASE ~call.called
      BY <1>0, <2>4, <3>1 DEF NestingInv
    <3>2. CASE call.called
      <4>1. Head(stack) # <<>>
        BY <3>2 DEF CallTop, NotCalled
      <4>2. IsSequence(Head(stack))
        BY <1>0, Dropped DEF IsStack
      <4>3. IsSequence(Tail(Head(stack)))
        BY <4>1, <4>2, Dropped
      <4>4. IsStack(stack')
        BY <1>0, <2>4, <3>2, <4>3, ReplacedTop
      <4> QED BY <2>4, <4>4 DEF NestingInv
    <3> QED BY <3>1, <3>2
  <2> QED BY <2>1, <2>3, <2>4
<1>3. ASSUME OnAtom PROVE NestingInv'
  <2>1. PICK atom \in Atoms :
          /\ stack' = PushBack(stack, Value(dict, Convert(atom)))
          /\ forms' = PushBack(forms, Convert(atom))
    BY <1>3 DEF OnAtom
  <2>2. depth' = depth /\ before' = before /\ status = "reading"
    BY <1>3 DEF OnAtom, Reading, Parser!OnLexeme
  <2>3. Nested(stack', forms', depth', base')
    BY <1>0, <2>1, <2>2, NestedItem
  <2> QED BY <2>3 DEF NestingInv, Nested
<1>4. ASSUME OnString PROVE NestingInv'
  <2>1. PICK s \in Strings :
          /\ stack' = PushBack(stack, Text("String", s))
          /\ forms' = PushBack(forms, Text("String", s))
    BY <1>4 DEF OnString
  <2>2. depth' = depth /\ before' = before /\ status = "reading"
    BY <1>4 DEF OnString, Reading, Parser!OnLexeme
  <2>3. Nested(stack', forms', depth', base')
    BY <1>0, <2>1, <2>2, NestedItem
  <2> QED BY <2>3 DEF NestingInv, Nested
<1>5. ASSUME LexemeBegins \/ OnComment \/ Rejected \/ OnEof PROVE NestingInv'
  BY <1>0, <1>5
  DEF LexemeBegins, OnComment, Rejected, OnEof, Reading, NestingInv,
      Parser!LexemeBegins, Parser!OnLexeme, Parser!Rejected, Parser!OnEof
<1>6. ASSUME NEW s, IsStack(s), Parse(s) PROVE NestingInv'
  <2>1. stack' = s /\ forms' = EmptyStack /\ depth' = 0 /\ before'.stack = s
    BY <1>6 DEF Parse
  <2> QED BY <1>6, <2>1, NestedNew DEF NestingInv
<1>7. ASSUME ParseAgain \/ NewInterpreter PROVE NestingInv'
  BY <1>0, <1>6, <1>7, EmptyIsStack DEF ParseAgain, NewInterpreter
<1>8. CASE Over \/ UNCHANGED vars
  BY <1>8 DEF Over, vars, NestingInv
<1> QED BY <1>1, <1>2, <1>3, <1>4, <1>5, <1>7, <1>8 DEF Next

(* The stack follows the nesting of every input, after any inputs before   *)
(* it, as long as nothing is thrown.                                       *)
THEOREM StackFollows == Spec => []StackFollowsParser
<1>1. Init => NestingInv BY NestingStart
<1>2. NestingInv /\ [Next]_vars => NestingInv' BY NestingStep
<1>3. NestingInv => StackFollowsParser
  BY DEF NestingInv, Nested, Size, StackFollowsParser
<1> QED BY <1>1, <1>2, <1>3, PTL DEF Spec
-----------------------------------------------------------------------------
(* How rest() goes through its parameters. *)

(* A keyword is a key when the parameter before it is none. *)
LEMMA KeyOrValue ==
  ASSUME NEW items, Len(items) \in Nat, NEW i \in 1..Len(items)
  PROVE  IsKey(items, i) <=> items[i].type = "Keyword" /\ ~IsValue(items, i)
<1> DEFINE Run(j, n) == /\ \A k \in j - n + 1..j : items[k].type = "Keyword"
                        /\ j = n \/ items[j - n].type # "Keyword"
<1>1. ASSUME IsKey(items, i) PROVE items[i].type = "Keyword" /\ ~IsValue(items, i)
  <2>1. PICK n \in 1..i : n % 2 = 1 /\ Run(i, n)
    BY <1>1 DEF IsKey
  <2>2. items[i].type = "Keyword"
    BY <2>1
  <2>3. ASSUME IsValue(items, i) PROVE FALSE
    <3>1. PICK m \in 1..i - 1 : i > 1 /\ m % 2 = 1 /\ Run(i - 1, m)
      BY <2>3 DEF IsValue, IsKey
    <3>2. CASE m < n - 1
      <4>1. (i - 1) - m \in i - n + 1..i /\ i - 1 # m
        BY <2>1, <3>1, <3>2
      <4> QED BY <2>1, <3>1, <4>1
    <3>3. CASE m > n - 1
      <4>1. i - n \in (i - 1) - m + 1..i - 1 /\ i # n
        BY <2>1, <3>1, <3>3
      <4> QED BY <2>1, <3>1, <4>1
    <3>4. CASE m = n - 1
      BY <2>1, <3>1, <3>4
    <3> QED BY <2>1, <3>1, <3>2, <3>3, <3>4
  <2> QED BY <2>2, <2>3
<1>2. ASSUME items[i].type = "Keyword", ~IsValue(items, i) PROVE IsKey(items, i)
  <2> DEFINE others == {j \in 0..i - 1 : j = 0 \/ items[j].type # "Keyword"}
  <2>1. others \subseteq 0..i - 1 /\ others # {} /\ i - 1 \in Nat
    <3>1. 0 \in others
      OBVIOUS
    <3> QED BY <3>1
  <2>2. PICK last \in others : \A y \in others : y <= last
    BY <2>1, Greatest
  <2>3. \A k \in last + 1..i - 1 : items[k].type = "Keyword"
    BY <2>2
  <2>4. /\ last \in 0..i - 1
        /\ last = 0 \/ items[last].type # "Keyword"
    BY <2>2
  <2> HIDE DEF others
  <2>5. Run(i, i - last)
    <3>1. \A k \in i - (i - last) + 1..i : items[k].type = "Keyword"
      BY <1>2, <2>3, <2>4
    <3>2. i = i - last \/ items[i - (i - last)].type # "Keyword"
      <4>1. i - (i - last) = last
        BY <2>4
      <4> QED BY <2>4, <4>1
    <3> QED BY <3>1, <3>2
  <2>6. CASE last = i - 1
    <3>1. i - last \in 1..i /\ (i - last) % 2 = 1
      BY <2>4, <2>6
    <3> QED BY <2>5, <3>1 DEF IsKey
  <2>7. CASE last < i - 1
    <3>1. Run(i - 1, i - 1 - last)
      <4>1. \A k \in (i - 1) - (i - 1 - last) + 1..i - 1 : items[k].type = "Keyword"
        BY <2>3, <2>4
      <4>2. i - 1 = i - 1 - last \/ items[(i - 1) - (i - 1 - last)].type # "Keyword"
        <5>1. (i - 1) - (i - 1 - last) = last
          BY <2>4
        <5> QED BY <2>4, <5>1
      <4> QED BY <4>1, <4>2
    <3>2. i > 1 /\ i - 1 - last \in 1..i - 1
      BY <2>4, <2>7
    <3>3. (i - 1 - last) % 2 # 1
      BY <1>2, <3>1, <3>2 DEF IsValue, IsKey
    <3>4. i - last \in 1..i /\ (i - last) % 2 = 1
      BY <2>4, <3>2, <3>3
    <3> QED BY <2>5, <3>4 DEF IsKey
  <2> QED BY <2>4, <2>6, <2>7
<1> QED BY <1>1, <1>2

(* Places count what has been passed. *)
LEMMA Places ==
  ASSUME NEW N \in Nat, NEW S, S \subseteq 1..N
  PROVE  /\ \A n \in Int : Place(S, n) \in Nat
         /\ Place(S, -1) = 0 /\ Place(S, 0) = 0
         /\ Place(S, N) = Cardinality(S)
         /\ \A n \in Nat : n + 1 \in S => Place(S, n + 1) = Place(S, n) + 1
         /\ \A n \in Nat : n + 1 \notin S => Place(S, n + 1) = Place(S, n)
         /\ \A i \in S : \A n \in Nat : i <= n => Place(S, i) \in 1..Place(S, n)
<1> DEFINE upTo(n) == {j \in S : j <= n}
<1>0. \A j \in S : j \in Nat /\ 1 <= j /\ j <= N
  OBVIOUS
<1>1. IsFiniteSet(S)
  <2>1. IsFiniteSet(1..N)
    BY FS_Interval
  <2> QED BY <2>1, FS_Subset
<1>2. \A n : IsFiniteSet(upTo(n)) /\ Cardinality(upTo(n)) \in Nat
  <2> TAKE n
  <2>1. upTo(n) \subseteq S
    OBVIOUS
  <2>2. IsFiniteSet(upTo(n))
    BY <1>1, <2>1, FS_Subset
  <2> QED BY <2>2, FS_CardinalityType
<1>3. upTo(-1) = {} /\ upTo(0) = {} /\ upTo(N) = S
  <2>1. \A j \in S : j \notin upTo(-1) /\ j \notin upTo(0) /\ j \in upTo(N)
    BY <1>0
  <2> QED BY <2>1
<1>4. ASSUME NEW n \in Nat, n + 1 \in S
      PROVE  Cardinality(upTo(n + 1)) = Cardinality(upTo(n)) + 1
  <2>1. upTo(n + 1) = upTo(n) \cup {n + 1} /\ n + 1 \notin upTo(n)
    <3>1. \A j \in S : j <= n + 1 <=> j <= n \/ j = n + 1
      BY <1>0
    <3>2. n + 1 <= n + 1 /\ ~ n + 1 <= n
      OBVIOUS
    <3> QED BY <1>4, <3>1, <3>2, Zenon
  <2>2. IsFiniteSet(upTo(n))
    BY <1>2
  <2> HIDE DEF upTo
  <2> QED BY <2>1, <2>2, FS_AddElement
<1>5. ASSUME NEW n \in Nat, n + 1 \notin S
      PROVE  upTo(n + 1) = upTo(n)
  <2>1. \A j \in S : j <= n + 1 <=> j <= n \/ j = n + 1
    BY <1>0
  <2> QED BY <1>5, <2>1, Zenon
<1>6. ASSUME NEW i \in S, NEW n \in Nat, i <= n
      PROVE  Cardinality(upTo(i)) \in 1..Cardinality(upTo(n))
  <2>1. i \in upTo(i) /\ upTo(i) \subseteq upTo(n)
    <3>1. i <= i /\ \A j \in S : j <= i => j <= n
      BY <1>0, <1>6
    <3> QED BY <3>1, Zenon
  <2>2. Cardinality(upTo(i)) <= Cardinality(upTo(n))
    BY <1>2, <2>1, FS_Subset
  <2>3. Cardinality(upTo(i)) # 0
    BY <1>2, <2>1, FS_EmptySet
  <2> HIDE DEF upTo
  <2> QED BY <1>2, <2>2, <2>3
<1> QED BY <1>2, <1>3, <1>4, <1>5, <1>6, FS_EmptySet DEF Place

(* Of what is at the places S, out has what comes up to n. *)
Delivered(out, S, v, n) ==
  /\ IsSequence(out)
  /\ Len(out) = Place(S, n)
  /\ \A i \in S : i <= n => out[Place(S, i)] = v[i]

\* Before the first item, nothing has come.
LEMMA NoneDelivered ==
  ASSUME NEW N \in Nat, NEW S, S \subseteq 1..N, NEW v, NEW n \in {-1, 0}
  PROVE  Delivered(<<>>, S, v, n)
<1>1. <<>> \in Seq({}) /\ Len(<<>>) = 0
  OBVIOUS
<1>2. \A i \in S : ~ i <= n
  OBVIOUS
<1> QED BY <1>1, <1>2, Places, SequenceOf DEF Delivered

\* An item at one of the places is the next that comes.
LEMMA OneDelivered ==
  ASSUME NEW N \in Nat, NEW S, S \subseteq 1..N, NEW v, NEW n \in Nat,
         NEW out, Delivered(out, S, v, n), n + 1 \in S
  PROVE  Delivered(Append(out, v[n + 1]), S, v, n + 1)
<1> DEFINE longer == Append(out, v[n + 1])
<1>1. /\ IsSequence(longer)
      /\ Len(out) \in Nat
      /\ Len(longer) = Len(out) + 1
      /\ \A i \in 1..Len(out) : longer[i] = out[i]
  BY Appended DEF Delivered
<1>2. longer[Len(out) + 1] = v[n + 1]
  <2> DEFINE X == {out[i] : i \in DOMAIN out} \cup {v[n + 1]}
  <2>1. out \in Seq(X)
    BY DEF Delivered, IsSequence
  <2> QED BY <2>1
<1> HIDE DEF longer
<1>3. Len(out) = Place(S, n) /\ Place(S, n + 1) = Place(S, n) + 1
  BY Places DEF Delivered
<1>4. ASSUME NEW i \in S, i <= n + 1 PROVE longer[Place(S, i)] = v[i]
  <2>1. CASE i = n + 1
    BY <1>2, <1>3, <2>1
  <2>2. CASE i # n + 1
    <3>1. i <= n
      BY <1>4, <2>2
    <3>2. Place(S, i) \in 1..Len(out)
      <4>1. \A j \in S : j <= n => Place(S, j) \in 1..Place(S, n)
        BY Places
      <4> QED BY <1>3, <3>1, <4>1
    <3> QED BY <1>1, <3>1, <3>2 DEF Delivered
  <2> QED BY <2>1, <2>2
<1>5. Delivered(longer, S, v, n + 1)
  BY <1>1, <1>3, <1>4 DEF Delivered
<1> QED BY <1>5 DEF longer

\* An item at none of the places changes nothing.
LEMMA NotDelivered ==
  ASSUME NEW N \in Nat, NEW S, S \subseteq 1..N, NEW v, NEW n \in Nat,
         NEW out, Delivered(out, S, v, n), n + 1 \notin S
  PROVE  Delivered(out, S, v, n + 1)
<1>1. Place(S, n + 1) = Place(S, n)
  BY Places
<1>2. ASSUME NEW i \in S, i <= n + 1 PROVE i <= n
  BY <1>2
<1> QED BY <1>1, <1>2 DEF Delivered

(* What the loop has been given, after n of the items. *)
GivenInv(given, items, n) ==
  /\ \/ given.key = Null /\ (n = 0 \/ ~IsKey(items, n))
     \/ given.key = items[n] /\ n > 0 /\ IsKey(items, n)
  /\ Delivered(given.args, Plain(items), items, n)
  /\ Delivered(given.pairs, Keys(items),
               [i \in Keys(items) |-> <<items[i], items[i + 1]>>], n - 1)

\* A turn of rest() gives a plain item away, keeps a key, or pairs it with a value.
LEMMA GivenStep ==
  ASSUME NEW items, IsSequence(items), NEW n \in 0..Len(items) - 1,
         NEW X, NEW given \in [args : Seq(X), pairs : Seq(X \X X), key : X],
         GivenInv(given, items, n)
  PROVE  GivenInv(RestStep(given, items[n + 1]), items, n + 1)
<1> DEFINE v == items[n + 1]
           next == RestStep(given, v)
           plain == Plain(items)
           keys == Keys(items)
           pair == [i \in keys |-> <<items[i], items[i + 1]>>]
<1>1. /\ Len(items) \in Nat /\ n \in Nat /\ n + 1 \in 1..Len(items)
      /\ (n + 1) - 1 = n
  BY Appended
<1>2. plain \subseteq 1..Len(items) /\ keys \subseteq 1..Len(items)
  BY <1>1 DEF Plain, Keys
<1>3. /\ IsKey(items, n + 1) <=> v.type = "Keyword" /\ ~IsValue(items, n + 1)
      /\ IsValue(items, n + 1) <=> n > 0 /\ IsKey(items, n)
      /\ n + 1 \in plain <=> ~IsKey(items, n + 1) /\ ~IsValue(items, n + 1)
      /\ n \in keys <=> n > 0 /\ IsKey(items, n)
  <2>1. IsKey(items, n + 1) <=> v.type = "Keyword" /\ ~IsValue(items, n + 1)
    BY <1>1, KeyOrValue
  <2>2. IsValue(items, n + 1) <=> n > 0 /\ IsKey(items, n)
    BY <1>1 DEF IsValue
  <2>3. n + 1 \in plain <=> ~IsKey(items, n + 1) /\ ~IsValue(items, n + 1)
    BY <1>1 DEF Plain
  <2>4. n \in keys <=> n > 0 /\ IsKey(items, n)
    BY <1>1 DEF Keys
  <2> QED BY <2>1, <2>2, <2>3, <2>4
<1>4. /\ Delivered(given.args, plain, items, n)
      /\ Delivered(given.pairs, keys, pair, n - 1)
  BY DEF GivenInv
<1>5. given.key = Null <=> n = 0 \/ ~IsKey(items, n)
  <2>1. ASSUME n > 0, IsKey(items, n) PROVE items[n] # Null
    <3>1. items[n].type = "Keyword"
      BY <1>1, <2>1, KeyOrValue
    <3> QED BY <3>1 DEF Null
  <2> QED BY <1>1, <2>1 DEF GivenInv
<1>6. ASSUME n \notin keys PROVE Delivered(given.pairs, keys, pair, n)
  <2>1. CASE n = 0
    <3>1. Delivered(given.pairs, keys, pair, -1)
      BY <1>4, <2>1
    <3>2. \A i \in keys : ~ i <= 0
      BY <1>2
    <3>3. Place(keys, -1) = 0 /\ Place(keys, 0) = 0
      BY <1>1, <1>2, Places
    <3> QED BY <2>1, <3>1, <3>2, <3>3 DEF Delivered
  <2>2. CASE n # 0
    <3>1. n - 1 \in Nat /\ (n - 1) + 1 = n
      BY <1>1, <2>2
    <3> HIDE DEF pair, keys
    <3> QED BY <1>1, <1>2, <1>4, <1>6, <3>1, NotDelivered
  <2> QED BY <2>1, <2>2
<1>7. CASE given.key = Null /\ v.type = "Keyword"
  <2>1. next = [given EXCEPT !.key = v]
    BY <1>7 DEF RestStep
  <2>2. next.key = v /\ next.args = given.args /\ next.pairs = given.pairs
    BY <2>1
  <2>3. IsKey(items, n + 1) /\ n + 1 \notin plain /\ n \notin keys
    BY <1>1, <1>3, <1>5, <1>7
  <2>4. Delivered(next.args, plain, items, n + 1)
    BY <1>1, <1>2, <1>4, <2>2, <2>3, NotDelivered
  <2>5. Delivered(next.pairs, keys, pair, n)
    BY <1>6, <2>2, <2>3
  <2> QED BY <1>1, <2>2, <2>3, <2>4, <2>5 DEF GivenInv
<1>8. CASE given.key = Null /\ v.type # "Keyword"
  <2>1. next = [given EXCEPT !.args = Append(@, v)]
    BY <1>8 DEF RestStep
  <2>2. next.key = Null /\ next.args = Append(given.args, v) /\ next.pairs = given.pairs
    BY <1>8, <2>1
  <2>3. ~IsKey(items, n + 1) /\ n + 1 \in plain /\ n \notin keys
    BY <1>1, <1>3, <1>5, <1>8
  <2>4. Delivered(next.args, plain, items, n + 1)
    BY <1>1, <1>2, <1>4, <2>2, <2>3, OneDelivered
  <2>5. Delivered(next.pairs, keys, pair, n)
    BY <1>6, <2>2, <2>3
  <2> QED BY <1>1, <2>2, <2>3, <2>4, <2>5 DEF GivenInv
<1>9. CASE given.key # Null
  <2>1. n > 0 /\ IsKey(items, n) /\ given.key = items[n]
    BY <1>1, <1>5, <1>9 DEF GivenInv
  <2>2. next = [given EXCEPT !.pairs = Append(@, <<given.key, v>>), !.key = Null]
    BY <1>9 DEF RestStep
  <2>3. /\ next.key = Null /\ next.args = given.args
        /\ next.pairs = Append(given.pairs, <<items[n], v>>)
    BY <2>1, <2>2
  <2>4. ~IsKey(items, n + 1) /\ n + 1 \notin plain /\ n \in keys
    BY <1>1, <1>3, <2>1
  <2>5. Delivered(next.args, plain, items, n + 1)
    BY <1>1, <1>2, <1>4, <2>3, <2>4, NotDelivered
  <2>6. Delivered(next.pairs, keys, pair, n)
    <3>1. n - 1 \in Nat /\ (n - 1) + 1 = n
      BY <1>1, <2>1
    <3>2. pair[n] = <<items[n], v>>
      BY <2>4
    <3> HIDE DEF pair, keys
    <3> QED BY <1>1, <1>2, <1>4, <2>3, <2>4, <3>1, <3>2, OneDelivered
  <2> QED BY <1>1, <2>3, <2>4, <2>5, <2>6 DEF GivenInv
<1> QED BY <1>7, <1>8, <1>9

(* The loop of rest() ends, with what its turns have given. *)
LEMMA RestOfAll ==
  ASSUME NEW items, IsSequence(items)
  PROVE  GivenInv(Rest(items), items, Len(items))
<1> DEFINE N == Len(items)
           X == {items[i] : i \in DOMAIN items} \cup {Null}
           S == [args : Seq(X), pairs : Seq(X \X X), key : X]
           turn == [p \in (1..N) \X S |-> RestStep(p[2], items[p[1]])]
           loop(g) == [n \in 0..N |-> IF n = 0 THEN Unpaired
                                      ELSE RestStep(g[n - 1], items[n])]
           given == CHOOSE g : g = loop(g)
<1>1. N \in Nat /\ \A i \in 1..N : items[i] \in X
  BY Appended DEF IsSequence
<1>2. Unpaired \in S
  BY DEF Unpaired
<1>3. ASSUME NEW s \in S, NEW v \in X PROVE RestStep(s, v) \in S
  <2>1. Null \in X /\ s.key \in X /\ s.args \in Seq(X) /\ s.pairs \in Seq(X \X X)
    OBVIOUS
  <2> HIDE DEF X
  <2>2. [s EXCEPT !.key = v] \in S /\ [s EXCEPT !.args = Append(@, v)] \in S
    <3>1. Append(s.args, v) \in Seq(X)
      BY <2>1
    <3> QED BY <2>1, <3>1
  <2>3. [s EXCEPT !.pairs = Append(@, <<s.key, v>>), !.key = Null] \in S
    <3>1. Append(s.pairs, <<s.key, v>>) \in Seq(X \X X)
      BY <2>1
    <3> QED BY <2>1, <3>1
  <2> HIDE DEF S
  <2> QED BY <2>2, <2>3 DEF RestStep
<1> HIDE DEF X, S
<1>4. turn \in [(1..N) \X S -> S]
  BY <1>1, <1>3
<1>5. PICK f \in [0..N -> S] : IsLoop(f, N, Unpaired, turn)
  <2> HIDE DEF turn, N
  <2> QED BY <1>1, <1>2, <1>4, LoopDefined
<1>6. ASSUME NEW i \in 1..N PROVE f[i] = RestStep(f[i - 1], items[i])
  <2>1. i - 1 \in 0..N /\ f[i - 1] \in S
    BY <1>1, <1>5
  <2>2. <<i, f[i - 1]>> \in (1..N) \X S
    BY <2>1
  <2> QED BY <1>5, <2>2 DEF IsLoop
<1> HIDE DEF turn
<1>7. f = loop(f)
  <2>1. \A n \in 0..N : n # 0 => n \in 1..N
    BY <1>1
  <2> QED BY <1>5, <1>6, <2>1 DEF IsLoop
<1> HIDE DEF loop
<1>8. given = loop(given)
  BY <1>7
<1>9. /\ Rest(items) = given[N]
      /\ given[0] = Unpaired
      /\ \A i \in 1..N : given[i] = RestStep(given[i - 1], items[i])
  <2>1. Rest(items) = given[N]
    BY DEF Rest, loop
  <2> HIDE DEF given
  <2>2. \A n \in 0..N : given[n] = IF n = 0 THEN Unpaired ELSE RestStep(given[n - 1], items[n])
    BY <1>8 DEF loop
  <2> QED BY <1>1, <2>1, <2>2
<1> DEFINE T == {n \in 0..N : given[n] \in S /\ GivenInv(given[n], items, n)}
<1> HIDE DEF given
<1>10. 0 \in T
  <2>1. Delivered(<<>>, Plain(items), items, 0)
    BY <1>1, NoneDelivered DEF Plain
  <2>2. \A v : Delivered(<<>>, Keys(items), v, 0 - 1)
    <3>1. Keys(items) \subseteq 1..N /\ 0 - 1 \in {-1, 0}
      BY <1>1 DEF Keys
    <3> QED BY <1>1, <3>1, NoneDelivered
  <2>3. GivenInv(Unpaired, items, 0)
    BY <2>1, <2>2 DEF GivenInv, Unpaired
  <2> QED BY <1>1, <1>2, <1>9, <2>3
<1>11. ASSUME NEW n \in 0..N - 1, n \in T PROVE n + 1 \in T
  <2>1. n + 1 \in 1..N /\ (n + 1) - 1 = n /\ n + 1 \in 0..N
    BY <1>1
  <2>2. given[n + 1] = RestStep(given[n], items[n + 1])
    BY <1>9, <2>1
  <2>3. given[n + 1] \in S
    BY <1>1, <1>3, <1>11, <2>1, <2>2
  <2>4. GivenInv(given[n + 1], items, n + 1)
    <3>1. given[n] \in [args : Seq(X), pairs : Seq(X \X X), key : X]
      BY <1>11 DEF S
    <3> QED BY <1>11, <2>2, <3>1, GivenStep
  <2> QED BY <2>1, <2>3, <2>4
<1> HIDE DEF T
<1>12. 0..N \subseteq T
  BY <1>1, <1>10, <1>11, StepByStep
<1> QED BY <1>1, <1>9, <1>12 DEF T

\* What rest() is done with is what RestGivesEachOnce asks for.
LEMMA RestGives ==
  ASSUME NEW items, IsSequence(items)
  PROVE  GivesEachOnce(items)
<1> DEFINE given == Rest(items)
           N == Len(items)
           keys == Keys(items)
           pair == [i \in keys |-> <<items[i], items[i + 1]>>]
<1>1. GivenInv(given, items, N) /\ N \in Nat
  BY RestOfAll, Appended
<1>2. Plain(items) \subseteq 1..N /\ keys \subseteq 1..N
  BY <1>1 DEF Plain, Keys
<1>3. /\ Len(given.args) = Cardinality(Plain(items))
      /\ \A i \in Plain(items) : given.args[Place(Plain(items), i)] = items[i]
  <2>1. Place(Plain(items), N) = Cardinality(Plain(items))
    BY <1>1, <1>2, Places
  <2>2. \A i \in Plain(items) : i <= N
    BY <1>1, <1>2
  <2> QED BY <1>1, <2>1, <2>2 DEF GivenInv, Delivered
<1>4. /\ Len(given.pairs) = Cardinality(keys)
      /\ \A i \in keys : given.pairs[Place(keys, i)] = <<items[i], items[i + 1]>>
  <2>1. Delivered(given.pairs, keys, pair, N - 1)
    BY <1>1 DEF GivenInv
  <2>2. \A i \in keys : i <= N - 1
    BY <1>1 DEF Keys
  <2>3. Place(keys, N - 1) = Cardinality(keys)
    <3>1. CASE N = 0
      <4>1. keys = {}
        BY <1>2, <3>1
      <4>2. Place(keys, -1) = 0
        BY <1>1, <1>2, Places
      <4> QED BY <3>1, <4>1, <4>2, FS_EmptySet
    <3>2. CASE N # 0
      <4>1. N - 1 \in Nat /\ keys \subseteq 1..N - 1
        BY <1>1, <3>2 DEF Keys
      <4> QED BY <4>1, Places
    <3> QED BY <3>1, <3>2
  <2>4. \A i \in keys : pair[i] = <<items[i], items[i + 1]>>
    OBVIOUS
  <2> HIDE DEF pair, keys
  <2> QED BY <2>1, <2>2, <2>3, <2>4 DEF Delivered
<1>5. Orphaned(given) <=> items # <<>> /\ IsKey(items, N)
  <2>1. items # <<>> <=> N > 0
    BY <1>1 DEF IsSequence
  <2>2. ASSUME N > 0, IsKey(items, N) PROVE items[N] # Null
    <3>1. items[N].type = "Keyword"
      BY <1>1, <2>2, KeyOrValue
    <3> QED BY <3>1 DEF Null
  <2> QED BY <1>1, <2>1, <2>2 DEF GivenInv, Orphaned
<1> QED BY <1>3, <1>4, <1>5 DEF GivesEachOnce

(* Whatever list there is on the stack, rest() gives each of its items     *)
(* once, pairs the keys with what follows them, and knows an orphan.       *)
THEOREM RestPairsParameters == Spec => []RestGivesEachOnce
<1>1. Init => NestingInv BY NestingStart
<1>2. NestingInv /\ [Next]_vars => NestingInv' BY NestingStep
<1>3. NestingInv => RestGivesEachOnce
  <2> SUFFICES ASSUME NestingInv, NEW s \in DOMAIN stack
               PROVE  GivesEachOnce(stack[s])
    BY DEF RestGivesEachOnce
  <2>1. IsSequence(stack[s])
    BY DEF NestingInv, IsStack, IsSequence
  <2> QED BY <2>1, RestGives
<1> QED BY <1>1, <1>2, <1>3, PTL DEF Spec

-----------------------------------------------------------------------------
(* The types, if eval() and the functions keep to them. *)

AllExprs(items) == \A j \in DOMAIN items : IsExpr(items[j])

Bound(d) == \A name \in DOMAIN d : IsExpr(d[name])

(***************************************************************************)
(* What there is to begin with are expressions; of expressions, eval()     *)
(* makes expressions, and a function that returns has returned one and has *)
(* bound nothing else.                                                     *)
(***************************************************************************)
ExpressionsClosed ==
  /\ IsExpr(Null)
  /\ \A atom \in Atoms : IsExpr(Convert(atom))
  /\ \A s \in Strings : IsExpr(Text("String", s))
  /\ Bound(Environment)
  /\ \A d, e : Bound(d) /\ IsExpr(e) => IsExpr(Value(d, e))
  /\ \A callee, d, params :
       /\ IsExpr(callee) /\ callee.type = "Function"
       /\ Bound(d)
       /\ IsSequence(params) /\ AllExprs(params)
       => LET result == Apply(callee, d, params)
          IN Bound(result.dict) /\ (result.ok => IsExpr(result.value))

AllOnStack(s) == \A i \in 1..Len(s) : AllExprs(s[i])

\* The places of a sequence, if all that is known are its items.
LEMMA DomainOf ==
  ASSUME NEW s, IsSequence(s)
  PROVE  Len(s) \in Nat /\ DOMAIN s = 1..Len(s)
BY DEF IsSequence

\* An expression more in a list of expressions.
LEMMA ExprAppended ==
  ASSUME NEW s, IsSequence(s), AllExprs(s), NEW e, IsExpr(e)
  PROVE  AllExprs(Append(s, e))
<1> DEFINE X == {s[i] : i \in DOMAIN s} \cup {e}
<1>1. s \in Seq(X)
  BY DEF IsSequence
<1>2. \A i \in DOMAIN Append(s, e) :
        \/ i \in DOMAIN s /\ Append(s, e)[i] = s[i]
        \/ Append(s, e)[i] = e
  BY <1>1
<1> QED BY <1>2 DEF AllExprs

\* An expression more on a stack of expressions.
LEMMA ExprPushed ==
  ASSUME NEW s, IsStack(s), AllOnStack(s), NEW e, IsExpr(e)
  PROVE  AllOnStack(PushBack(s, e))
<1>1. /\ Len(PushBack(s, e)) = Len(s)
      /\ PushBack(s, e)[1] = Append(s[1], e)
      /\ \A i \in 2..Len(s) : PushBack(s, e)[i] = s[i]
  BY Pushed
<1>2. Len(s) \in Nat \ {0}
  BY Dropped DEF IsStack
<1>3. AllExprs(Append(s[1], e))
  BY <1>2, ExprAppended DEF IsStack, AllOnStack
<1>4. \A i \in 1..Len(s) : i = 1 \/ i \in 2..Len(s)
  BY <1>2
<1> QED BY <1>1, <1>3, <1>4 DEF AllOnStack

(* What a list becomes when it is called. *)
LEMMA ExprCalled ==
  ASSUME ExpressionsClosed, NEW d, Bound(d), NEW list, IsSequence(list), AllExprs(list)
  PROVE  LET call == CallTop(d, list)
         IN Bound(call.dict) /\ (call.ok => IsExpr(call.value))
<1> DEFINE callee == Value(d, Head(list))
           found == Affected(d, <<Head(list)>>)
           params == Tail(list)
           environment == Affected(found, params)
           values == Values(found, params)
<1>1. \A d1, items : Bound(d1) => Bound(Affected(d1, items))
  BY DEF ExpressionsClosed, Bound, Affected, Lookup
<1>2. CASE list = <<>>
  BY <1>2 DEF CallTop, NotCalled
<1>3. CASE list # <<>> /\ callee.type # "Function"
  BY <1>1, <1>3 DEF CallTop, NotCalled
<1>4. CASE list # <<>> /\ callee.type = "Function"
  <2>1. /\ IsSequence(params) /\ Len(list) \in Nat \ {0}
        /\ Len(params) = Len(list) - 1
        /\ \A i \in 1..Len(list) - 1 : params[i] = list[i + 1]
        /\ Head(list) = list[1]
    BY <1>4, Dropped
  <2>2. AllExprs(params) /\ IsExpr(Head(list))
    BY <2>1, DomainOf DEF AllExprs
  <2>3. Bound(found) /\ Bound(environment)
    BY <1>1
  <2>4. IsSequence(values) /\ AllExprs(values)
    <3>1. DOMAIN values = 1..Len(params) /\ Len(params) \in Nat
      BY <2>1, DomainOf DEF Values
    <3>2. \A i \in DOMAIN values : IsExpr(values[i])
      BY <2>2, <2>3 DEF Values, AllExprs, ExpressionsClosed
    <3>3. values \in Seq({values[i] : i \in DOMAIN values})
      BY <3>1 DEF Values
    <3> QED BY <3>2, <3>3 DEF AllExprs, IsSequence
  <2>5. IsExpr(callee)
    BY <2>2 DEF ExpressionsClosed
  <2> DEFINE result == Apply(callee, environment, values)
  <2>6. Bound(result.dict) /\ (result.ok => IsExpr(result.value))
    <3> HIDE DEF values, environment, callee
    <3> QED BY <1>4, <2>3, <2>4, <2>5 DEF ExpressionsClosed
  <2>7. CallTop(d, list) = result
    BY <1>4 DEF CallTop
  <2> QED BY <2>6, <2>7
<1> QED BY <1>2, <1>3, <1>4

TypeInv ==
  /\ NestingInv
  /\ AllOnStack(stack) /\ Bound(dict)
  /\ IsStack(forms) /\ Len(forms) = depth + 1
  /\ IsStack(before.stack)
  /\ Len(stack) \in 1..Len(before.stack) + depth + 1
  /\ lexeme \in {"none", "comment", "atom", "string"}
  /\ status \in {"reading", "done", "failed"}
  /\ depth \in 0..lists
  /\ atoms \in 0..MaxAtoms /\ lists \in 0..MaxLists /\ parses \in 1..MaxParses

\* The types at first.
LEMMA TypeStart ==
  ASSUME ExpressionsClosed, Init
  PROVE  TypeInv
<1>1. IsStack(EmptyStack) /\ Len(EmptyStack) = 1 /\ AllOnStack(EmptyStack)
  BY EmptyIsStack DEF EmptyStack, AllOnStack, AllExprs
<1>2. NestingInv
  BY NestingStart
<1> QED BY <1>1, <1>2, NotLispAssumption
        DEF Init, Parser!Init, TypeInv, ExpressionsClosed

\* Every step keeps the types.
LEMMA TypeStep ==
  ASSUME ExpressionsClosed, TypeInv, [Next]_vars
  PROVE  TypeInv'
<1> USE NotLispAssumption
<1>0. NestingInv'
  BY NestingStep DEF TypeInv
<1>1. /\ IsStack(stack) /\ AllOnStack(stack) /\ Bound(dict)
      /\ IsStack(forms) /\ Len(forms) = depth + 1
      /\ IsStack(before.stack) /\ Len(before.stack) \in Nat \ {0}
      /\ Len(stack) \in Nat \ {0} /\ Len(stack) <= Len(before.stack) + depth + 1
      /\ depth \in Nat /\ depth <= lists /\ lists \in Nat
  BY Dropped DEF TypeInv, NestingInv, IsStack
<1>2. ASSUME OnListBegin PROVE TypeInv'
  <2>1. /\ stack' = WithEmpty(stack) /\ forms' = WithEmpty(forms)
        /\ depth' = depth + 1 /\ before' = before /\ dict' = dict
        /\ lexeme' = lexeme /\ status' = "reading" /\ parses' = parses
        /\ lists < MaxLists /\ lists' = lists + 1 /\ atoms' = atoms
    BY <1>2 DEF OnListBegin, Reading, ListCounted, Parser!OnListBegin, WithEmpty
  <2>2. /\ Len(stack') = Len(stack) + 1
        /\ \A i \in 1..Len(stack) : stack'[i + 1] = stack[i]
        /\ stack'[1] = <<>>
        /\ IsStack(forms') /\ Len(forms') = Len(forms) + 1
    <3>1. stack'[1] = <<>>
      BY <1>1, <2>1, Prepended DEF WithEmpty, EmptyStack, IsStack
    <3> QED BY <1>1, <2>1, <3>1, Opened
  <2>3. AllOnStack(stack')
    <3>1. AllExprs(<<>>)
      BY DEF AllExprs
    <3>2. \A i \in 1..Len(stack) + 1 : i = 1 \/ (i - 1 \in 1..Len(stack) /\ (i - 1) + 1 = i)
      BY <1>1
    <3> QED BY <1>1, <2>2, <3>1, <3>2 DEF AllOnStack
  <2>4. Len(stack') \in 1..Len(before'.stack) + depth' + 1
    <3>1. Len(before'.stack) = Len(before.stack)
      BY <2>1
    <3>2. Len(stack) + 1 \in 1..Len(before.stack) + (depth + 1) + 1
      <4>1. \A a, b \in Nat \ {0}, c \in Nat :
              a <= b + c + 1 => a + 1 \in 1..b + (c + 1) + 1
        OBVIOUS
      <4> QED BY <1>1, <4>1
    <3> QED BY <2>1, <2>2, <3>1, <3>2
  <2>5. /\ Len(forms') = depth' + 1
        /\ depth' \in 0..lists' /\ lists' \in 0..MaxLists
    BY <1>1, <2>1, <2>2
  <2> QED BY <1>0, <1>1, <2>1, <2>2, <2>3, <2>4, <2>5 DEF TypeInv
<1>3. ASSUME OnListEnd PROVE TypeInv'
  <2> DEFINE call == CallTop(dict, Head(stack))
             form == Form(Head(forms))
  <2>1. /\ forms' = PushBack(Tail(forms), form)
        /\ depth' = depth - 1 /\ depth > 0 /\ before' = before
        /\ dict' = call.dict /\ lexeme' = lexeme
        /\ parses' = parses /\ lists' = lists /\ atoms' = atoms
        /\ \/ /\ call.ok /\ status' = "reading"
              /\ stack' = PushBack(Tail(stack), call.value)
           \/ /\ status' = "failed"
              /\ stack' = IF call.called THEN WithTop(stack, Tail(Head(stack)))
                                         ELSE stack
        /\ status = "reading" /\ Len(stack) = Len(before.stack) + depth
    BY <1>3 DEF OnListEnd, Reading, Parser!OnListEnd, Below, WithTop,
                TypeInv, NestingInv, Nested
  <2>2. IsStack(forms') /\ Len(forms') = depth' + 1
    <3>1. Len(forms) >= 2
      BY <1>1, <2>1
    <3>2. IsStack(Tail(forms)) /\ Len(Tail(forms)) = Len(forms) - 1
      BY <1>1, <3>1, Popped
    <3>3. IsStack(forms') /\ Len(forms') = Len(Tail(forms))
      <4> HIDE DEF form
      <4> QED BY <2>1, <3>2, Pushed
    <3> QED BY <1>1, <2>1, <3>2, <3>3
  <2>3. Head(stack) = stack[1] /\ IsSequence(Head(stack)) /\ AllExprs(Head(stack))
    BY <1>1, Dropped DEF IsStack, AllOnStack
  <2>4. Bound(call.dict) /\ (call.ok => IsExpr(call.value))
    BY <1>1, <2>3, ExprCalled
  <2>5. CASE call.ok /\ status' = "reading" /\ stack' = PushBack(Tail(stack), call.value)
    <3>1. Len(stack) >= 2
      BY <1>1, <2>1
    <3>2. /\ IsStack(Tail(stack)) /\ Len(Tail(stack)) = Len(stack) - 1
          /\ \A i \in 1..Len(stack) - 1 : Tail(stack)[i] = stack[i + 1]
      BY <1>1, <3>1, Popped
    <3>3. AllOnStack(Tail(stack))
      <4>1. \A i \in 1..Len(stack) - 1 : i + 1 \in 1..Len(stack)
        BY <1>1
      <4> QED BY <1>1, <3>2, <4>1 DEF AllOnStack
    <3>4. AllOnStack(stack') /\ Len(stack') = Len(stack) - 1
      <4>1. IsExpr(call.value)
        BY <2>4, <2>5
      <4> QED BY <2>5, <3>2, <3>3, <4>1, ExprPushed, Pushed
    <3> QED BY <1>0, <1>1, <2>1, <2>2, <2>4, <2>5, <3>4 DEF TypeInv
  <2>6. CASE status' = "failed" /\ stack' = stack
    BY <1>0, <1>1, <2>1, <2>2, <2>4, <2>6 DEF TypeInv
  <2>7. CASE /\ status' = "failed" /\ call.called
             /\ stack' = WithTop(stack, Tail(Head(stack)))
    <3>1. Head(stack) # <<>>
      BY <2>7 DEF CallTop, NotCalled
    <3>2. IsSequence(Tail(Head(stack))) /\ AllExprs(Tail(Head(stack)))
      <4>1. /\ IsSequence(Tail(Head(stack)))
            /\ Len(Head(stack)) \in Nat \ {0}
            /\ Len(Tail(Head(stack))) = Len(Head(stack)) - 1
            /\ \A i \in 1..Len(Head(stack)) - 1 : Tail(Head(stack))[i] = Head(stack)[i + 1]
        BY <2>3, <3>1, Dropped
      <4>2. /\ DOMAIN Tail(Head(stack)) = 1..Len(Tail(Head(stack)))
            /\ DOMAIN Head(stack) = 1..Len(Head(stack))
        BY <2>3, <4>1, DomainOf
      <4>3. \A i \in 1..Len(Head(stack)) - 1 : i + 1 \in 1..Len(Head(stack))
        BY <4>1
      <4> QED BY <2>3, <4>1, <4>2, <4>3 DEF AllExprs
    <3>3. /\ Len(stack') = Len(stack)
          /\ stack'[1] = Tail(Head(stack))
          /\ \A i \in 2..Len(stack) : stack'[i] = stack[i]
      BY <1>1, <2>7, <3>2, ReplacedTop
    <3>4. AllOnStack(stack')
      <4>1. \A i \in 1..Len(stack) : i = 1 \/ i \in 2..Len(stack)
        BY <1>1
      <4> QED BY <1>1, <3>2, <3>3, <4>1 DEF AllOnStack
    <3> QED BY <1>0, <1>1, <2>1, <2>2, <2>4, <2>7, <3>3, <3>4 DEF TypeInv
  <2> QED BY <2>1, <2>5, <2>6, <2>7
<1>4. ASSUME OnAtom PROVE TypeInv'
  <2>1. PICK atom \in Atoms :
          /\ stack' = PushBack(stack, Value(dict, Convert(atom)))
          /\ dict' = Affected(dict, <<Convert(atom)>>)
          /\ forms' = PushBack(forms, Convert(atom))
    BY <1>4 DEF OnAtom
  <2>2. /\ depth' = depth /\ before' = before /\ status' = "reading" /\ lexeme' = "none"
        /\ parses' = parses /\ lists' = lists /\ atoms < MaxAtoms /\ atoms' = atoms + 1
    BY <1>4 DEF OnAtom, Reading, AtomCounted, Parser!OnLexeme
  <2>3. IsExpr(Value(dict, Convert(atom))) /\ Bound(dict')
    BY <1>1, <2>1 DEF ExpressionsClosed, Bound, Affected, Lookup
  <2>4. AllOnStack(stack') /\ Len(stack') = Len(stack)
        /\ IsStack(forms') /\ Len(forms') = Len(forms)
    BY <1>1, <2>1, <2>3, ExprPushed, Pushed
  <2> QED BY <1>0, <1>1, <2>2, <2>3, <2>4 DEF TypeInv
<1>5. ASSUME OnString PROVE TypeInv'
  <2>1. PICK s \in Strings :
          /\ stack' = PushBack(stack, Text("String", s))
          /\ forms' = PushBack(forms, Text("String", s))
    BY <1>5 DEF OnString
  <2>2. /\ depth' = depth /\ before' = before /\ status' = "reading" /\ lexeme' = "none"
        /\ parses' = parses /\ lists' = lists /\ atoms < MaxAtoms /\ atoms' = atoms + 1
        /\ dict' = dict
    BY <1>5 DEF OnString, Reading, AtomCounted, Parser!OnLexeme
  <2>3. IsExpr(Text("String", s))
    BY DEF ExpressionsClosed
  <2>4. AllOnStack(stack') /\ Len(stack') = Len(stack)
        /\ IsStack(forms') /\ Len(forms') = Len(forms)
    BY <1>1, <2>1, <2>3, ExprPushed, Pushed
  <2> QED BY <1>0, <1>1, <2>2, <2>4 DEF TypeInv
<1>6. ASSUME LexemeBegins \/ OnComment \/ Rejected \/ OnEof PROVE TypeInv'
  BY <1>0, <1>1, <1>6
  DEF LexemeBegins, OnComment, Rejected, OnEof, Reading, TypeInv,
      Parser!LexemeBegins, Parser!OnLexeme, Parser!Rejected, Parser!OnEof
<1>7. ASSUME NEW s, IsStack(s), AllOnStack(s), Parse(s) PROVE TypeInv'
  <2>1. /\ stack' = s /\ forms' = EmptyStack /\ depth' = 0 /\ before'.stack = s
        /\ dict' = dict /\ lexeme' = "none" /\ status' = "reading"
        /\ parses' = parses + 1 /\ parses < MaxParses
        /\ lists' = lists /\ atoms' = atoms
    BY <1>7 DEF Parse
  <2>2. IsStack(EmptyStack) /\ Len(EmptyStack) = 1 /\ Len(s) \in Nat \ {0}
    BY <1>7, EmptyIsStack, Dropped DEF IsStack
  <2> QED BY <1>0, <1>1, <1>7, <2>1, <2>2 DEF TypeInv
<1>8. ASSUME ParseAgain \/ NewInterpreter PROVE TypeInv'
  <2>1. AllOnStack(EmptyStack)
    BY DEF EmptyStack, AllOnStack, AllExprs
  <2> QED BY <1>1, <1>7, <1>8, <2>1, EmptyIsStack DEF ParseAgain, NewInterpreter
<1>9. CASE Over \/ UNCHANGED vars
  BY <1>0, <1>9 DEF Over, vars, TypeInv
<1> QED BY <1>2, <1>3, <1>4, <1>5, <1>6, <1>8, <1>9 DEF Next

(* The stack and the environment hold expressions only, for any functions  *)
(* and any eval() that make expressions of expressions.                    *)
THEOREM TypeCorrect ==
  ASSUME ExpressionsClosed
  PROVE  Spec => []TypeOK
<1>1. Init => TypeInv BY TypeStart
<1>2. TypeInv /\ [Next]_vars => TypeInv' BY TypeStep
<1>3. TypeInv => TypeOK
  <2> SUFFICES ASSUME TypeInv PROVE TypeOK
    OBVIOUS
  <2>1. /\ DOMAIN stack = 1..Len(stack) /\ depth \in 0..MaxLists
    BY DomainOf, NotLispAssumption DEF TypeInv, NestingInv, IsStack
  <2>2. \A i \in DOMAIN stack : \A j \in DOMAIN stack[i] : IsExpr(stack[i][j])
    BY <2>1 DEF TypeInv, AllOnStack, AllExprs
  <2> QED BY <2>1, <2>2 DEF TypeInv, TypeOK, Bound
<1> QED BY <1>1, <1>2, <1>3, PTL DEF Spec

-----------------------------------------------------------------------------
(* Evaluation while parsing and the meaning of the forms. *)

(* What Meaning is: by one form after the other. *)
MeaningEquations ==
  /\ \A d : Meaning(d, <<>>) = Got(<<>>, d)
  /\ \A d, items, form : IsSequence(items) =>
       Meaning(d, Append(items, form)) = Then(Meaning(d, items), form)

(***************************************************************************)
(* eval() and the functions know the environment by looking names up: they *)
(* do not tell a name that is bound to null from one that is not there.    *)
(* (A function that goes through env->dict would see that an unbound name  *)
(* has been evaluated.)                                                    *)
(***************************************************************************)
NamesLookedUp ==
  \A d1, d2 : SameBindings(d1, d2) =>
    /\ \A e : Value(d1, e) = Value(d2, e)
    /\ \A callee, params : SameResult(callee, params, d1, d2)

\* To have the same bindings is an equivalence, and a lookup changes none.
LEMMA Bindings ==
  /\ \A d : SameBindings(d, d)
  /\ \A d1, d2 : SameBindings(d1, d2) => SameBindings(d2, d1)
  /\ \A d1, d2, d3 : SameBindings(d1, d2) /\ SameBindings(d2, d3) => SameBindings(d1, d3)
  /\ \A d, items : SameBindings(Affected(d, items), d)
<1>1. \A d1, d2 : SameBindings(d1, d2) <=> \A name : Lookup(d1, name) = Lookup(d2, name)
  BY DEF SameBindings, Lookup
<1>2. \A d, items, name : Lookup(Affected(d, items), name) = Lookup(d, name)
  BY DEF Affected, Lookup
<1> QED BY <1>1, <1>2

(* A call while parsing and one of the reference come to the same. *)
LEMMA CallsAgree ==
  ASSUME NamesLookedUp, NEW now, NEW d, SameBindings(now, d),
         NEW list, IsSequence(list)
  PROVE  LET call == CallTop(now, list)
             reference == Called(list, d)
         IN /\ call.ok <=> reference.ok
            /\ reference.ok => reference = Got(<<call.value>>, reference.dict)
            /\ SameBindings(call.dict, reference.dict)
<1> DEFINE found == Affected(now, <<Head(list)>>)
           rest == Tail(list)
           environment == Affected(found, rest)
           values == Values(found, rest)
           callee == Value(now, Head(list))
           calleeRef == Value(d, list[1])
           valuesRef == [i \in 1..Len(list) - 1 |-> Value(d, list[i + 1])]
<1>1. CASE list = <<>>
  BY <1>1 DEF CallTop, NotCalled, Called, Failed
<1>2. CASE list # <<>>
  <2>1. /\ Len(list) \in Nat \ {0} /\ Head(list) = list[1]
        /\ DOMAIN rest = 1..Len(list) - 1
        /\ \A i \in 1..Len(list) - 1 : rest[i] = list[i + 1]
    BY <1>2, Dropped, DomainOf
  <2>2. SameBindings(found, d) /\ SameBindings(environment, d)
    BY Bindings
  <2>3. callee = calleeRef
    BY <2>1 DEF NamesLookedUp
  <2>4. values = valuesRef
    <3>1. \A i \in 1..Len(list) - 1 : Value(found, rest[i]) = Value(d, list[i + 1])
      BY <2>1, <2>2 DEF NamesLookedUp
    <3> QED BY <2>1, <3>1 DEF Values
  <2>5. CASE callee.type # "Function"
    BY <1>2, <2>2, <2>3, <2>5 DEF CallTop, NotCalled, Called, Failed
  <2>6. CASE callee.type = "Function"
    <3> DEFINE result == Apply(callee, environment, values)
               resultRef == Apply(calleeRef, d, valuesRef)
    <3>1. /\ result.ok <=> resultRef.ok
          /\ result.ok => result.value = resultRef.value
          /\ SameBindings(result.dict, resultRef.dict)
      <4> HIDE DEF callee, calleeRef, environment, values, valuesRef
      <4> QED BY <2>2, <2>3, <2>4 DEF NamesLookedUp, SameResult
    <3>2. CallTop(now, list) = result
      BY <1>2, <2>6 DEF CallTop
    <3>3. CASE resultRef.ok
      <4>1. Called(list, d) = Got(<<resultRef.value>>, resultRef.dict)
        BY <1>2, <2>3, <2>6, <3>3 DEF Called
      <4> HIDE DEF result, resultRef
      <4>2. \A v, after : Got(v, after).ok /\ Got(v, after).dict = after
        BY DEF Got
      <4>3. result.value = resultRef.value
        BY <3>1, <3>3
      <4>4. Called(list, d) = Got(<<result.value>>, resultRef.dict)
        BY <4>1, <4>3
      <4> QED BY <3>1, <3>2, <3>3, <4>2, <4>4
    <3>4. CASE ~resultRef.ok
      <4>1. Called(list, d) = Failed(resultRef.dict)
        BY <1>2, <2>3, <2>6, <3>4 DEF Called
      <4> HIDE DEF result, resultRef
      <4> QED BY <3>1, <3>2, <3>4, <4>1 DEF Failed
    <3> QED BY <3>3, <3>4
  <2> QED BY <2>5, <2>6
<1> QED BY <1>1, <1>2

(***************************************************************************)
(* The forms that were read into a list, evaluated from one environment,   *)
(* have brought about another, and their values are what the list has on   *)
(* top of what was in it.                                                  *)
(***************************************************************************)
Above(below, values) == below \o values
Longer(values, v) == values \o <<v>>

IsLevel(from, to, items, below, list) ==
  LET meaning == Meaning(from, items)
  IN /\ meaning.ok
     /\ IsSequence(meaning.values)
     /\ to = meaning.dict
     /\ list = Above(below, meaning.values)

\* A value more behind what a list holds.
LEMMA Joined ==
  ASSUME NEW a, IsSequence(a), NEW b, IsSequence(b), NEW v
  PROVE  /\ IsSequence(Longer(b, v))
         /\ Above(a, Longer(b, v)) = Append(Above(a, b), v)
<1> DEFINE X == {a[i] : i \in DOMAIN a} \cup {b[i] : i \in DOMAIN b} \cup {v}
<1>1. a \in Seq(X) /\ b \in Seq(X) /\ <<v>> \in Seq(X)
  BY DEF IsSequence
<1> HIDE DEF X
<1>2. b \o <<v>> \in Seq(X)
  BY <1>1
<1>3. a \o (b \o <<v>>) = Append(a \o b, v)
  BY <1>1
<1> QED BY <1>2, <1>3, SequenceOf DEF Longer, Above

\* Nothing in front and nothing behind.
LEMMA JoinedEmpty ==
  /\ IsSequence(<<>>)
  /\ \A a : IsSequence(a) => Above(a, <<>>) = a /\ Above(<<>>, a) = a
<1>1. <<>> \in Seq({})
  OBVIOUS
<1>2. ASSUME NEW a, IsSequence(a)
      PROVE  Above(a, <<>>) = a /\ Above(<<>>, a) = a
  <2> DEFINE X == {a[i] : i \in DOMAIN a}
  <2>1. a \in Seq(X)
    BY <1>2 DEF IsSequence
  <2> HIDE DEF X
  <2> QED BY <2>1 DEF Above
<1> QED BY <1>1, <1>2, SequenceOf

\* A form whose meaning is one value, read into a list that holds what those before it mean.
LEMMA LevelItem ==
  ASSUME MeaningEquations,
         NEW from, NEW to, NEW items, IsSequence(items), NEW below, IsSequence(below),
         NEW list, IsLevel(from, to, items, below, list),
         NEW form, NEW v, NEW next, MeaningOf(to, form) = Got(<<v>>, next)
  PROVE  IsLevel(from, next, Append(items, form), below, Append(list, v))
<1> DEFINE meaning == Meaning(from, items)
           longer == Meaning(from, Append(items, form))
<1>1. meaning.ok /\ IsSequence(meaning.values) /\ to = meaning.dict
      /\ list = Above(below, meaning.values)
  BY DEF IsLevel
<1>2. longer = Then(meaning, form)
  BY DEF MeaningEquations
<1>3. longer = Got(Longer(meaning.values, v), next)
  <2> HIDE DEF meaning, longer
  <2>1. MeaningOf(meaning.dict, form) = Got(<<v>>, next)
    BY <1>1
  <2> QED BY <1>1, <1>2, <2>1 DEF Then, AndThis, Got, Longer
<1> HIDE DEF meaning
<1>4. /\ IsSequence(Longer(meaning.values, v))
      /\ Above(below, Longer(meaning.values, v)) = Append(list, v)
  BY <1>1, Joined
<1> QED BY <1>3, <1>4 DEF IsLevel, Got

(***************************************************************************)
(* The levels of the stack, one for each open list: the environment b[i+1] *)
(* has become b[i] by what was read into list i.                           *)
(***************************************************************************)
Under(base, d, i) == IF i = d + 1 THEN base[1] ELSE <<>>

Levels(s, f, d, base, b) ==
  \A i \in 1..d + 1 : IsLevel(b[i + 1], b[i], f[i], Under(base, d, i), s[i])

\* What was in a list before the parser began is a sequence.
LEMMA UnderIsSequence ==
  ASSUME NEW base, IsStack(base), NEW d, NEW i
  PROVE  IsSequence(Under(base, d, i))
<1>1. IsSequence(base[1])
  BY Dropped DEF IsStack
<1> QED BY <1>1, JoinedEmpty DEF Under

\* The same in the list on top: the environment goes on from there, those below stay.
LEMMA LevelsItem ==
  ASSUME MeaningEquations,
         NEW s, NEW f, NEW d, NEW base, Nested(s, f, d, base),
         NEW b, Levels(s, f, d, base, b),
         NEW form, NEW v, NEW next, MeaningOf(b[1], form) = Got(<<v>>, next)
  PROVE  \E c : /\ c[d + 2] = b[d + 2]
                /\ c[1] = next
                /\ Levels(PushBack(s, v), PushBack(f, form), d, base, c)
<1> DEFINE c == [i \in 1..d + 2 |-> IF i = 1 THEN next ELSE b[i]]
           t == PushBack(s, v)
           g == PushBack(f, form)
<1>1. /\ d \in Nat /\ IsStack(s) /\ IsStack(f) /\ IsStack(base)
      /\ Len(f) = d + 1 /\ Len(base) \in Nat \ {0} /\ Len(s) = Len(base) + d
  BY Sizes DEF Nested
<1>2. /\ t[1] = Append(s[1], v) /\ g[1] = Append(f[1], form)
      /\ \A i \in 2..Len(s) : t[i] = s[i]
      /\ \A i \in 2..Len(f) : g[i] = f[i]
  <2>1. t[1] = Append(s[1], v) /\ \A i \in 2..Len(s) : t[i] = s[i]
    BY <1>1, Pushed
  <2>2. g[1] = Append(f[1], form) /\ \A i \in 2..Len(f) : g[i] = f[i]
    BY <1>1, Pushed
  <2> HIDE DEF t, g
  <2> QED BY <2>1, <2>2
<1> HIDE DEF t, g
<1>3. c[d + 2] = b[d + 2] /\ c[1] = next
  BY <1>1
<1>4. ASSUME NEW i \in 1..d + 1
      PROVE  IsLevel(c[i + 1], c[i], g[i], Under(base, d, i), t[i])
  <2>1. c[i + 1] = b[i + 1]
    BY <1>1
  <2>2. IsLevel(b[i + 1], b[i], f[i], Under(base, d, i), s[i])
    BY DEF Levels
  <2>3. IsSequence(f[i]) /\ IsSequence(Under(base, d, i))
    BY <1>1, UnderIsSequence DEF IsStack
  <2>4. CASE i = 1
    <3>1. IsLevel(b[2], b[1], f[1], Under(base, d, 1), s[1])
      BY <2>2, <2>4
    <3>2. IsSequence(f[1]) /\ IsSequence(Under(base, d, 1))
      BY <2>3, <2>4
    <3>3. IsLevel(b[2], next, Append(f[1], form), Under(base, d, 1), Append(s[1], v))
      BY <3>1, <3>2, LevelItem
    <3> HIDE DEF c
    <3>4. /\ c[i + 1] = b[2] /\ c[i] = next /\ Under(base, d, i) = Under(base, d, 1)
          /\ g[i] = Append(f[1], form) /\ t[i] = Append(s[1], v)
      BY <1>2, <1>3, <2>1, <2>4
    <3> QED BY <3>3, <3>4
  <2>5. CASE i # 1
    <3>1. i \in 2..Len(s) /\ i \in 2..Len(f) /\ i \in 1..d + 2
      BY <1>1, <2>5
    <3>2. c[i] = b[i]
      BY <2>5, <3>1
    <3> HIDE DEF c
    <3> QED BY <1>2, <2>1, <2>2, <3>1, <3>2
  <2> QED BY <2>4, <2>5
<1> HIDE DEF c
<1>5. Levels(t, g, d, base, c)
  BY <1>4 DEF Levels
<1> QED BY <1>3, <1>5 DEF t, g

\* A list that opens begins with the environment there is.
LEMMA LevelsOpened ==
  ASSUME MeaningEquations,
         NEW s, NEW f, NEW d, NEW base, Nested(s, f, d, base),
         NEW b, Levels(s, f, d, base, b)
  PROVE  \E c : /\ c[(d + 1) + 2] = b[d + 2]
                /\ c[1] = b[1]
                /\ Levels(WithEmpty(s), WithEmpty(f), d + 1, base, c)
<1> DEFINE c == [i \in 1..d + 3 |-> IF i = 1 THEN b[1] ELSE b[i - 1]]
           t == WithEmpty(s)
           g == WithEmpty(f)
<1>1. /\ d \in Nat /\ IsStack(s) /\ IsStack(f)
      /\ Len(f) = d + 1 /\ Len(base) \in Nat \ {0} /\ Len(s) = Len(base) + d
  BY Sizes DEF Nested
<1>2. /\ \A i \in 1..Len(s) : t[i + 1] = s[i]
      /\ \A i \in 1..Len(f) : g[i + 1] = f[i]
  BY <1>1, Opened
<1>3. t[1] = <<>> /\ g[1] = <<>>
  BY <1>1, Prepended DEF WithEmpty, EmptyStack, IsStack
<1> HIDE DEF t, g
<1>4. c[(d + 1) + 2] = b[d + 2] /\ c[1] = b[1] /\ c[2] = b[1]
  <2>1. (d + 1) + 2 \in 1..d + 3 /\ 1 \in 1..d + 3 /\ 2 \in 1..d + 3
        /\ (d + 1) + 2 # 1 /\ ((d + 1) + 2) - 1 = d + 2
    BY <1>1
  <2> QED BY <2>1
<1>5. ASSUME NEW i \in 1..(d + 1) + 1
      PROVE  IsLevel(c[i + 1], c[i], g[i], Under(base, d + 1, i), t[i])
  <2>1. CASE i = 1
    <3>1. Under(base, d + 1, 1) = <<>>
      BY <1>1 DEF Under
    <3>2. IsLevel(b[1], b[1], <<>>, <<>>, <<>>)
      <4>1. Meaning(b[1], <<>>) = Got(<<>>, b[1])
        BY DEF MeaningEquations
      <4> QED BY <4>1, JoinedEmpty DEF IsLevel, Got
    <3> HIDE DEF c
    <3> QED BY <1>3, <1>4, <2>1, <3>1, <3>2
  <2>2. CASE i # 1
    <3>1. /\ i - 1 \in 1..d + 1 /\ (i - 1) + 1 = i
          /\ i - 1 \in 1..Len(s) /\ i - 1 \in 1..Len(f)
      BY <1>1, <2>2
    <3>2. IsLevel(b[(i - 1) + 1], b[i - 1], f[i - 1], Under(base, d, i - 1), s[i - 1])
      BY <3>1 DEF Levels
    <3>3. c[i + 1] = b[i] /\ c[i] = b[i - 1]
      <4>1. i \in 1..d + 3 /\ i + 1 \in 1..d + 3 /\ (i + 1) - 1 = i /\ i + 1 # 1
        BY <1>1, <2>2
      <4> QED BY <2>2, <4>1
    <3>4. Under(base, d + 1, i) = Under(base, d, i - 1)
      BY <1>1 DEF Under
    <3>5. t[i] = s[i - 1] /\ g[i] = f[i - 1]
      BY <1>2, <3>1
    <3> HIDE DEF c
    <3> QED BY <3>1, <3>2, <3>3, <3>4, <3>5
  <2> QED BY <2>1, <2>2
<1> HIDE DEF c
<1>6. Levels(t, g, d + 1, base, c)
  BY <1>5 DEF Levels
<1> QED BY <1>4, <1>6 DEF t, g

\* A list that is popped holds what its forms mean; those below stay.
LEMMA LevelsPopped ==
  ASSUME NEW s, NEW f, NEW d, NEW base, Nested(s, f, d, base), d > 0,
         NEW b, Levels(s, f, d, base, b)
  PROVE  /\ IsLevel(b[2], b[1], f[1], <<>>, s[1])
         /\ \E c : /\ c[(d - 1) + 2] = b[d + 2]
                   /\ c[1] = b[2]
                   /\ Levels(Tail(s), Tail(f), d - 1, base, c)
<1> DEFINE c == [i \in 1..d + 1 |-> b[i + 1]]
           t == Tail(s)
           g == Tail(f)
<1>1. d \in Nat /\ IsStack(s) /\ IsStack(f)
      /\ Len(f) = d + 1 /\ Len(base) \in Nat \ {0} /\ Len(s) = Len(base) + d
  BY Sizes DEF Nested
<1>2. /\ \A i \in 1..Len(s) - 1 : t[i] = s[i + 1]
      /\ \A i \in 1..Len(f) - 1 : g[i] = f[i + 1]
  BY <1>1, Dropped DEF IsStack
<1> HIDE DEF t, g
<1>3. c[(d - 1) + 2] = b[d + 2] /\ c[1] = b[2]
  <2>1. (d - 1) + 2 \in 1..d + 1 /\ 1 \in 1..d + 1 /\ ((d - 1) + 2) + 1 = d + 2
    BY <1>1
  <2> QED BY <2>1
<1>4. IsLevel(b[2], b[1], f[1], <<>>, s[1])
  <2>1. 1 \in 1..d + 1 /\ Under(base, d, 1) = <<>> /\ 1 + 1 = 2
    BY <1>1 DEF Under
  <2>2. IsLevel(b[1 + 1], b[1], f[1], Under(base, d, 1), s[1])
    BY <2>1 DEF Levels
  <2> QED BY <2>1, <2>2
<1>5. ASSUME NEW i \in 1..(d - 1) + 1
      PROVE  IsLevel(c[i + 1], c[i], g[i], Under(base, d - 1, i), t[i])
  <2>1. /\ i + 1 \in 1..d + 1 /\ i \in 1..Len(s) - 1 /\ i \in 1..Len(f) - 1
        /\ i \in 1..d + 1
    BY <1>1
  <2>2. IsLevel(b[(i + 1) + 1], b[i + 1], f[i + 1], Under(base, d, i + 1), s[i + 1])
    BY <2>1 DEF Levels
  <2>3. c[i + 1] = b[(i + 1) + 1] /\ c[i] = b[i + 1]
    BY <2>1
  <2>4. Under(base, d - 1, i) = Under(base, d, i + 1)
    BY <1>1 DEF Under
  <2> HIDE DEF c
  <2> QED BY <1>2, <2>1, <2>2, <2>3, <2>4
<1> HIDE DEF c
<1>6. Levels(t, g, d - 1, base, c)
  BY <1>5 DEF Levels
<1> QED BY <1>3, <1>4, <1>6 DEF t, g

\* A parser that begins has changed nothing.
LEMMA LevelsNew ==
  ASSUME MeaningEquations, NEW base, IsStack(base), NEW d
  PROVE  \E c : c[2] = d /\ c[1] = d /\ Levels(base, EmptyStack, 0, base, c)
<1> DEFINE c == [i \in 1..2 |-> d]
<1>1. c[1] = d /\ c[2] = d
  OBVIOUS
<1>2. IsLevel(d, d, <<>>, base[1], base[1])
  <2>1. IsSequence(base[1])
    BY Dropped DEF IsStack
  <2>2. Meaning(d, <<>>) = Got(<<>>, d)
    BY DEF MeaningEquations
  <2> QED BY <2>1, <2>2, JoinedEmpty DEF IsLevel, Got
<1> HIDE DEF c
<1>3. Levels(base, EmptyStack, 0, base, c)
  <2>1. EmptyStack[1] = <<>> /\ Under(base, 0, 1) = base[1]
    BY DEF EmptyStack, Under
  <2> QED BY <1>1, <1>2, <2>1 DEF Levels
<1> QED BY <1>1, <1>3

\* Sequences with the same items are the same.
LEMMA SameItems ==
  ASSUME NEW s, IsSequence(s), NEW t, IsSequence(t), Len(s) = Len(t),
         \A i \in 1..Len(s) : s[i] = t[i]
  PROVE  s = t
<1> DEFINE X == {s[i] : i \in DOMAIN s} \cup {t[i] : i \in DOMAIN t}
<1>1. s \in Seq(X) /\ t \in Seq(X)
  BY DEF IsSequence
<1> HIDE DEF X
<1> QED BY <1>1

(***************************************************************************)
(* While a parser reads: dict is what the levels above one another have    *)
(* made of the environment the parser began with, but for names that were  *)
(* looked up.                                                              *)
(***************************************************************************)
Evaluated(s, f, d, base, from, now) ==
  /\ Nested(s, f, d, base)
  /\ \E b : /\ b[d + 2] = from
            /\ SameBindings(now, b[1])
            /\ Levels(s, f, d, base, b)

(* A form that means one value, and the value it was given.  *)
LEMMA EvaluatedItem ==
  ASSUME MeaningEquations,
         NEW s, NEW f, NEW d, NEW base, NEW from, NEW now,
         Evaluated(s, f, d, base, from, now),
         NEW form, NEW v, NEW then,
         \A b1 : SameBindings(now, b1) =>
                   \E next : MeaningOf(b1, form) = Got(<<v>>, next) /\ SameBindings(then, next)
  PROVE  Evaluated(PushBack(s, v), PushBack(f, form), d, base, from, then)
<1>1. Nested(PushBack(s, v), PushBack(f, form), d, base)
  BY NestedItem DEF Evaluated
<1>2. PICK b : b[d + 2] = from /\ SameBindings(now, b[1]) /\ Levels(s, f, d, base, b)
  BY DEF Evaluated
<1>3. PICK next : MeaningOf(b[1], form) = Got(<<v>>, next) /\ SameBindings(then, next)
  BY <1>2
<1>4. PICK c : /\ c[d + 2] = b[d + 2]
               /\ c[1] = next
               /\ Levels(PushBack(s, v), PushBack(f, form), d, base, c)
  <2>1. Nested(s, f, d, base)
    BY DEF Evaluated
  <2> QED BY <1>2, <1>3, <2>1, LevelsItem
<1> QED BY <1>1, <1>2, <1>3, <1>4 DEF Evaluated

\* A list that opens keeps the interpreter in step with the meaning.
LEMMA EvaluatedOpened ==
  ASSUME MeaningEquations,
         NEW s, NEW f, NEW d, NEW base, NEW from, NEW now,
         Evaluated(s, f, d, base, from, now)
  PROVE  Evaluated(WithEmpty(s), WithEmpty(f), d + 1, base, from, now)
<1>1. Nested(s, f, d, base) /\ Nested(WithEmpty(s), WithEmpty(f), d + 1, base)
  BY NestedOpened DEF Evaluated
<1>2. PICK b : b[d + 2] = from /\ SameBindings(now, b[1]) /\ Levels(s, f, d, base, b)
  BY DEF Evaluated
<1>3. PICK c : /\ c[(d + 1) + 2] = b[d + 2]
               /\ c[1] = b[1]
               /\ Levels(WithEmpty(s), WithEmpty(f), d + 1, base, c)
  BY <1>1, <1>2, LevelsOpened
<1> QED BY <1>1, <1>2, <1>3 DEF Evaluated

\* And so does a parser that begins.
LEMMA EvaluatedNew ==
  ASSUME MeaningEquations, NEW base, IsStack(base), NEW d
  PROVE  Evaluated(base, EmptyStack, 0, base, d, d)
<1>1. PICK c : c[2] = d /\ c[1] = d /\ Levels(base, EmptyStack, 0, base, c)
  BY LevelsNew
<1>2. c[0 + 2] = d
  BY <1>1
<1> QED BY <1>1, <1>2, NestedNew, Bindings DEF Evaluated

(* A list that is closed is called with what its forms mean. *)
LEMMA FormMeans ==
  ASSUME NEW from, NEW to, NEW items, NEW list, IsLevel(from, to, items, <<>>, list)
  PROVE  MeaningOf(from, Form(items)) = Called(list, to) /\ IsSequence(list)
<1> DEFINE meaning == Meaning(from, items)
<1>1. meaning.ok /\ IsSequence(meaning.values) /\ to = meaning.dict
      /\ list = Above(<<>>, meaning.values)
  BY DEF IsLevel
<1>2. list = meaning.values
  BY <1>1, JoinedEmpty
<1>3. Form(items).type = "Form" /\ Form(items).items = items
  BY DEF Form
<1> QED BY <1>1, <1>2, <1>3 DEF MeaningOf, FormMeaning

(* A call that returns is one form more for the list below. *)
LEMMA EvaluatedCall ==
  ASSUME MeaningEquations, NamesLookedUp,
         NEW s, NEW f, NEW d, NEW base, NEW from, NEW now,
         Evaluated(s, f, d, base, from, now), d > 0,
         CallTop(now, Head(s)).ok
  PROVE  Evaluated(PushBack(Tail(s), CallTop(now, Head(s)).value),
                   PushBack(Tail(f), Form(Head(f))), d - 1, base, from,
                   CallTop(now, Head(s)).dict)
<1> DEFINE call == CallTop(now, Head(s))
<1>1. Nested(s, f, d, base)
  BY DEF Evaluated
<1>2. d \in Nat /\ Head(s) = s[1] /\ Head(f) = f[1] /\ IsSequence(s[1])
  BY <1>1, Dropped DEF Nested, IsStack
<1>3. PICK b : b[d + 2] = from /\ SameBindings(now, b[1]) /\ Levels(s, f, d, base, b)
  BY DEF Evaluated
<1>4. /\ IsLevel(b[2], b[1], f[1], <<>>, s[1])
      /\ \E c : /\ c[(d - 1) + 2] = b[d + 2]
                /\ c[1] = b[2]
                /\ Levels(Tail(s), Tail(f), d - 1, base, c)
  BY <1>1, <1>3, LevelsPopped
<1>5. PICK c : /\ c[(d - 1) + 2] = b[d + 2]
               /\ c[1] = b[2]
               /\ Levels(Tail(s), Tail(f), d - 1, base, c)
  BY <1>4
<1>6. MeaningOf(b[2], Form(f[1])) = Called(s[1], b[1])
  BY <1>4, FormMeans
<1>7. PICK next : Called(s[1], b[1]) = Got(<<call.value>>, next)
                  /\ SameBindings(call.dict, next)
  <2>1. /\ CallTop(now, s[1]).ok <=> Called(s[1], b[1]).ok
        /\ Called(s[1], b[1]).ok =>
             Called(s[1], b[1]) = Got(<<CallTop(now, s[1]).value>>, Called(s[1], b[1]).dict)
        /\ SameBindings(CallTop(now, s[1]).dict, Called(s[1], b[1]).dict)
    BY <1>2, <1>3, CallsAgree
  <2> QED BY <1>2, <2>1
<1> HIDE DEF call
<1>8. PICK e : /\ e[(d - 1) + 2] = c[(d - 1) + 2]
               /\ e[1] = next
               /\ Levels(PushBack(Tail(s), call.value), PushBack(Tail(f), Form(f[1])),
                         d - 1, base, e)
  <2>1. Nested(Tail(s), Tail(f), d - 1, base)
    BY <1>1, NestedPopped
  <2>2. MeaningOf(c[1], Form(f[1])) = Got(<<call.value>>, next)
    BY <1>5, <1>6, <1>7
  <2> QED BY <1>5, <2>1, <2>2, LevelsItem
<1>9. Nested(PushBack(Tail(s), call.value), PushBack(Tail(f), Form(f[1])), d - 1, base)
  BY <1>1, NestedPopped, NestedItem
<1>10. Evaluated(PushBack(Tail(s), call.value), PushBack(Tail(f), Form(f[1])), d - 1,
                 base, from, call.dict)
  BY <1>3, <1>5, <1>7, <1>8, <1>9 DEF Evaluated
<1> QED BY <1>2, <1>10 DEF call

(* One that throws, from the outermost list, and the input means nothing. *)
LEMMA EvaluatedThrow ==
  ASSUME MeaningEquations, NamesLookedUp,
         NEW s, NEW f, NEW base, NEW from, NEW now,
         Evaluated(s, f, 1, base, from, now),
         ~CallTop(now, Head(s)).ok
  PROVE  LET meaning == Meaning(from, Head(PushBack(Tail(f), Form(Head(f)))))
         IN ~meaning.ok /\ SameBindings(CallTop(now, Head(s)).dict, meaning.dict)
<1> DEFINE call == CallTop(now, Head(s))
           items == Head(PushBack(Tail(f), Form(Head(f))))
           front == Meaning(from, f[2])
<1>1. Nested(s, f, 1, base)
  BY DEF Evaluated
<1>2. Head(s) = s[1] /\ Head(f) = f[1] /\ IsSequence(s[1]) /\ IsStack(f) /\ Len(f) = 2
  BY <1>1, Dropped DEF Nested, IsStack
<1>3. PICK b : b[3] = from /\ SameBindings(now, b[1]) /\ Levels(s, f, 1, base, b)
  BY DEF Evaluated
<1>4. IsLevel(b[2], b[1], f[1], <<>>, s[1])
  BY <1>1, <1>3, LevelsPopped
<1>5. front.ok /\ front.dict = b[2]
  <2>1. IsLevel(b[2 + 1], b[2], f[2], Under(base, 1, 2), s[2])
    BY <1>3 DEF Levels
  <2> QED BY <1>3, <2>1 DEF IsLevel
<1>6. items = Append(f[2], Form(f[1])) /\ IsSequence(f[2])
  <2>1. IsStack(Tail(f)) /\ Tail(f)[1] = f[2]
    BY <1>2, Popped
  <2>2. IsStack(PushBack(Tail(f), Form(f[1])))
        /\ PushBack(Tail(f), Form(f[1]))[1] = Append(Tail(f)[1], Form(f[1]))
    BY <2>1, Pushed
  <2>3. Head(PushBack(Tail(f), Form(f[1]))) = PushBack(Tail(f), Form(f[1]))[1]
    BY <2>2, Dropped DEF IsStack
  <2> QED BY <1>2, <2>1, <2>2, <2>3 DEF IsStack
<1>7. Meaning(from, items) = Then(front, Form(f[1]))
  <2> HIDE DEF items
  <2> QED BY <1>6 DEF MeaningEquations
<1>8. MeaningOf(b[2], Form(f[1])) = Called(s[1], b[1])
  BY <1>4, FormMeans
<1>9. /\ call.ok <=> Called(s[1], b[1]).ok
      /\ SameBindings(call.dict, Called(s[1], b[1]).dict)
  BY <1>2, <1>3, CallsAgree
<1> HIDE DEF call, items, front
<1>10. Meaning(from, items) = Called(s[1], b[1])
  BY <1>5, <1>7, <1>8, <1>9 DEF Then, AndThis, call
<1> QED BY <1>9, <1>10 DEF call, items

(***************************************************************************)
(* Evaluation follows the meaning as long as nothing is thrown, and what   *)
(* is thrown from the outermost list leaves it there.                      *)
(***************************************************************************)
Going == Evaluated(stack, forms, depth, before.stack, before.dict, dict)

Thrown ==
  /\ status = "failed"
  /\ depth = 0 =>
       LET meaning == Meaning(before.dict, Head(forms))
       IN /\ ~meaning.ok
          /\ SameBindings(dict, meaning.dict)
          /\ Len(stack) = Len(before.stack) + 1

EvalInv == NestingInv /\ (Going \/ Thrown)

\* An interpreter that is new is in step.
LEMMA EvalStart ==
  ASSUME MeaningEquations, Init
  PROVE  EvalInv
<1>1. /\ stack = EmptyStack /\ forms = EmptyStack /\ depth = 0
      /\ before.stack = EmptyStack /\ before.dict = dict
  BY DEF Init, Parser!Init
<1> QED BY <1>1, NestingStart, EmptyIsStack, EvaluatedNew DEF EvalInv, Going

\* Every step keeps it so, or throws what the meaning says.
LEMMA EvalStep ==
  ASSUME MeaningEquations, NamesLookedUp, EvalInv, [Next]_vars
  PROVE  EvalInv'
<1>0. NestingInv'
  BY NestingStep DEF EvalInv
<1>1. status = "reading" => Going
  BY DEF EvalInv, Thrown
<1>2. ASSUME OnListBegin PROVE EvalInv'
  <2>1. /\ stack' = WithEmpty(stack) /\ forms' = WithEmpty(forms)
        /\ depth' = depth + 1 /\ before' = before /\ dict' = dict /\ Going
    BY <1>1, <1>2 DEF OnListBegin, Reading, Parser!OnListBegin, WithEmpty
  <2>2. Evaluated(WithEmpty(stack), WithEmpty(forms), depth + 1, before.stack, before.dict, dict)
    BY <2>1, EvaluatedOpened DEF Going
  <2> QED BY <1>0, <2>1, <2>2 DEF EvalInv, Going
<1>3. ASSUME OnListEnd PROVE EvalInv'
  <2> DEFINE call == CallTop(dict, Head(stack))
             below == PushBack(Tail(forms), Form(Head(forms)))
  <2>1. /\ forms' = below
        /\ depth' = depth - 1 /\ depth > 0 /\ before' = before /\ dict' = call.dict
        /\ \/ /\ call.ok
              /\ stack' = PushBack(Tail(stack), call.value)
           \/ /\ ~call.ok /\ status' = "failed"
              /\ stack' = IF call.called THEN WithTop(stack, Tail(Head(stack)))
                                         ELSE stack
        /\ Going
    BY <1>1, <1>3 DEF OnListEnd, Reading, Parser!OnListEnd, Below, WithTop
  <2>2. CASE call.ok
    <3>1. Evaluated(PushBack(Tail(stack), call.value), below, depth - 1,
                    before.stack, before.dict, call.dict)
      BY <2>1, <2>2, EvaluatedCall DEF Going
    <3>2. stack' = PushBack(Tail(stack), call.value)
      BY <2>1, <2>2
    <3> HIDE DEF call, below
    <3> QED BY <1>0, <2>1, <3>1, <3>2 DEF EvalInv, Going
  <2>3. CASE ~call.ok
    <3>1. status' = "failed" /\ Len(stack') = Len(stack)
      <4>1. IsStack(stack)
        BY DEF EvalInv, NestingInv
      <4>2. CASE call.called
        <5>1. Head(stack) # <<>>
          BY <4>2 DEF CallTop, NotCalled
        <5>2. IsSequence(Tail(Head(stack)))
          BY <4>1, <5>1, Dropped DEF IsStack
        <5> QED BY <2>1, <2>3, <4>1, <4>2, <5>2, ReplacedTop
      <4>3. CASE ~call.called
        BY <2>1, <2>3, <4>3
      <4> QED BY <4>2, <4>3
    <3>2. ASSUME depth' = 0
          PROVE  LET meaning == Meaning(before.dict, Head(below))
                 IN ~meaning.ok /\ SameBindings(call.dict, meaning.dict)
      <4>1. depth = 1
        BY <2>1, <3>2 DEF Going, Evaluated, Nested
      <4>2. Evaluated(stack, forms, 1, before.stack, before.dict, dict)
        BY <2>1, <4>1 DEF Going
      <4> QED BY <2>3, <4>2, EvaluatedThrow
    <3>3. ASSUME depth' = 0
          PROVE  Len(stack') = Len(before.stack) + 1
      <4>1. depth = 1
        BY <2>1, <3>3 DEF Going, Evaluated, Nested
      <4> QED BY <2>1, <3>1, <4>1 DEF Going, Evaluated, Nested
    <3> HIDE DEF call, below
    <3>4. Thrown'
      BY <2>1, <3>1, <3>2, <3>3 DEF Thrown
    <3> QED BY <1>0, <3>4 DEF EvalInv
  <2> QED BY <2>2, <2>3
<1>4. ASSUME OnAtom PROVE EvalInv'
  <2>1. PICK atom \in Atoms :
          /\ stack' = PushBack(stack, Value(dict, Convert(atom)))
          /\ dict' = Affected(dict, <<Convert(atom)>>)
          /\ forms' = PushBack(forms, Convert(atom))
    BY <1>4 DEF OnAtom
  <2> DEFINE e == Convert(atom)
  <2>2. depth' = depth /\ before' = before /\ Going
    BY <1>1, <1>4 DEF OnAtom, Reading, Parser!OnLexeme
  <2>3. e.type # "String" /\ e.type # "Form"
    BY DEF Convert, Text
  <2> HIDE DEF e
  <2>4. ASSUME NEW b1, SameBindings(dict, b1)
        PROVE  \E next : /\ MeaningOf(b1, e) = Got(<<Value(dict, e)>>, next)
                         /\ SameBindings(Affected(dict, <<e>>), next)
    <3>1. MeaningOf(b1, e) = Got(<<Value(b1, e)>>, b1)
      BY <2>3 DEF MeaningOf, FormMeaning
    <3>2. Value(b1, e) = Value(dict, e)
      BY <2>4 DEF NamesLookedUp
    <3>3. SameBindings(Affected(dict, <<e>>), b1)
      BY <2>4, Bindings
    <3> QED BY <3>1, <3>2, <3>3
  <2>5. Evaluated(PushBack(stack, Value(dict, e)), PushBack(forms, e), depth,
                  before.stack, before.dict, Affected(dict, <<e>>))
    BY <2>2, <2>4, EvaluatedItem DEF Going
  <2> QED BY <1>0, <2>1, <2>2, <2>5 DEF EvalInv, Going, e
<1>5. ASSUME OnString PROVE EvalInv'
  <2>1. PICK s \in Strings :
          /\ stack' = PushBack(stack, Text("String", s))
          /\ forms' = PushBack(forms, Text("String", s))
    BY <1>5 DEF OnString
  <2> DEFINE e == Text("String", s)
  <2>2. depth' = depth /\ before' = before /\ dict' = dict /\ Going
    BY <1>1, <1>5 DEF OnString, Reading, Parser!OnLexeme
  <2>3. e.type = "String"
    BY DEF Text
  <2> HIDE DEF e
  <2>4. \A b1 : MeaningOf(b1, e) = Got(<<e>>, b1)
    BY <2>3 DEF MeaningOf, FormMeaning
  <2>5. Evaluated(PushBack(stack, e), PushBack(forms, e), depth,
                  before.stack, before.dict, dict)
    BY <2>2, <2>4, EvaluatedItem DEF Going
  <2> QED BY <1>0, <2>1, <2>2, <2>5 DEF EvalInv, Going, e
<1>6. ASSUME LexemeBegins \/ OnComment \/ Rejected \/ OnEof PROVE EvalInv'
  <2>1. UNCHANGED <<stack, forms, depth, before, dict>> /\ Going
    BY <1>1, <1>6
    DEF LexemeBegins, OnComment, Rejected, OnEof, Reading,
        Parser!LexemeBegins, Parser!OnLexeme, Parser!Rejected, Parser!OnEof
  <2> QED BY <1>0, <2>1 DEF EvalInv, Going
<1>7. ASSUME NEW s, IsStack(s), Parse(s) PROVE EvalInv'
  <2>1. /\ stack' = s /\ forms' = EmptyStack /\ depth' = 0 /\ dict' = dict
        /\ before'.stack = s /\ before'.dict = dict
    BY <1>7 DEF Parse
  <2>2. Evaluated(s, EmptyStack, 0, s, dict, dict)
    BY <1>7, EvaluatedNew
  <2> QED BY <1>0, <2>1, <2>2 DEF EvalInv, Going
<1>8. ASSUME ParseAgain \/ NewInterpreter PROVE EvalInv'
  BY <1>7, <1>8, EmptyIsStack DEF ParseAgain, NewInterpreter, EvalInv, NestingInv
<1>9. CASE Over \/ UNCHANGED vars
  BY <1>0, <1>9 DEF Over, vars, EvalInv, Going, Thrown
<1> QED BY <1>2, <1>3, <1>4, <1>5, <1>6, <1>8, <1>9 DEF Next

(***************************************************************************)
(* Evaluation with a stack, while parsing, comes to the meaning of the     *)
(* forms, for inputs of any length and nesting, one after the other, and   *)
(* for any functions that know the environment by looking names up.        *)
(***************************************************************************)
THEOREM EvaluationIsMeaning ==
  ASSUME MeaningEquations, NamesLookedUp
  PROVE  Spec => []EvaluatesAsWritten
<1>1. Init => EvalInv BY EvalStart
<1>2. EvalInv /\ [Next]_vars => EvalInv' BY EvalStep
<1>3. EvalInv => EvaluatesAsWritten
  <2> SUFFICES ASSUME EvalInv, depth = 0
               PROVE  LET meaning == Meaning(before.dict, Head(forms))
                      IN /\ SameBindings(dict, meaning.dict)
                         /\ \/ /\ meaning.ok
                               /\ stack = WithTop(before.stack,
                                                  Above(Head(before.stack), meaning.values))
                            \/ ~meaning.ok /\ status = "failed" /\ Len(stack) = Len(before.stack) + 1
    BY DEF EvaluatesAsWritten, WithTop, Above
  <2>1. CASE Thrown
    BY <2>1 DEF Thrown
  <2>2. CASE Going
    <3> DEFINE base == before.stack
               meaning == Meaning(before.dict, Head(forms))
               top == Above(Head(base), meaning.values)
    <3>1. Nested(stack, forms, 0, base)
      BY <2>2 DEF Going, Evaluated
    <3>2. /\ IsStack(stack) /\ IsStack(base) /\ Len(base) \in Nat \ {0}
          /\ Len(stack) = Len(base) + 0
          /\ \A i \in 2..Len(base) : stack[0 + i] = base[i]
          /\ Head(forms) = forms[1] /\ Head(base) = base[1]
      BY <3>1, Dropped DEF Nested, IsStack
    <3>3. PICK b : b[2] = before.dict /\ SameBindings(dict, b[1])
                   /\ Levels(stack, forms, 0, base, b)
      BY <2>2 DEF Going, Evaluated
    <3>4. IsLevel(b[2], b[1], forms[1], base[1], stack[1])
      <4>1. Under(base, 0, 1) = base[1]
        BY DEF Under
      <4> QED BY <3>3, <4>1 DEF Levels
    <3>5. meaning.ok /\ SameBindings(dict, meaning.dict) /\ stack[1] = top
      BY <3>2, <3>3, <3>4 DEF IsLevel
    <3>6. stack = WithTop(base, top)
      <4>1. IsSequence(top)
        BY <3>2, <3>5 DEF IsStack
      <4> HIDE DEF top
      <4>2. /\ IsStack(WithTop(base, top)) /\ Len(WithTop(base, top)) = Len(base)
            /\ WithTop(base, top)[1] = top
            /\ \A i \in 2..Len(base) : WithTop(base, top)[i] = base[i]
        BY <3>2, <4>1, ReplacedTop
      <4> QED BY <3>2, <3>5, <4>2, SameItems DEF IsStack
    <3> QED BY <3>5, <3>6
  <2> QED BY <2>1, <2>2 DEF EvalInv
<1> QED BY <1>1, <1>2, <1>3, PTL DEF Spec
=============================================================================
