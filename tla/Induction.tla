----------------------------- MODULE Induction ------------------------------
(***************************************************************************)
(* Induction over numbers, in the form of facts about sets: what the       *)
(* proofs about loops over sequences need.  To show P for 0 .. n, take for *)
(* T those for which it holds.                                             *)
(***************************************************************************)
EXTENDS Integers, WellFoundedInduction, TLAPS

(* Numbers, if there are any, have a least one. *)
LEMMA Least ==
  ASSUME NEW T, T \subseteq Nat, T # {}
  PROVE  \E least \in T : \A y \in T : least <= y
<1>1. IsWellFoundedOn(OpToRel(<, Nat), Nat)
  BY NatLessThanWellFounded
<1>2. \E x \in T : \A y \in T : ~ (<<y, x>> \in OpToRel(<, Nat))
  BY <1>1, WFMin
<1>3. \A x, y \in T : x <= y \/ <<y, x>> \in OpToRel(<, Nat)
  BY DEF OpToRel
<1> QED BY <1>2, <1>3

(* And those below a number a greatest one. *)
LEMMA Greatest ==
  ASSUME NEW n \in Nat, NEW T, T \subseteq 0 .. n, T # {}
  PROVE  \E greatest \in T : \A y \in T : y <= greatest
<1> DEFINE below == {n - y : y \in T}
<1>1. below \subseteq Nat /\ below # {}
  <2>1. \A y \in T : n - y \in Nat
    OBVIOUS
  <2>2. PICK y \in T : TRUE
    OBVIOUS
  <2>3. n - y \in below
    OBVIOUS
  <2> QED BY <2>1, <2>3
<1>2. PICK x \in below : \A y \in below : x <= y
  BY <1>1, Least
<1>3. PICK greatest \in T : x = n - greatest
  BY <1>2
<1>4. \A y \in T : y <= greatest
  BY <1>2, <1>3
<1> QED BY <1>3, <1>4

(* Step by step all numbers up to n are reached. *)
LEMMA StepByStep ==
  ASSUME NEW n \in Nat, NEW T, 0 \in T,
         \A i \in 0 .. n - 1 : i \in T => i + 1 \in T
  PROVE  0 .. n \subseteq T
<1> DEFINE missing == (0 .. n) \ T
<1> SUFFICES ASSUME missing # {} PROVE FALSE
  OBVIOUS
<1>1. missing \subseteq Nat
  OBVIOUS
<1>2. PICK least \in missing : \A y \in missing : least <= y
  BY <1>1, Least
<1>3. least - 1 \in 0 .. n - 1 /\ (least - 1) + 1 = least /\ least - 1 \notin missing
  BY <1>2
<1> QED BY <1>2, <1>3

(***************************************************************************)
(* A loop that goes n times and changes something in S each time has a     *)
(* result: the function with its values after each turn exists.            *)
(***************************************************************************)
IsLoop(f, n, first, turn) ==
  /\ f[0] = first
  /\ \A i \in 1 .. n : f[i] = turn[<<i, f[i - 1]>>]

\* So it has, by induction over the number of turns.
LEMMA LoopDefined ==
  ASSUME NEW n \in Nat, NEW S, NEW first \in S, NEW turn \in [(1 .. n) \X S -> S]
  PROVE  \E f \in [0 .. n -> S] : IsLoop(f, n, first, turn)
<1> DEFINE T == {m \in 0 .. n : \E f \in [0 .. m -> S] : IsLoop(f, m, first, turn)}
<1>1. 0 \in T
  <2>1. [i \in 0 .. 0 |-> first] \in [0 .. 0 -> S]
    OBVIOUS
  <2>2. IsLoop([i \in 0 .. 0 |-> first], 0, first, turn)
    BY DEF IsLoop
  <2>3. \E f \in [0 .. 0 -> S] : IsLoop(f, 0, first, turn)
    BY <2>1, <2>2, Zenon
  <2> QED BY <2>3
<1>2. ASSUME NEW m \in 0 .. n - 1, m \in T PROVE m + 1 \in T
  <2>1. PICK f \in [0 .. m -> S] : IsLoop(f, m, first, turn)
    BY <1>2
  <2> DEFINE g == [i \in 0 .. m + 1 |-> IF i = m + 1 THEN turn[<<m + 1, f[m]>>] ELSE f[i]]
  <2>2. m \in 0 .. m /\ m + 1 \in 1 .. n /\ m + 1 \in 0 .. n
    OBVIOUS
  <2>3. turn[<<m + 1, f[m]>>] \in S
    BY <2>1, <2>2
  <2>4. g \in [0 .. m + 1 -> S]
    BY <2>1, <2>3
  <2>5. g[0] = first
    BY <2>1 DEF IsLoop
  <2>6. ASSUME NEW i \in 1 .. m + 1 PROVE g[i] = turn[<<i, g[i - 1]>>]
    <3>1. i - 1 \in 0 .. m /\ i \in 0 .. m + 1 /\ i - 1 # m + 1 /\ i - 1 \in 0 .. m + 1
      OBVIOUS
    <3>2. g[i - 1] = f[i - 1]
      BY <3>1
    <3>3. CASE i = m + 1
      BY <3>1, <3>2, <3>3
    <3>4. CASE i # m + 1
      <4>1. i \in 1 .. m
        BY <3>4
      <4>2. g[i] = f[i]
        BY <3>1, <3>4
      <4> QED BY <2>1, <3>2, <4>1, <4>2 DEF IsLoop
    <3> QED BY <3>3, <3>4
  <2> HIDE DEF g
  <2>7. IsLoop(g, m + 1, first, turn)
    BY <2>5, <2>6 DEF IsLoop
  <2> QED BY <2>2, <2>4, <2>7
<1> HIDE DEF T
<1>3. n \in T
  <2>1. 0 .. n \subseteq T
    BY <1>1, <1>2, StepByStep
  <2> QED BY <2>1
<1> QED BY <1>3 DEF T
=============================================================================
