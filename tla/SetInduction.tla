---------------------------- MODULE SetInduction ----------------------------
(***************************************************************************)
(* Induction and recursion over the natural numbers in a first-order form. *)
(*                                                                         *)
(* The induction theorems of the library speak of an operator P(_), which  *)
(* SMT and Zenon cannot instantiate.  A set of numbers, and a function for *)
(* the step of a recursion, they can; that every set of numbers which is   *)
(* not empty has a least element is WFMin of the library.  So the modules  *)
(* that extend this one prove what loops and folds of the code compute.    *)
(***************************************************************************)
EXTENDS Integers, WellFoundedInduction, TLAPS

(***************************************************************************)
(* A set of natural numbers that is not empty has a least element.         *)
(***************************************************************************)
LEMMA LeastElement ==
  ASSUME NEW T \in SUBSET Nat, T # {}
  PROVE  \E x \in T : \A y \in T : x <= y
<1> DEFINE Less == OpToRel(<, Nat)
<1>1. PICK x \in T : \A y \in T : <<y, x>> \notin Less
  <2> HIDE DEF Less
  <2>1. IsWellFoundedOn(Less, Nat)
    BY NatLessThanWellFounded DEF Less
  <2> QED
    BY <2>1, WFMin
<1>2. \A y \in T : ~(y < x)
  BY <1>1 DEF OpToRel
<1> QED
  BY <1>2

(***************************************************************************)
(* A set that holds 0 and with every number up to a limit the next one     *)
(* holds all numbers up to the limit.                                      *)
(***************************************************************************)
LEMMA InductionUpTo ==
  ASSUME NEW N \in Nat, NEW S, 0 \in S,
         \A n \in 0 .. N - 1 : n \in S => n + 1 \in S
  PROVE  0 .. N \subseteq S
<1>1. SUFFICES ASSUME (0 .. N) \ S # {} PROVE FALSE
  OBVIOUS
<1>2. (0 .. N) \ S \in SUBSET Nat
  OBVIOUS
<1>3. PICK x \in (0 .. N) \ S : \A y \in (0 .. N) \ S : x <= y
  BY <1>1, <1>2, LeastElement
<1>4. x - 1 \in 0 .. N - 1 /\ x - 1 \in S
  BY <1>3
<1> QED
  BY <1>3, <1>4

(***************************************************************************)
(* The states s a loop of N rounds goes through, all of them in T, given   *)
(* the first one and what each round does.                                 *)
(***************************************************************************)
IsLoop(s, T, N, base, step) ==
  /\ s \in [0 .. N -> T]
  /\ s[0] = base
  /\ \A i \in 1 .. N : s[i] = step[<<i, s[i - 1]>>]

(***************************************************************************)
(* Every loop of a fixed number of rounds has such a run.                  *)
(***************************************************************************)
LEMMA LoopHasRun ==
  ASSUME NEW T, NEW N \in Nat, NEW base \in T,
         NEW step \in [(1 .. N) \X T -> T]
  PROVE  \E s : IsLoop(s, T, N, base, step)
<1> DEFINE Run(n, g) == g[0] = base /\ \A i \in 1 .. n : g[i] = step[<<i, g[i - 1]>>]
           S == {n \in 0 .. N : \E g \in [0 .. n -> T] : Run(n, g)}
<1>1. 0 \in S
  <2>1. PICK g : g = [i \in 0 .. 0 |-> base]
    OBVIOUS
  <2>2. g \in [0 .. 0 -> T] /\ Run(0, g)
    BY <2>1
  <2> QED
    BY <2>2
<1>2. ASSUME NEW n \in 0 .. N - 1, n \in S PROVE n + 1 \in S
  <2>1. PICK g \in [0 .. n -> T] : Run(n, g)
    BY <1>2
  <2>2. PICK x \in T : x = step[<<n + 1, g[n]>>]
    OBVIOUS
  <2>3. PICK h : h = [i \in 0 .. n + 1 |-> IF i <= n THEN g[i] ELSE x]
    OBVIOUS
  <2>4. h \in [0 .. n + 1 -> T]
    BY <2>3
  <2>5. h[0] = base /\ h[n + 1] = x /\ \A i \in 0 .. n : h[i] = g[i]
    BY <2>1, <2>3
  <2>6. ASSUME NEW i \in 1 .. n + 1 PROVE h[i] = step[<<i, h[i - 1]>>]
    <3>1. CASE i = n + 1
      <4>1. i - 1 = n /\ n \in 0 .. n
        BY <3>1
      <4> QED
        BY <2>2, <2>5, <3>1, <4>1
    <3>2. CASE i \in 1 .. n
      <4>1. i \in 0 .. n /\ i - 1 \in 0 .. n
        BY <3>2
      <4> QED
        BY <2>1, <2>5, <3>2, <4>1
    <3> QED
      BY <3>1, <3>2
  <2>7. Run(n + 1, h)
    BY <2>5, <2>6
  <2> QED
    BY <2>4, <2>7
<1> HIDE DEF S
<1>3. 0 .. N \subseteq S
  BY <1>1, <1>2, InductionUpTo
<1> QED
  BY <1>3 DEF S, IsLoop
=============================================================================
