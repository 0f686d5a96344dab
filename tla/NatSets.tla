------------------------------ MODULE NatSets -------------------------------
(***************************************************************************)
(* Induction over the natural numbers, stated for a set instead of a       *)
(* predicate: a proof defines the set of the numbers for which something   *)
(* holds and cites one of these facts.                                     *)
(***************************************************************************)
EXTENDS Integers, WellFoundedInduction, TLAPS

(* Every nonempty set of natural numbers has a least element. *)
LEMMA LeastNat ==
  ASSUME NEW T \in SUBSET Nat, T # {}
  PROVE  \E least \in T : \A y \in T : least <= y
<1> DEFINE Before == OpToRel(<, Nat)
<1>1. IsWellFoundedOn(Before, Nat)
  BY NatLessThanWellFounded
<1>2. \A x \in T, y \in T : y < x => <<y, x>> \in Before
  BY DEF OpToRel
<1> HIDE DEF Before
<1>3. PICK x \in T : \A y \in T : ~ (<<y, x>> \in Before)
  BY <1>1, WFMin
<1>4. ASSUME NEW y \in T PROVE x <= y
  <2>1. ~ (y < x)
    BY <1>2, <1>3
  <2> QED
    BY <2>1
<1> QED
  BY <1>4

(* A set that has zero and the successor of each of its elements has every *)
(* natural number.                                                         *)
LEMMA NatInSet ==
  ASSUME NEW B, 0 \in B, \A i \in Nat : i \in B => i + 1 \in B
  PROVE  Nat \subseteq B
<1> SUFFICES ASSUME Nat \ B # {} PROVE FALSE
  OBVIOUS
<1>1. PICK x \in Nat \ B : \A y \in Nat \ B : x <= y
  BY LeastNat
<1>2. x # 0 /\ x - 1 \in Nat
  BY <1>1
<1>3. x - 1 \in B
  BY <1>1, <1>2
<1> QED
  BY <1>2, <1>3

(* A set of places that has every place before each of its own consists of *)
(* the first so many places.                                               *)
LEMMA InitialPlaces ==
  ASSUME NEW n \in Nat, NEW E \in SUBSET (1..n),
         \A i \in E : \A j \in 1..i : j \in E
  PROVE  \E m \in 0..n : E = 1..m
<1>1. PICK x \in (1..(n + 1)) \ E : \A y \in (1..(n + 1)) \ E : x <= y
  <2>1. (1..(n + 1)) \ E \in SUBSET Nat /\ n + 1 \in (1..(n + 1)) \ E
    OBVIOUS
  <2> QED
    BY <2>1, LeastNat
<1>2. E \subseteq 1..(x - 1)
  <2> SUFFICES ASSUME NEW i \in E, ~ i \in 1..(x - 1) PROVE FALSE
    OBVIOUS
  <2>1. x \in 1..i
    OBVIOUS
  <2> QED
    BY <2>1
<1>3. 1..(x - 1) \subseteq E
  BY <1>1
<1>4. E = 1..(x - 1)
  BY <1>2, <1>3
<1>5. x - 1 \in 0..n
  BY <1>1
<1> QED
  BY <1>4, <1>5

\* The sums of the first numbers of v, up to n of them.
AddsUp(sum, v, n) == sum[0] = 0 /\ \A i \in 1..n : sum[i] = sum[i - 1] + v[i]

(* Adding up numbers one after the other defines a function, whatever the  *)
(* numbers are.                                                            *)
LEMMA SumsExist ==
  ASSUME NEW n \in Nat, NEW v, \A i \in 1..n : v[i] \in Int
  PROVE  \E sum \in [0..n -> Int] : AddsUp(sum, v, n)
<1> USE DEF AddsUp
<1> DEFINE Done == {m \in Nat : m <= n => \E sum \in [0..m -> Int] : AddsUp(sum, v, m)}
<1>1. 0 \in Done
  <2>1. [i \in 0..0 |-> 0] \in [0..0 -> Int] /\ AddsUp([i \in 0..0 |-> 0], v, 0)
    OBVIOUS
  <2> QED
    BY <2>1
<1>2. ASSUME NEW m \in Nat, m \in Done PROVE m + 1 \in Done
  <2> SUFFICES ASSUME m + 1 <= n PROVE \E sum \in [0..(m + 1) -> Int] : AddsUp(sum, v, m + 1)
    OBVIOUS
  <2>1. PICK sum \in [0..m -> Int] : AddsUp(sum, v, m)
    BY <1>2
  <2> DEFINE longer == [i \in 0..(m + 1) |-> IF i = m + 1 THEN sum[m] + v[m + 1] ELSE sum[i]]
  <2>2. longer \in [0..(m + 1) -> Int]
    OBVIOUS
  <2>3. \A i \in 0..m : longer[i] = sum[i]
    OBVIOUS
  <2>4. longer[m + 1] = longer[m] + v[m + 1]
    OBVIOUS
  <2> HIDE DEF longer
  <2>5. ASSUME NEW i \in 1..(m + 1) PROVE longer[i] = longer[i - 1] + v[i]
    <3>1. CASE i = m + 1
      BY <2>4, <3>1
    <3>2. CASE i \in 1..m
      BY <2>1, <2>3, <3>2
    <3> QED
      BY <3>1, <3>2
  <2>6. AddsUp(longer, v, m + 1)
    BY <2>1, <2>3, <2>5
  <2> QED
    BY <2>2, <2>6
<1>3. n \in Done
  <2> HIDE DEF Done
  <2> QED
    BY <1>1, <1>2, NatInSet
<1> QED
  BY <1>3

(* It defines one function only.                                          *)
LEMMA SumsAgree ==
  ASSUME NEW n \in Nat, NEW v, NEW sum, NEW other,
         AddsUp(sum, v, n), AddsUp(other, v, n)
  PROVE  \A i \in 0..n : sum[i] = other[i]
<1> USE DEF AddsUp
<1> DEFINE Agree == {i \in Nat : i <= n => sum[i] = other[i]}
<1>1. 0 \in Agree
  OBVIOUS
<1>2. ASSUME NEW i \in Nat, i \in Agree PROVE i + 1 \in Agree
  <2>1. i + 1 <= n => sum[i + 1] = sum[i] + v[i + 1] /\ other[i + 1] = other[i] + v[i + 1]
    <3>1. i + 1 <= n => i + 1 \in 1..n /\ (i + 1) - 1 = i
      OBVIOUS
    <3> QED
      BY <3>1
  <2> QED
    BY <1>2, <2>1
<1>3. Nat \subseteq Agree
  <2> HIDE DEF Agree
  <2> QED
    BY <1>1, <1>2, NatInSet
<1> QED
  BY <1>3

(* Sums of natural numbers are natural numbers.                            *)
LEMMA SumsAreNat ==
  ASSUME NEW n \in Nat, NEW v, NEW sum, \A i \in 1..n : v[i] \in Nat,
         AddsUp(sum, v, n)
  PROVE  \A i \in 0..n : sum[i] \in Nat
<1> USE DEF AddsUp
<1> DEFINE Done == {i \in Nat : i <= n => sum[i] \in Nat}
<1>1. 0 \in Done
  OBVIOUS
<1>2. ASSUME NEW i \in Nat, i \in Done PROVE i + 1 \in Done
  <2>1. i + 1 <= n => i + 1 \in 1..n /\ (i + 1) - 1 = i /\ sum[i] \in Nat
    BY <1>2
  <2> QED
    BY <2>1
<1>3. Nat \subseteq Done
  <2> HIDE DEF Done
  <2> QED
    BY <1>1, <1>2, NatInSet
<1> QED
  BY <1>3
=============================================================================
