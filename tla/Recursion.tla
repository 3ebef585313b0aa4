------------------------------ MODULE Recursion ------------------------------
(***************************************************************************)
(* Induction and recursion over the natural numbers, for data.  What is    *)
(* proved by induction is stated as membership in a set, and what is       *)
(* defined by recursion is given by the functions of its steps, so that no *)
(* lemma has an operator for a parameter.  They rest on the library's      *)
(* theorem that the natural numbers are well-founded.                      *)
(***************************************************************************)
EXTENDS WellFoundedInduction, SequenceTheorems, TLAPS

(* A set of natural numbers that has any has a smallest one.               *)
LEMMA Smallest ==
  ASSUME NEW T \in SUBSET Nat, T # {}
  PROVE  \E x \in T : \A y \in T : x <= y
<1> DEFINE R == {pair \in Nat \X Nat : pair[1] < pair[2]}
<1>1. IsWellFoundedOn(R, Nat)
  BY NatLessThanWellFounded DEF OpToRel
<1>2. \A x, y \in Nat : y < x => <<y, x>> \in R
  OBVIOUS
<1> HIDE DEF R
<1>3. PICK x \in T : \A y \in T : ~(<<y, x>> \in R)
  BY <1>1, WFMin
<1>4. ASSUME NEW y \in T
      PROVE  x <= y
  <2>1. x \in Nat /\ y \in Nat
    OBVIOUS
  <2>2. ~(<<y, x>> \in R)
    BY <1>3
  <2>3. ~(y < x)
    BY <1>2, <2>1, <2>2
  <2> QED
    BY <2>1, <2>3
<1> QED
  BY <1>4

(* And a set of numbers up to n a largest one.                             *)
LEMMA Largest ==
  ASSUME NEW n \in Nat, NEW T \in SUBSET (0..n), T # {}
  PROVE  \E x \in T : \A y \in T : y <= x
<1> DEFINE U == {k \in 0..n : n - k \in T}
<1>1. U \in SUBSET Nat
  OBVIOUS
<1>2. U # {}
  <2>1. PICK x \in T : TRUE
    OBVIOUS
  <2>2. x \in 0..n /\ n - x \in 0..n /\ n - (n - x) = x
    OBVIOUS
  <2>3. n - x \in U
    BY <2>1, <2>2
  <2> QED
    BY <2>3
<1>3. PICK k \in U : \A j \in U : k <= j
  <2> HIDE DEF U
  <2> QED
    BY <1>1, <1>2, Smallest
<1>4. n - k \in T /\ k \in 0..n
  OBVIOUS
<1>5. ASSUME NEW y \in T
      PROVE  y <= n - k
  <2>1. y \in 0..n /\ n - y \in 0..n /\ n - (n - y) = y
    OBVIOUS
  <2>2. n - y \in U
    BY <2>1
  <2>3. k <= n - y
    BY <1>3, <2>2
  <2> QED
    BY <1>4, <2>1, <2>3
<1> QED
  BY <1>4, <1>5

(* The numbers up to n are in a set that has 0 and with each its successor.*)
LEMMA Induction ==
  ASSUME NEW n \in Nat, NEW T, 0 \in T,
         \A k \in 0..(n - 1) : k \in T => k + 1 \in T
  PROVE  \A k \in 0..n : k \in T
<1> DEFINE U == (0..n) \ T
<1> SUFFICES ASSUME U # {}
             PROVE  FALSE
  OBVIOUS
<1>1. U \in SUBSET Nat
  OBVIOUS
<1>2. PICK x \in U : \A y \in U : x <= y
  <2> HIDE DEF U
  <2> QED
    BY <1>1, Smallest
<1>3. x \in 1..n /\ x - 1 \in 0..(n - 1) /\ x \notin T
  <2>1. x \in 0..n /\ x \notin T /\ x # 0
    OBVIOUS
  <2> QED
    BY <2>1
<1>4. x - 1 \in T
  <2>1. x - 1 \in 0..n /\ ~(x <= x - 1)
    BY <1>3
  <2> QED
    BY <1>2, <2>1
<1>5. x - 1 + 1 \in T
  BY <1>3, <1>4
<1>6. x - 1 + 1 = x
  BY <1>3
<1> QED
  BY <1>3, <1>5, <1>6

(* What every step keeps in T is in T at the end.                          *)
LEMMA StepsKeep ==
  ASSUME NEW n \in Nat, NEW T, NEW f, f[0] \in T,
         \A i \in 1..n : f[i - 1] \in T => f[i] \in T
  PROVE  \A i \in 0..n : f[i] \in T
<1> DEFINE U == {i \in 0..n : f[i] \in T}
<1>1. 0 \in U
  OBVIOUS
<1>2. ASSUME NEW k \in 0..(n - 1), k \in U
      PROVE  k + 1 \in U
  <2>1. k + 1 \in 1..n /\ k + 1 - 1 = k /\ k + 1 \in 0..n
    OBVIOUS
  <2>2. f[k + 1 - 1] \in T => f[k + 1] \in T
    BY <2>1
  <2> QED
    BY <1>2, <2>1, <2>2
<1>3. \A k \in 0..n : k \in U
  <2> HIDE DEF U
  <2> QED
    BY <1>1, <1>2, Induction
<1> QED
  BY <1>3

(* From c, with a step for each number up to n, there is a function.       *)
FollowsSteps(f, n, S, c, step) ==
  f \in [0..n -> S] /\ f[0] = c /\ \A i \in 1..n : f[i] = step[i][f[i - 1]]

LEMMA FunctionOfSteps ==
  ASSUME NEW n \in Nat, NEW S, NEW c \in S, NEW step \in [1..n -> [S -> S]]
  PROVE  \E f : FollowsSteps(f, n, S, c, step)
<1> DEFINE Upto(k) == {f \in [0..k -> S] :
                         f[0] = c /\ \A i \in 1..k : f[i] = step[i][f[i - 1]]}
           T == {k \in 0..n : Upto(k) # {}}
<1>1. 0 \in T
  <2>1. [i \in 0..0 |-> c] \in Upto(0)
    OBVIOUS
  <2> QED
    BY <2>1
<1>2. ASSUME NEW k \in 0..(n - 1), k \in T
      PROVE  k + 1 \in T
  <2>1. PICK f \in Upto(k) : TRUE
    BY <1>2
  <2>2. /\ f \in [0..k -> S] /\ f[0] = c
        /\ \A i \in 1..k : f[i] = step[i][f[i - 1]]
    BY <2>1
  <2> DEFINE g == [i \in 0..(k + 1) |-> IF i = k + 1 THEN step[k + 1][f[k]] ELSE f[i]]
  <2>3. k + 1 \in 1..n /\ k \in 0..k /\ 0 \in 0..k
    OBVIOUS
  <2>4. step[k + 1][f[k]] \in S
    <3>1. step[k + 1] \in [S -> S] /\ f[k] \in S
      BY <2>2, <2>3
    <3> QED
      BY <3>1
  <2>5. g \in [0..(k + 1) -> S]
    <3>1. ASSUME NEW i \in 0..(k + 1)
          PROVE  (IF i = k + 1 THEN step[k + 1][f[k]] ELSE f[i]) \in S
      <4>1. i = k + 1 \/ i \in 0..k
        OBVIOUS
      <4> QED
        BY <2>2, <2>4, <4>1
    <3> QED
      BY <3>1
  <2>6. \A i \in 0..k : g[i] = f[i]
    OBVIOUS
  <2>7. g[k + 1] = step[k + 1][f[k]]
    OBVIOUS
  <2> HIDE DEF g
  <2>8. ASSUME NEW i \in 1..(k + 1)
        PROVE  g[i] = step[i][g[i - 1]]
    <3>1. CASE i = k + 1
      <4>1. i - 1 = k /\ g[k] = f[k]
        BY <2>3, <2>6, <3>1
      <4> QED
        BY <2>7, <3>1, <4>1
    <3>2. CASE i # k + 1
      <4>1. i \in 1..k /\ i \in 0..k /\ i - 1 \in 0..k
        BY <3>2
      <4> QED
        BY <2>2, <2>6, <4>1
    <3> QED
      BY <3>1, <3>2
  <2>9. g[0] = c
    BY <2>2, <2>3, <2>6
  <2>10. g \in Upto(k + 1)
    BY <2>5, <2>8, <2>9
  <2> QED
    BY <2>3, <2>10
<1>3. \A k \in 0..n : k \in T
  <2> HIDE DEF T
  <2> QED
    BY <1>1, <1>2, Induction
<1>4. n \in T
  <2>1. n \in 0..n
    OBVIOUS
  <2> QED
    BY <1>3, <2>1
<1> QED
  BY <1>4 DEF FollowsSteps
=============================================================================
