-------------------------- MODULE RecursionLemmas --------------------------
(***************************************************************************)
(* Facts about natural numbers and recursive functions on 0..n that the    *)
(* proofs about the suppression map and the topology page rest on.  The    *)
(* induction principle is stated with a set, so that the provers can use   *)
(* it.                                                                     *)
(***************************************************************************)
EXTENDS Naturals, WellFoundedInduction, TLAPS

LEMMA LeastNatural ==
    ASSUME NEW T, T \subseteq Nat, T # {}
    PROVE  \E x \in T : \A y \in T : x <= y
<1> DEFINE R == OpToRel(<, Nat)
<1>1. IsWellFoundedOn(R, Nat)
  BY NatLessThanWellFounded
<1>2. PICK x \in T : \A y \in T : ~ (<<y, x>> \in R)
  <2> HIDE DEF R
  <2> QED BY <1>1, WFMin
<1>3. \A y \in T : ~ (y < x)
  BY <1>2 DEF OpToRel
<1> QED BY <1>3

LEMMA GreatestNatural ==
    ASSUME NEW T, T \subseteq Nat, T # {}, NEW b \in Nat, \A x \in T : x <= b
    PROVE  \E x \in T : \A y \in T : y <= x
<1> DEFINE U == {u \in 0..b : b - u \in T}
<1>1. \A x \in T : x \in Nat /\ b - x \in 0..b /\ b - (b - x) = x
  OBVIOUS
<1>2. U \subseteq Nat /\ U # {}
  <2>1. PICK x : x \in T
    OBVIOUS
  <2>2. b - x \in U
    BY <1>1, <2>1
  <2> QED BY <2>2
<1>3. PICK u \in U : \A y \in U : u <= y
  <2> HIDE DEF U
  <2> QED BY <1>2, LeastNatural
<1>4. ASSUME NEW y \in T PROVE y <= b - u
  <2>1. y \in Nat /\ b - y \in U
    BY <1>1
  <2> QED BY <2>1, <1>3
<1> QED BY <1>3, <1>4

LEMMA IntervalInduction ==
    ASSUME NEW n \in Nat, NEW T, 0 \in T, \A i \in 1..n : i - 1 \in T => i \in T
    PROVE  \A i \in 0..n : i \in T
<1> DEFINE Bad == (0..n) \ T
<1> SUFFICES ASSUME Bad # {} PROVE FALSE
  OBVIOUS
<1>1. Bad \subseteq Nat
  OBVIOUS
<1>2. PICK x \in Bad : \A y \in Bad : x <= y
  <2> HIDE DEF Bad
  <2> QED BY <1>1, LeastNatural
<1>3. x \in 1..n /\ x - 1 \in 0..n
  OBVIOUS
<1>4. x - 1 \in T
  BY <1>2, <1>3
<1> QED BY <1>3, <1>4

(* A function may be defined on 0..n by its first value and a step.        *)
LEMMA RecursionExists ==
    ASSUME NEW S, NEW c \in S, NEW n \in Nat, NEW h \in [1..n -> [S -> S]]
    PROVE  \E g \in [0..n -> S] : g[0] = c /\ \A i \in 1..n : g[i] = h[i][g[i - 1]]
<1> DEFINE UpTo(k) == {g \in [0..k -> S] :
                         g[0] = c /\ \A i \in 1..k : g[i] = h[i][g[i - 1]]}
           T == {k \in 0..n : UpTo(k) # {}}
<1>1. 0 \in T
  <2>1. [i \in 0..0 |-> c] \in UpTo(0)
    OBVIOUS
  <2>2. UpTo(0) # {}
    <3> HIDE DEF UpTo
    <3> QED BY <2>1
  <2> QED BY <2>2
<1>2. ASSUME NEW k \in 1..n, k - 1 \in T PROVE k \in T
  <2>1. /\ k \in Nat \ {0} /\ k \in 0..n /\ 0 \in 0..(k - 1) /\ k - 1 \in 0..(k - 1)
        /\ \A i \in 1..k : i # k => i \in 1..(k - 1)
        /\ \A i \in 1..(k - 1) : i \in 0..(k - 1) /\ i - 1 \in 0..(k - 1)
    OBVIOUS
  <2>2. PICK g : g \in UpTo(k - 1)
    <3> HIDE DEF UpTo
    <3> QED BY <1>2
  <2>3. /\ g \in [0..(k - 1) -> S] /\ g[0] = c
        /\ \A i \in 1..(k - 1) : g[i] = h[i][g[i - 1]]
    BY <2>2
  <2> HIDE DEF UpTo, T
  <2>4. h[k][g[k - 1]] \in S
    BY <2>1, <2>3
  <2>5. PICK f \in [0..k -> S] :
            f[k] = h[k][g[k - 1]] /\ \A i \in 0..(k - 1) : f[i] = g[i]
    <3> DEFINE A == 0..(k - 1)
               next == h[k][g[k - 1]]
               f == [i \in A \cup {k} |-> IF i = k THEN next ELSE g[i]]
    <3>1. next \in S /\ g \in [A -> S]
      BY <2>3, <2>4
    <3>2. k \notin A /\ A \cup {k} = 0..k
      OBVIOUS
    <3>3. f \in [A \cup {k} -> S] /\ f[k] = next /\ \A i \in A : f[i] = g[i]
      <4> HIDE DEF A, next
      <4> QED BY <3>1, <3>2
    <3> HIDE DEF f
    <3> QED BY <3>2, <3>3
  <2>6. \A i \in 1..k : f[i] = h[i][f[i - 1]]
    BY <2>1, <2>3, <2>5
  <2>7. f[0] = c
    BY <2>1, <2>3, <2>5
  <2>8. f \in UpTo(k)
    BY <2>6, <2>7 DEF UpTo
  <2> QED BY <2>1, <2>8 DEF T
<1>3. \A i \in 0..n : i \in T
  <2> HIDE DEF T
  <2> QED BY <1>1, <1>2, IntervalInduction
<1>4. UpTo(n) # {}
  <2> HIDE DEF UpTo
  <2> QED BY <1>3
<1> QED BY <1>4
=============================================================================
