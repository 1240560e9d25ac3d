--------------------------- MODULE RecursionLemmas ---------------------------
(***************************************************************************)
(* What a function that is defined by recursion up to a bound yields is    *)
(* proved without induction over a predicate: were a fact to fail of a     *)
(* number, it would fail of a least one, by the well-foundedness of the    *)
(* naturals.  So a set that has 0 and with every number the next has all   *)
(* of them (UpTo), and the values each of which is computed from the one   *)
(* before exist (ComputedUpTo).                                            *)
(***************************************************************************)
EXTENDS Integers, NaturalsInduction, WellFoundedInduction, TLAPS

\* Some natural number of a set is the least one.
LEMMA LeastNatural ==
    ASSUME NEW T \in SUBSET Nat, T # {}
    PROVE  \E n \in T : \A m \in T : n <= m
<1>1. PICK n \in T : \A m \in T : ~ (<<m, n>> \in OpToRel(<, Nat))
  BY NatLessThanWellFounded, WFMin, Zenon
<1>2. \A m \in T : ~(m < n)
  BY <1>1 DEF OpToRel
<1> QED BY <1>2

\* What holds at nought, and of a number when it holds of the one before, holds up to any bound.
LEMMA UpTo ==
    ASSUME NEW N \in Nat, NEW S, 0 \in S, \A i \in 1..N : i - 1 \in S => i \in S
    PROVE  0..N \subseteq S
<1> SUFFICES ASSUME (0..N) \ S # {}
             PROVE  FALSE
  OBVIOUS
<1>1. (0..N) \ S \in SUBSET Nat
  OBVIOUS
<1>2. PICK n \in (0..N) \ S : \A m \in (0..N) \ S : n <= m
  BY <1>1, LeastNatural
<1>3. n \in 1..N /\ n - 1 \in 0..N
  BY <1>2
<1>4. n - 1 \in S
  BY <1>2, <1>3
<1> QED
  BY <1>2, <1>3, <1>4

\* next leads from X to X, at each of N steps.
Leads(N, X, next) == \A i \in 1..N, x \in X : next[<<i, x>>] \in X

\* f is the values of X computed in N steps from a.
Computes(N, X, a, next, f) ==
    f \in [0..N -> X] /\ f[0] = a /\ \A i \in 1..N : f[i] = next[<<i, f[i - 1]>>]

\* Values, each computed from the one before, exist.
LEMMA ComputedUpTo ==
    ASSUME NEW N \in Nat, NEW X, NEW a \in X, NEW next, Leads(N, X, next)
    PROVE  \E f : Computes(N, X, a, next, f)
<1> DEFINE Is(n, f) == f[0] = a /\ \A i \in 1..n : f[i] = next[<<i, f[i - 1]>>]
           S == {n \in 0..N : \E f \in [0..n -> X] : Is(n, f)}
<1>1. 0 \in S
  <2> DEFINE f == [i \in 0..0 |-> a]
  <2>1. f \in [0..0 -> X] /\ Is(0, f)
    OBVIOUS
  <2> HIDE DEF f
  <2> QED
    BY <2>1, 0 \in 0..N
<1>2. ASSUME NEW n \in 1..N, n - 1 \in S
      PROVE  n \in S
  <2>1. PICK f \in [0..(n - 1) -> X] : Is(n - 1, f)
    BY <1>2
  <2>2. f[n - 1] \in X /\ next[<<n, f[n - 1]>>] \in X
    BY <2>1 DEF Leads
  <2> DEFINE g == [i \in 0..n |-> IF i = n THEN next[<<n, f[n - 1]>>] ELSE f[i]]
  <2>3. g \in [0..n -> X]
    BY <2>2
  <2>4. \A i \in 0..(n - 1) : g[i] = f[i]
    OBVIOUS
  <2>5. g[n] = next[<<n, f[n - 1]>>]
    OBVIOUS
  <2> HIDE DEF g
  <2>6. Is(n, g)
    <3>1. g[0] = a
      BY <2>1, <2>4
    <3>2. ASSUME NEW i \in 1..n PROVE g[i] = next[<<i, g[i - 1]>>]
      <4>1. CASE i = n
        BY <4>1, <2>4, <2>5, n - 1 \in 0..(n - 1)
      <4>2. CASE i # n
        <5>1. i \in 1..(n - 1) /\ i \in 0..(n - 1) /\ i - 1 \in 0..(n - 1)
          BY <4>2
        <5> QED
          BY <5>1, <2>1, <2>4
      <4> QED
        BY <4>1, <4>2
    <3> QED
      BY <3>1, <3>2
  <2> QED
    BY <2>3, <2>6
<1>3. N \in S
  <2> HIDE DEF S
  <2> QED
    BY <1>1, <1>2, UpTo
<1> QED
  BY <1>3 DEF Computes
==============================================================================
