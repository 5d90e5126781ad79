-------------------------- MODULE BoundedInduction --------------------------
(***************************************************************************)
(* Induction up to a bound, stated with a set in place of a predicate: the *)
(* library's induction theorems take an operator as a parameter.  What it  *)
(* is for are recursive functions, which the provers know only as          *)
(* CHOOSE f : f = ....                                                     *)
(***************************************************************************)
EXTENDS Integers, TLAPS, WellFoundedInduction

\* A nonempty set of naturals has a least element.
LEMMA LeastElement ==
  ASSUME NEW T, T \subseteq Nat, T # {}
  PROVE  \E n \in T : \A m \in T : n <= m
<1> DEFINE R == {p \in Nat \X Nat : p[1] < p[2]}
<1>1. IsWellFoundedOn(R, Nat)
  BY NatLessThanWellFounded DEF OpToRel
<1>2. PICK n \in T : \A m \in T : <<m, n>> \notin R
  <2> HIDE DEF R
  <2> QED BY <1>1, WFMin
<1>3. ASSUME NEW m \in T PROVE n <= m
  <2>1. m \in Nat /\ n \in Nat /\ <<m, n>> \in Nat \X Nat
    OBVIOUS
  <2>2. ~(m < n)
    BY <1>2, <2>1, Zenon
  <2> QED BY <2>1, <2>2
<1> QED BY <1>3

\* Induction up to a bound, for a set in place of a predicate.
LEMMA UpTo ==
  ASSUME NEW N \in Nat, NEW T, 0 \in T,
         \A k \in 1..N : k - 1 \in T => k \in T
  PROVE  \A k \in 0..N : k \in T
<1> DEFINE Bad == {k \in 0..N : k \notin T}
<1>1. SUFFICES ASSUME Bad # {} PROVE FALSE
  OBVIOUS
<1>2. PICK n \in Bad : \A m \in Bad : n <= m
  <2>1. Bad \subseteq Nat
    OBVIOUS
  <2> HIDE DEF Bad
  <2> QED BY <1>1, <2>1, LeastElement
<1>3. n \in 1..N /\ n - 1 \in 0..N
  BY <1>2
<1>4. n - 1 \notin Bad
  BY <1>2, <1>3
<1> QED BY <1>2, <1>3, <1>4

\* What turns value k - 1 of a recursive function on 0..N into value k.
Steps(N, V) == [(1..N) \X V -> V]

\* Some function into V has c as its first value and goes on by step.
Iterates(V, N, c, step) ==
  \E h \in [0..N -> V] : h[0] = c /\ \A k \in 1..N : h[k] = step[<<k, h[k - 1]>>]

\* A function into V given by its first value and a step exists on 0..N.
LEMMA Iteration ==
  ASSUME NEW V, NEW N \in Nat, NEW c \in V, NEW step \in Steps(N, V)
  PROVE  Iterates(V, N, c, step)
<1> USE DEF Steps
<1> DEFINE Solves(h, n) == h[0] = c /\ \A k \in 1..n : h[k] = step[<<k, h[k - 1]>>]
           T == {n \in 0..N : \E h \in [0..n -> V] : Solves(h, n)}
<1>1. 0 \in T
  <2> DEFINE g == [k \in 0..0 |-> c]
  <2>1. g \in [0..0 -> V] /\ Solves(g, 0)
    OBVIOUS
  <2> HIDE DEF g, Solves
  <2> QED BY <2>1
<1>2. ASSUME NEW n \in 1..N, n - 1 \in T PROVE n \in T
  <2>1. PICK h \in [0..(n - 1) -> V] : Solves(h, n - 1)
    BY <1>2
  <2> DEFINE g == [k \in 0..n |-> IF k = n THEN step[<<n, h[n - 1]>>] ELSE h[k]]
  <2>2. n - 1 \in 0..(n - 1) /\ h[n - 1] \in V
    OBVIOUS
  <2>. step[<<n, h[n - 1]>>] \in V
    <3>1. <<n, h[n - 1]>> \in (1..N) \X V
      BY <2>2
    <3> QED BY <3>1
  <2>3. g \in [0..n -> V]
    BY <2>2
  <2>4. g[0] = c
    BY <2>1
  <2>5. ASSUME NEW k \in 1..n PROVE g[k] = step[<<k, g[k - 1]>>]
    <3>1. CASE k = n
      <4>1. k - 1 \in 0..n /\ k - 1 # n /\ g[k - 1] = h[n - 1]
        BY <3>1
      <4> QED BY <3>1, <4>1
    <3>2. CASE k # n
      <4>1. k \in 1..(n - 1) /\ k - 1 \in 0..(n - 1) /\ k - 1 # n
        BY <3>2
      <4>2. g[k] = h[k] /\ g[k - 1] = h[k - 1]
        BY <3>2, <4>1
      <4> QED BY <2>1, <4>1, <4>2
    <3> QED BY <3>1, <3>2
  <2> HIDE DEF g
  <2>6. Solves(g, n)
    BY <2>4, <2>5
  <2> HIDE DEF Solves
  <2> QED BY <2>3, <2>6
<1> HIDE DEF T
<1>3. N \in T
  BY <1>1, <1>2, UpTo
<1>4. PICK h \in [0..N -> V] : Solves(h, N)
  BY <1>3 DEF T
<1> QED BY <1>4, Zenon DEF Iterates

LEMMA RecursionExists ==
  ASSUME NEW V, NEW N \in Nat, NEW c \in V, NEW step \in Steps(N, V)
  PROVE  \E h \in [0..N -> V] :
           h[0] = c /\ \A k \in 1..N : h[k] = step[<<k, h[k - 1]>>]
<1>1. Iterates(V, N, c, step)
  BY Iteration, Zenon
<1> QED BY <1>1, Zenon DEF Iterates
=============================================================================
