-------------------------------- MODULE Induction --------------------------------
(***************************************************************************)
(* Induction over the natural numbers and definition by recursion, stated  *)
(* with sets and functions where the library has operators.                *)
(***************************************************************************)
EXTENDS Integers, WellFoundedInduction, TLAPS

\* A set of natural numbers has a least element.
LEMMA LeastNumber ==
  ASSUME NEW T, T \subseteq Nat, T # {}
  PROVE  \E m \in T : \A n \in T : m <= n
PROOF
  <1> DEFINE R == OpToRel(<, Nat)
  <1>1. IsWellFoundedOn(R, Nat)
    BY NatLessThanWellFounded
  <1>2. \A m, n \in Nat : m < n => <<m, n>> \in R
    BY DEF OpToRel
  <1> HIDE DEF R
  <1>3. PICK m \in T : \A n \in T : <<n, m>> \notin R
    BY <1>1, WFMin
  <1>4. \A n \in T : ~(n < m)
    BY <1>2, <1>3
  <1> QED BY <1>4

\* A set that has 0, and the successor of each number that it has, has them all.
LEMMA AllNumbers ==
  ASSUME NEW S, 0 \in S, \A n \in Nat : n \in S => n + 1 \in S
  PROVE  \A n \in Nat : n \in S
PROOF
  <1> SUFFICES ASSUME Nat \ S # {} PROVE FALSE
    OBVIOUS
  <1>1. PICK m \in Nat \ S : \A n \in Nat \ S : m <= n
    BY LeastNumber
  <1>2. m # 0 /\ m - 1 \in Nat
    BY <1>1
  <1>3. m - 1 \in S
    BY <1>1, <1>2
  <1> QED BY <1>1, <1>2, <1>3

-----------------------------------------------------------------------------

\* The law of f[0] = base, f[n + 1] = next[f[n]], up to m.
Recurs(f, base, next, m) == f[0] = base /\ \A n \in Nat : n < m => f[n + 1] = next[f[n]]

LEMMA RecursUpTo ==
  ASSUME NEW S, NEW base \in S, NEW next \in [S -> S], NEW m \in Nat
  PROVE  \E f \in [Nat -> S] : Recurs(f, base, next, m)
PROOF
  <1> DEFINE Found == {n \in Nat : \E f \in [Nat -> S] : Recurs(f, base, next, n)}
  <1>1. 0 \in Found
    <2>1. [n \in Nat |-> base] \in [Nat -> S]
      OBVIOUS
    <2>2. Recurs([n \in Nat |-> base], base, next, 0)
      BY DEF Recurs
    <2> QED BY <2>1, <2>2
  <1>2. ASSUME NEW n \in Nat, n \in Found PROVE n + 1 \in Found
    <2>1. PICK f \in [Nat -> S] : Recurs(f, base, next, n)
      BY <1>2
    <2> DEFINE g == [f EXCEPT ![n + 1] = next[f[n]]]
    <2>2. f[n] \in S /\ next[f[n]] \in S
      OBVIOUS
    <2>3. g \in [Nat -> S]
      BY <2>2
    <2>4. Recurs(g, base, next, n + 1)
      BY <2>1 DEF Recurs
    <2> HIDE DEF g
    <2> QED BY <2>3, <2>4
  <1> HIDE DEF Found
  <1>3. m \in Found
    BY <1>1, <1>2, AllNumbers
  <1> QED BY <1>3 DEF Found

LEMMA RecursAlike ==
  ASSUME NEW f, NEW g, NEW base, NEW next, NEW m \in Nat, NEW k \in Nat, m <= k,
         Recurs(f, base, next, m), Recurs(g, base, next, k)
  PROVE  \A n \in Nat : n <= m => f[n] = g[n]
PROOF
  <1> DEFINE Same == {n \in Nat : n <= m => f[n] = g[n]}
  <1>1. 0 \in Same
    BY DEF Recurs
  <1>2. ASSUME NEW n \in Nat, n \in Same PROVE n + 1 \in Same
    <2> SUFFICES ASSUME n + 1 <= m PROVE f[n + 1] = g[n + 1]
      OBVIOUS
    <2>1. f[n] = g[n] /\ n < m /\ n < k
      BY <1>2
    <2>2. f[n + 1] = next[f[n]]
      BY <2>1 DEF Recurs
    <2>3. g[n + 1] = next[g[n]]
      BY <2>1 DEF Recurs
    <2> QED BY <2>1, <2>2, <2>3
  <1> HIDE DEF Same
  <1>3. \A n \in Nat : n \in Same
    BY <1>1, <1>2, AllNumbers
  <1> QED BY <1>3 DEF Same

\* There is a function that follows the law on all natural numbers.
LEMMA RecursiveFunction ==
  ASSUME NEW S, NEW base \in S, NEW next \in [S -> S]
  PROVE  \E f \in [Nat -> S] : f[0] = base /\ \A n \in Nat : f[n + 1] = next[f[n]]
PROOF
  <1> DEFINE The(m) == CHOOSE f \in [Nat -> S] : Recurs(f, base, next, m)
             f == [n \in Nat |-> The(n)[n]]
  <1>1. \A m \in Nat : The(m) \in [Nat -> S] /\ Recurs(The(m), base, next, m)
    BY RecursUpTo
  <1> HIDE DEF The
  <1>2. f \in [Nat -> S]
    BY <1>1
  <1>3. f[0] = base
    BY <1>1 DEF Recurs
  <1>4. ASSUME NEW n \in Nat PROVE f[n + 1] = next[f[n]]
    <2>1. n + 1 \in Nat /\ n < n + 1 /\ n <= n + 1
      OBVIOUS
    <2>2. The(n + 1)[n + 1] = next[The(n + 1)[n]]
      BY <1>1, <2>1 DEF Recurs
    <2>3. Recurs(The(n), base, next, n) /\ Recurs(The(n + 1), base, next, n + 1)
      BY <1>1, <2>1
    <2> HIDE DEF f
    <2>4. The(n)[n] = The(n + 1)[n]
      BY <2>1, <2>3, RecursAlike
    <2>5. f[n] = The(n)[n] /\ f[n + 1] = The(n + 1)[n + 1]
      BY <2>1 DEF f
    <2> QED BY <2>2, <2>4, <2>5
  <1> HIDE DEF f
  <1> QED BY <1>2, <1>3, <1>4
=============================================================================
