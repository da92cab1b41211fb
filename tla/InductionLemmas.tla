-------------------------- MODULE InductionLemmas --------------------------
(***************************************************************************)
(* Facts about natural numbers that the proofs of the components share:    *)
(* the least-number principle and induction stated with sets, the extremes *)
(* of bounded sets, and the existence of functions defined by iteration.   *)
(***************************************************************************)
EXTENDS Integers, FiniteSets, FiniteSetsExt, WellFoundedInduction, TLAPS

\* A non-empty set of naturals has a least member.
LEMMA LeastNat ==
    ASSUME NEW T, T \subseteq Nat, T # {}
    PROVE  \E x \in T : \A y \in T : x <= y
<1>1. PICK x \in T : \A y \in T : ~(<<y, x>> \in OpToRel(<, Nat))
  BY WFMin, NatLessThanWellFounded
<1>2. \A y \in T : x <= y
  <2> TAKE y \in T
  <2>1. x \in Nat /\ y \in Nat
    OBVIOUS
  <2>2. ~(<<y, x>> \in OpToRel(<, Nat))
    BY <1>1
  <2>3. ~(y < x)
    BY <2>1, <2>2 DEF OpToRel
  <2> QED BY <2>1, <2>3
<1> QED
  BY <1>2

\* Induction: a set that holds 0 and is closed under successor holds Nat.
LEMMA NatInductionSet ==
    ASSUME NEW T, 0 \in T, \A n \in Nat : n \in T => n + 1 \in T
    PROVE  \A n \in Nat : n \in T
<1> SUFFICES ASSUME Nat \ T # {} PROVE FALSE
  OBVIOUS
<1>1. PICK x \in Nat \ T : \A y \in Nat \ T : x <= y
  BY LeastNat
<1>2. x # 0
  OBVIOUS
<1>3. x - 1 \in Nat /\ x - 1 \in T
  BY <1>1, <1>2
<1> QED
  BY <1>3

\* A non-empty bounded set of naturals has a greatest member ...
LEMMA GreatestNat ==
    ASSUME NEW T, T \subseteq Nat, T # {}, NEW b \in Nat, \A x \in T : x <= b
    PROVE  \E x \in T : \A y \in T : y <= x
<1> DEFINE D == {b - x : x \in T}
<1>1. D \subseteq Nat /\ D # {}
  <2>1. ASSUME NEW x \in T PROVE b - x \in Nat
    OBVIOUS
  <2> QED BY <2>1
<1>2. PICK d \in D : \A e \in D : d <= e
  <2> HIDE DEF D
  <2> QED BY <1>1, LeastNat
<1>3. PICK x \in T : d = b - x
  OBVIOUS
<1>4. ASSUME NEW y \in T PROVE y <= x
  <2>1. b - x <= b - y
    BY <1>2, <1>3
  <2>2. x \in Nat /\ y \in Nat
    OBVIOUS
  <2> HIDE DEF D
  <2> QED BY <2>1, <2>2
<1> QED
  BY <1>4

\* ... which is the one Max denotes.
LEMMA MaxOfBounded ==
    ASSUME NEW T, T \subseteq Nat, T # {}, NEW b \in Nat, \A x \in T : x <= b
    PROVE  Max(T) \in T /\ \A y \in T : y <= Max(T)
<1>1. PICK m \in T : \A y \in T : y <= m
  BY GreatestNat
<1>2. \A y \in T : m >= y
  BY <1>1
<1> QED
  BY <1>2 DEF Max

\* Min denotes the least member.
LEMMA MinOfNats ==
    ASSUME NEW T, T \subseteq Nat, T # {}
    PROVE  Min(T) \in T /\ \A y \in T : Min(T) <= y
<1>1. PICK m \in T : \A y \in T : m <= y
  BY LeastNat
<1> QED
  BY <1>1 DEF Min

\* h iterates the steps F from x0, n times, without leaving S.
Iterates(h, S, x0, n, F) ==
    /\ h \in [0..n -> S]
    /\ h[0] = x0
    /\ \A i \in 1..n : i - 1 \in 0..n /\ h[i - 1] \in S /\ h[i] = F[i][h[i - 1]]

\* Iterating given steps from a start: the function exists, ...
LEMMA IterationExists ==
    ASSUME NEW S, NEW x0 \in S, NEW n \in Nat, NEW F, F \in [1..n -> [S -> S]]
    PROVE  \E h : Iterates(h, S, x0, n, F)
<1> DEFINE Upto(m, h) == h[0] = x0 /\ \A i \in 1..m : h[i] = F[i][h[i - 1]]
           T == {m \in Nat : m <= n => \E h \in [0..m -> S] : Upto(m, h)}
<1>1. 0 \in T
  <2>1. Upto(0, [i \in 0..0 |-> x0])
    OBVIOUS
  <2> QED BY <2>1
<1>2. ASSUME NEW m \in Nat, m \in T PROVE m + 1 \in T
  <2> SUFFICES ASSUME m + 1 <= n PROVE \E h \in [0..(m + 1) -> S] : Upto(m + 1, h)
    OBVIOUS
  <2>1. PICK h \in [0..m -> S] : Upto(m, h)
    BY <1>2
  <2> DEFINE k == [i \in 0..(m + 1) |-> IF i <= m THEN h[i] ELSE F[m + 1][h[m]]]
  <2>2. m + 1 \in 1..n /\ m \in 0..m
    OBVIOUS
  <2>3. F[m + 1][h[m]] \in S
    BY <2>2
  <2>4. k \in [0..(m + 1) -> S]
    BY <2>3
  <2>5. ASSUME NEW i \in 1..(m + 1) PROVE k[i] = F[i][k[i - 1]]
    BY <2>1, <2>2
  <2>6. k[0] = x0
    BY <2>1
  <2>7. Upto(m + 1, k)
    BY <2>5, <2>6
  <2> QED BY <2>4, <2>7
<1>3. n \in T
  <2> HIDE DEF T
  <2> QED BY <1>1, <1>2, NatInductionSet
<1>4. PICK h \in [0..n -> S] : Upto(n, h)
  BY <1>3
<1>5. \A i \in 1..n : i - 1 \in 0..n /\ h[i - 1] \in S
  OBVIOUS
<1>6. Iterates(h, S, x0, n, F)
  BY <1>4, <1>5 DEF Iterates
<1> QED BY <1>6

\* ... and is determined by them, as far as two such iterations agree.
AgreeOnSteps(g, h, n) ==
    g[0] = h[0] /\ \A i \in 1..n : g[i - 1] = h[i - 1] => g[i] = h[i]

\* Two iterations that agree on each step are the same.
LEMMA IterationUnique ==
    ASSUME NEW n \in Nat, NEW g, NEW h, AgreeOnSteps(g, h, n)
    PROVE  \A i \in 0..n : g[i] = h[i]
<1> USE DEF AgreeOnSteps
<1> DEFINE T == {i \in Nat : i <= n => g[i] = h[i]}
<1>1. 0 \in T
  OBVIOUS
<1>2. ASSUME NEW i \in Nat, i \in T PROVE i + 1 \in T
  <2>1. CASE i + 1 <= n
    <3>1. i + 1 \in 1..n /\ (i + 1) - 1 = i /\ g[i] = h[i]
      BY <1>2, <2>1
    <3> QED BY <3>1
  <2>2. CASE ~(i + 1 <= n)
    BY <2>2
  <2> QED BY <2>1, <2>2
<1>3. \A i \in Nat : i \in T
  <2> HIDE DEF T
  <2> QED BY <1>1, <1>2, NatInductionSet
<1> QED BY <1>3
=============================================================================
