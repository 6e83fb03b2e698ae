---------------------------- MODULE NatRecursion -----------------------------
(***************************************************************************)
(* Induction and recursion up to a number, stated about sets and functions *)
(* only.  The library's induction theorems take a predicate as a parameter *)
(* and no installed prover can instantiate one; here the numbers that have *)
(* a property are a set, which is as good for every property that selects  *)
(* one.  The well-foundedness comes from the strict subset ordering of the *)
(* finite sets 0..n.                                                       *)
(***************************************************************************)
EXTENDS Integers, FiniteSetTheorems, TLAPS

\* Every set of natural numbers has a least element.
LEMMA LeastNat ==
  ASSUME NEW S \in SUBSET Nat, S # {}
  PROVE  \E m \in S : \A k \in S : m <= k
<1> DEFINE UpTo(n) == 0..n
           Intervals == {UpTo(n) : n \in S}
           Below == StrictSubsetOrdering(Nat)
<1>1. IsWellFoundedOn(Below, FiniteSubsetsOf(Nat))
  BY FS_StrictSubsetOrderingWellFounded
<1>2. Intervals \subseteq FiniteSubsetsOf(Nat)
  <2>1. SUFFICES ASSUME NEW n \in S PROVE UpTo(n) \in FiniteSubsetsOf(Nat)
    OBVIOUS
  <2>2. IsFiniteSet(0..n)
    BY FS_Interval
  <2>3. QED
    BY <2>2 DEF FiniteSubsetsOf
<1>3. \E x \in Intervals : \A y \in Intervals : ~ (<<y, x>> \in Below)
  <2>1. Intervals # {}
    OBVIOUS
  <2> HIDE DEF Intervals, Below
  <2>2. QED
    BY <1>1, <1>2, <2>1, WFMin
<1>4. PICK m \in S : \A k \in S : <<UpTo(k), UpTo(m)>> \notin Below
  BY <1>3
<1>5. ASSUME NEW k \in S, k < m PROVE FALSE
  <2>1. m \in UpTo(m) /\ m \notin UpTo(k)
    BY <1>5
  <2>2. UpTo(k) \subseteq UpTo(m) /\ UpTo(k) # UpTo(m)
    BY <1>5, <2>1
  <2>3. UpTo(k) \in SUBSET Nat /\ UpTo(m) \in SUBSET Nat
    OBVIOUS
  <2> HIDE DEF UpTo
  <2>4. <<UpTo(k), UpTo(m)>> \in Below
    BY <2>2, <2>3 DEF StrictSubsetOrdering
  <2>5. QED
    BY <1>4, <2>4
<1>6. QED
  BY <1>5

\* Induction from 0 to N.
LEMMA Induction ==
  ASSUME NEW N \in Nat, NEW S, 0 \in S, \A n \in 1..N : n - 1 \in S => n \in S
  PROVE  0..N \subseteq S
<1>1. SUFFICES ASSUME NEW n \in 0..N, n \notin S PROVE FALSE
  OBVIOUS
<1> DEFINE Missing == {k \in 0..N : k \notin S}
<1>2. PICK m \in Missing : \A k \in Missing : m <= k
  <2>1. Missing \in SUBSET Nat /\ Missing # {}
    BY <1>1
  <2> HIDE DEF Missing
  <2>2. QED
    BY <2>1, LeastNat
<1>3. m \in 1..N /\ m - 1 \in 0..N
  OBVIOUS
<1>4. m - 1 \in S
  BY <1>2, <1>3
<1>5. QED
  BY <1>3, <1>4

-----------------------------------------------------------------------------
Steps(N, A) == [1..N -> [A -> A]]

\* f begins with base and takes step[n] from f[n - 1] to f[n].
Follows(f, N, A, base, step) ==
  /\ f \in [0..N -> A]
  /\ f[0] = base
  /\ \A n \in 1..N : f[n] = step[n][f[n - 1]]

\* Recursion: such an f exists.
LEMMA Recursion ==
  ASSUME NEW N \in Nat, NEW A, NEW base \in A, NEW step \in Steps(N, A)
  PROVE  \E f : Follows(f, N, A, base, step)
<1> DEFINE Until(f, n) == f[0] = base /\ \A k \in 1..n : f[k] = step[k][f[k - 1]]
           S == {n \in 0..N : \E f \in [0..N -> A] : Until(f, n)}
<1>1. 0 \in S
  <2>1. [n \in 0..N |-> base] \in [0..N -> A] /\ Until([n \in 0..N |-> base], 0)
    OBVIOUS
  <2>2. \E f \in [0..N -> A] : Until(f, 0)
    <3> HIDE DEF Until
    <3>1. QED
      BY <2>1
  <2>3. QED
    BY <2>2
<1>2. ASSUME NEW n \in 1..N, n - 1 \in S PROVE n \in S
  <2>1. PICK f \in [0..N -> A] : Until(f, n - 1)
    BY <1>2
  <2> DEFINE g == [f EXCEPT ![n] = step[n][f[n - 1]]]
  <2>2. g \in [0..N -> A]
    BY DEF Steps
  <2>3. \A k \in 0..(n - 1) : g[k] = f[k]
    OBVIOUS
  <2>4. g[n] = step[n][f[n - 1]]
    OBVIOUS
  <2> HIDE DEF g
  <2>5. ASSUME NEW k \in 1..n PROVE g[k] = step[k][g[k - 1]]
    <3>1. CASE k = n
      BY <2>3, <2>4, <3>1
    <3>2. CASE k \in 1..(n - 1)
      BY <2>1, <2>3, <3>2
    <3>3. QED
      BY <3>1, <3>2
  <2>6. Until(g, n)
    BY <2>1, <2>3, <2>5
  <2>7. \E h \in [0..N -> A] : Until(h, n)
    <3> HIDE DEF Until
    <3>1. QED
      BY <2>2, <2>6
  <2>8. QED
    BY <2>7
<1>3. N \in S
  <2> HIDE DEF S
  <2>1. 0..N \subseteq S
    BY <1>1, <1>2, Induction
  <2>2. QED
    BY <2>1
<1>4. QED
  BY <1>3 DEF Follows
=============================================================================
