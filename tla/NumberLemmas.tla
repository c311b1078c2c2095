---------------------------- MODULE NumberLemmas ----------------------------
(***************************************************************************)
(* Lemmas about numbers that the proofs of several components rest on:     *)
(* induction, sums over finite sets and over intervals, the largest and    *)
(* the smallest of a set of numbers, division with remainder.              *)
(***************************************************************************)
EXTENDS Integers, FiniteSets, FiniteSetsExt, FiniteSetTheorems, WellFoundedInduction, TLAPS

-----------------------------------------------------------------------------
(* Induction.  It is stated with a set, which is how the provers can use   *)
(* it: a set with 0 and the successor of each of its elements leaves no    *)
(* least natural number out.                                               *)

LEMMA NatSetInduction ==
    ASSUME NEW G, 0 \in G, \A n \in Nat : n \in G => n + 1 \in G
    PROVE  Nat \subseteq G
<1> SUFFICES ASSUME Nat \ G # {} PROVE FALSE
  OBVIOUS
<1>1. PICK x \in Nat \ G : \A y \in Nat \ G : ~(<<y, x>> \in OpToRel(<, Nat))
  BY NatLessThanWellFounded, WFMin, Zenon
<1>2. \A y \in Nat \ G : ~(y < x)
  BY <1>1 DEF OpToRel
<1>3. x # 0 /\ x - 1 \in Nat
  OBVIOUS
<1>4. x - 1 \in G
  BY <1>2, <1>3
<1>5. QED
  BY <1>3, <1>4

\* A set with the empty set, and with each set that it has all of the next smaller sets
\* of, has every subset of a finite set.
LEMMA SubsetInduction ==
    ASSUME NEW S, IsFiniteSet(S), NEW G, {} \in G,
           \A s \in SUBSET S : (s # {} /\ \A x \in s : s \ {x} \in G) => s \in G
    PROVE  SUBSET S \subseteq G
<1> DEFINE Sized == {n \in Nat : \A s \in SUBSET S : Cardinality(s) = n => s \in G}
<1>1. ASSUME NEW s \in SUBSET S
      PROVE  IsFiniteSet(s) /\ Cardinality(s) \in Nat /\ (Cardinality(s) = 0 <=> s = {})
  BY FS_Subset, FS_CardinalityType, FS_EmptySet
<1>2. 0 \in Sized
  BY <1>1
<1>3. ASSUME NEW n \in Nat, n \in Sized
      PROVE  n + 1 \in Sized
  <2>1. ASSUME NEW s \in SUBSET S, Cardinality(s) = n + 1
        PROVE  s \in G
    <3>1. s # {}
      BY <1>1, <2>1
    <3>2. ASSUME NEW x \in s
          PROVE  s \ {x} \in G
      <4>1. Cardinality(s \ {x}) = n
        BY <1>1, <2>1, FS_RemoveElement
      <4> QED
        BY <1>3, <4>1
    <3> QED
      BY <3>1, <3>2
  <2> QED
    BY <2>1
<1>4. Nat \subseteq Sized
  <2> HIDE DEF Sized
  <2> QED
    BY <1>2, <1>3, NatSetInduction
<1> QED
  BY <1>1, <1>4

-----------------------------------------------------------------------------
(* Sums over a finite set.                                                 *)

\* The element that the fold behind SumFunctionOnSet takes out of a set.
First(s) == CHOOSE x \in s : TRUE

\* What that fold computes for each subset of S.
Computes(g, F, S) ==
    \A s \in SUBSET S : g[s] = IF s = {} THEN 0 ELSE F[First(s)] + g[s \ {First(s)}]

\* The recursive function behind a sum over a finite set exists.
LEMMA SumUnfolds ==
    ASSUME NEW S, IsFiniteSet(S), NEW F, \A x \in S : F[x] \in Int
    PROVE  \E g : SumFunctionOnSet(F, S) = g[S] /\ Computes(g, F, S)
<1> DEFINE Small(n) == {s \in SUBSET S : Cardinality(s) <= n}
<1> DEFINE Sums(g, D) == \A s \in D :
              g[s] = IF s = {} THEN 0 ELSE F[First(s)] + g[s \ {First(s)}]
<1> DEFINE Done == {n \in Nat : \E g \in [Small(n) -> Int] : Sums(g, Small(n))}
<1>1. ASSUME NEW s \in SUBSET S, s # {}
      PROVE  /\ First(s) \in s
             /\ IsFiniteSet(s) /\ Cardinality(s) \in Nat
             /\ Cardinality(s \ {First(s)}) = Cardinality(s) - 1
  <2>1. First(s) \in s
    BY <1>1 DEF First
  <2>2. IsFiniteSet(s)
    BY FS_Subset
  <2>3. QED
    BY <2>1, <2>2, FS_CardinalityType, FS_RemoveElement
<1>2. 0 \in Done
  <2> DEFINE g == [s \in Small(0) |-> 0]
  <2>1. ASSUME NEW s \in Small(0) PROVE s = {}
    <3>1. IsFiniteSet(s)
      BY FS_Subset
    <3>2. QED
      BY <3>1, FS_EmptySet, FS_CardinalityType
  <2>2. g \in [Small(0) -> Int]
    OBVIOUS
  <2>3. Sums(g, Small(0))
    BY <2>1
  <2>4. QED
    BY <2>2, <2>3
<1>3. ASSUME NEW n \in Nat, n \in Done
      PROVE  n + 1 \in Done
  <2>1. PICK f \in [Small(n) -> Int] : Sums(f, Small(n))
    BY <1>3
  <2> DEFINE g == [s \in Small(n + 1) |->
                     IF s = {} THEN 0 ELSE F[First(s)] + f[s \ {First(s)}]]
  <2>2. ASSUME NEW s \in Small(n + 1), s # {}
        PROVE  s \ {First(s)} \in Small(n) /\ First(s) \in S
    BY <1>1, <2>2
  <2>3. g \in [Small(n + 1) -> Int]
    BY <2>2
  <2>4. ASSUME NEW s \in Small(n)
        PROVE  s \in Small(n + 1)
    BY FS_Subset, FS_CardinalityType
  <2>5. ASSUME NEW s \in Small(n)
        PROVE  g[s] = f[s]
    BY <2>1, <2>4
  <2> HIDE DEF Small
  <2>6. ASSUME NEW s \in Small(n + 1)
        PROVE  g[s] = IF s = {} THEN 0 ELSE F[First(s)] + g[s \ {First(s)}]
    BY <2>2, <2>5
  <2>7. Sums(g, Small(n + 1))
    BY <2>6
  <2> HIDE DEF g, Sums
  <2>8. QED
    BY <2>3, <2>7
<1>4. Nat \subseteq Done
  <2> HIDE DEF Done
  <2>1. QED
    BY <1>2, <1>3, NatSetInduction
<1> DEFINE N == Cardinality(S)
<1>5. N \in Nat /\ Small(N) = SUBSET S
  BY FS_CardinalityType, FS_Subset
<1>6. PICK g \in [SUBSET S -> Int] : Sums(g, SUBSET S)
  BY <1>4, <1>5
<1> DEFINE Eq(h) == h = [s \in SUBSET S |-> IF s = {} THEN 0
                            ELSE F[First(s)] + h[s \ {First(s)}]]
<1>7. Eq(g)
  BY <1>6
<1> DEFINE it == CHOOSE h : Eq(h)
<1>8. Eq(it)
  BY <1>7
<1>9. SumFunctionOnSet(F, S) = it[S]
  BY DEF SumFunctionOnSet, FoldFunctionOnSet, MapThenFoldSet, First
<1> HIDE DEF it
<1>10. QED
  BY <1>8, <1>9 DEF Computes

\* If every summand is at most its counterpart and the sums are equal, so are
\* the summands.
LEMMA EqualSums ==
    ASSUME NEW S, IsFiniteSet(S), NEW F, NEW G,
           \A x \in S : F[x] \in Int /\ G[x] \in Int /\ F[x] <= G[x],
           SumFunctionOnSet(F, S) = SumFunctionOnSet(G, S)
    PROVE  \A x \in S : F[x] = G[x]
<1>1. PICK f : SumFunctionOnSet(F, S) = f[S] /\ Computes(f, F, S)
  BY SumUnfolds
<1>2. PICK g : SumFunctionOnSet(G, S) = g[S] /\ Computes(g, G, S)
  BY SumUnfolds
<1> DEFINE Below(s) == /\ f[s] \in Int /\ g[s] \in Int /\ f[s] <= g[s]
                       /\ f[s] = g[s] => \A x \in s : F[x] = G[x]
<1> DEFINE Done == {n \in Nat : \A s \in SUBSET S : Cardinality(s) = n => Below(s)}
<1>3. 0 \in Done
  <2>1. ASSUME NEW s \in SUBSET S, Cardinality(s) = 0
        PROVE  Below(s)
    <3>1. s = {}
      BY <2>1, FS_Subset, FS_EmptySet
    <3>2. f[{}] = 0 /\ g[{}] = 0
      BY <1>1, <1>2 DEF Computes
    <3>3. QED
      BY <3>1, <3>2
  <2>2. QED
    BY <2>1
<1>4. ASSUME NEW n \in Nat, n \in Done
      PROVE  n + 1 \in Done
  <2>1. ASSUME NEW s \in SUBSET S, Cardinality(s) = n + 1
        PROVE  Below(s)
    <3> DEFINE x == First(s)
    <3> DEFINE t == s \ {x}
    <3>1. IsFiniteSet(s) /\ s # {}
      BY <2>1, FS_Subset, FS_EmptySet
    <3>2. x \in s
      BY <3>1 DEF First
    <3>3. Cardinality(t) = n
      <4>1. Cardinality(s \ {x}) = Cardinality(s) - 1
        BY <3>1, <3>2, FS_RemoveElement
      <4>2. QED
        BY <2>1, <4>1
    <3>4. Below(t)
      BY <1>4, <3>3
    <3>5. f[s] = F[x] + f[t] /\ g[s] = G[x] + g[t]
      BY <1>1, <1>2, <3>1 DEF Computes
    <3>6. F[x] \in Int /\ G[x] \in Int /\ F[x] <= G[x]
      BY <3>2
    <3> HIDE DEF x
    <3>7. f[s] \in Int /\ g[s] \in Int /\ f[s] <= g[s]
          /\ (f[s] = g[s] => F[x] = G[x] /\ f[t] = g[t])
      BY <3>4, <3>5, <3>6
    <3>8. QED
      BY <3>4, <3>7
  <2> HIDE DEF Below
  <2>2. QED
    BY <2>1
<1>5. Nat \subseteq Done
  <2> HIDE DEF Done
  <2>1. QED
    BY <1>3, <1>4, NatSetInduction
<1>6. Below(S)
  BY <1>5, FS_CardinalityType
<1>7. QED
  BY <1>1, <1>2, <1>6

\* A sum is the same in whatever order it is taken: any element may go first.
LEMMA SumRemoves ==
    ASSUME NEW S, IsFiniteSet(S), NEW F, \A x \in S : F[x] \in Int, NEW e \in S
    PROVE  /\ SumFunctionOnSet(F, S) \in Int
           /\ SumFunctionOnSet(F, S) = F[e] + SumFunctionOnSet(F, S \ {e})
<1>1. PICK g : SumFunctionOnSet(F, S) = g[S] /\ Computes(g, F, S)
  BY SumUnfolds
<1>2. IsFiniteSet(S \ {e}) /\ \A x \in S \ {e} : F[x] \in Int
  BY FS_Subset
<1>3. PICK h : SumFunctionOnSet(F, S \ {e}) = h[S \ {e}] /\ Computes(h, F, S \ {e})
  BY <1>2, SumUnfolds
<1>4. ASSUME NEW s \in SUBSET S, s # {}
      PROVE  First(s) \in s /\ First(s) \in S /\ F[First(s)] \in Int
  <2>1. First(s) \in s
    BY <1>4 DEF First
  <2> QED
    BY <2>1
<1> DEFINE Sums == {s \in SUBSET S : g[s] \in Int}
<1>5. SUBSET S \subseteq Sums
  <2>1. {} \in Sums
    <3>1. g[{}] = 0
      BY <1>1 DEF Computes
    <3> QED
      BY <3>1
  <2>2. ASSUME NEW s \in SUBSET S, s # {}, \A x \in s : s \ {x} \in Sums
        PROVE  s \in Sums
    <3>1. First(s) \in s /\ F[First(s)] \in Int
      BY <1>4, <2>2
    <3>2. g[s \ {First(s)}] \in Int
      BY <2>2, <3>1
    <3>3. g[s] = F[First(s)] + g[s \ {First(s)}]
      BY <1>1, <2>2 DEF Computes
    <3> QED
      BY <3>1, <3>2, <3>3
  <2> HIDE DEF Sums
  <2> QED
    BY <2>1, <2>2, SubsetInduction
<1> DEFINE AnyOrder == {s \in SUBSET S : \A x \in s : g[s] = F[x] + g[s \ {x}]}
<1>6. ASSUME NEW s \in SUBSET S, s # {}, \A x \in s : s \ {x} \in AnyOrder
      PROVE  s \in AnyOrder
  <2> DEFINE y == First(s)
  <2>1. y \in s /\ F[y] \in Int /\ g[s] = F[y] + g[s \ {y}]
    BY <1>1, <1>4, <1>6 DEF Computes
  <2> HIDE DEF y
  <2>2. ASSUME NEW x \in s, x # y
        PROVE  g[s] = F[x] + g[s \ {x}]
    <3> DEFINE t == (s \ {x}) \ {y}
    <3>1. (s \ {y}) \ {x} = t
      OBVIOUS
    <3>2. g[s \ {y}] = F[x] + g[t]
      <4>1. x \in s \ {y} /\ s \ {y} \in AnyOrder
        BY <1>6, <2>1, <2>2
      <4>2. g[s \ {y}] = F[x] + g[(s \ {y}) \ {x}]
        BY <4>1
      <4> QED
        BY <3>1, <4>2
    <3>3. g[s \ {x}] = F[y] + g[t]
      BY <1>6, <2>1, <2>2
    <3>4. t \in Sums /\ F[x] \in Int
      BY <1>5
    <3>5. g[t] \in Int
      BY <3>4
    <3> HIDE DEF t
    <3> QED
      BY <2>1, <3>2, <3>3, <3>4, <3>5
  <2> QED
    BY <2>1, <2>2
<1>7. SUBSET S \subseteq AnyOrder
  <2>1. {} \in AnyOrder
    OBVIOUS
  <2> HIDE DEF AnyOrder
  <2> QED
    BY <1>6, <2>1, SubsetInduction
<1> DEFINE Same == {s \in SUBSET (S \ {e}) : h[s] = g[s]}
<1>8. SUBSET (S \ {e}) \subseteq Same
  <2> DEFINE T == S \ {e}
  <2>1. {} \in Same
    BY <1>1, <1>3 DEF Computes
  <2>2. ASSUME NEW s \in SUBSET (S \ {e}), s # {}, \A x \in s : s \ {x} \in Same
        PROVE  s \in Same
    <3>1. h[s] = F[First(s)] + h[s \ {First(s)}]
      BY <1>3, <2>2 DEF Computes
    <3>2. g[s] = F[First(s)] + g[s \ {First(s)}]
      BY <1>1, <2>2 DEF Computes
    <3>3. First(s) \in s
      BY <1>4, <2>2
    <3> QED
      BY <2>2, <3>1, <3>2, <3>3
  <2>3. IsFiniteSet(T) /\ {} \in Same
    BY <1>2, <2>1
  <2>4. \A s \in SUBSET T : (s # {} /\ \A x \in s : s \ {x} \in Same) => s \in Same
    BY <2>2
  <2> HIDE DEF Same, T
  <2>5. SUBSET T \subseteq Same
    BY <2>3, <2>4, SubsetInduction
  <2> QED
    BY <2>5 DEF T
<1>9. g[S] \in Int /\ g[S] = F[e] + g[S \ {e}]
  BY <1>5, <1>7
<1> QED
  BY <1>1, <1>3, <1>8, <1>9

-----------------------------------------------------------------------------
(* Sums over an interval, as a loop adds them up.                          *)

LEMMA SumOfNone == \A F : SumFunctionOnSet(F, {}) = 0
<1> TAKE F
<1>1. PICK g : SumFunctionOnSet(F, {}) = g[{}] /\ Computes(g, F, {})
  BY FS_EmptySet, SumUnfolds
<1> QED
  BY <1>1 DEF Computes

LEMMA SumNext ==
    ASSUME NEW a \in Int, NEW n \in Int, a <= n, NEW F, \A i \in a..n : F[i] \in Int
    PROVE  /\ SumFunctionOnSet(F, a..n) \in Int
           /\ SumFunctionOnSet(F, a..(n - 1)) \in Int
           /\ SumFunctionOnSet(F, a..n) = SumFunctionOnSet(F, a..(n - 1)) + F[n]
<1>1. IsFiniteSet(a..n) /\ n \in a..n /\ (a..n) \ {n} = a..(n - 1)
  BY FS_Interval
<1>2. /\ SumFunctionOnSet(F, a..n) \in Int
      /\ SumFunctionOnSet(F, a..n) = F[n] + SumFunctionOnSet(F, (a..n) \ {n})
  BY <1>1, SumRemoves
<1>3. SumFunctionOnSet(F, a..(n - 1)) \in Int
  <2>1. CASE a <= n - 1
    <3>1. IsFiniteSet(a..(n - 1)) /\ a \in a..(n - 1) /\ \A i \in a..(n - 1) : F[i] \in Int
      BY <2>1, FS_Interval
    <3> QED
      BY <3>1, SumRemoves
  <2>2. CASE ~(a <= n - 1)
    <3>1. a..(n - 1) = {}
      BY <2>2
    <3> QED
      BY <3>1, SumOfNone
  <2> QED
    BY <2>1, <2>2
<1>4. F[n] \in Int /\ SumFunctionOnSet(F, (a..n) \ {n}) = SumFunctionOnSet(F, a..(n - 1))
  BY <1>1
<1> QED
  BY <1>2, <1>3, <1>4

\* A sum of natural numbers is one, and does not get smaller.
LEMMA SumGrows ==
    ASSUME NEW a \in Int, NEW n \in Int, NEW F, \A i \in a..n : F[i] \in Nat,
           NEW m \in Int, m <= n
    PROVE  /\ SumFunctionOnSet(F, a..m) \in Nat
           /\ SumFunctionOnSet(F, a..n) \in Nat
           /\ SumFunctionOnSet(F, a..m) <= SumFunctionOnSet(F, a..n)
<1> DEFINE S(k) == SumFunctionOnSet(F, a..k)
<1>1. ASSUME NEW k \in Int, k < a
      PROVE  S(k) = 0
  <2>1. a..k = {}
    BY <1>1
  <2> QED
    BY <2>1, SumOfNone
<1>2. ASSUME NEW k \in Int, a <= k, k <= n
      PROVE  S(k) = S(k - 1) + F[k] /\ F[k] \in Nat
  <2>1. \A i \in a..k : F[i] \in Int
    BY <1>2
  <2> QED
    BY <1>2, <2>1, SumNext
<1> HIDE DEF S
<1> DEFINE Grown == {d \in Nat : \A k \in Int : k <= n /\ k - m = d => S(k) \in Nat /\ S(m) <= S(k)}
<1> DEFINE Natural == {d \in Nat : \A k \in Int : k <= n /\ k - (a - 1) = d => S(k) \in Nat}
<1>3. Nat \subseteq Natural
  <2>1. 0 \in Natural
    BY <1>1
  <2>2. ASSUME NEW d \in Nat, d \in Natural
        PROVE  d + 1 \in Natural
    <3> SUFFICES ASSUME NEW k \in Int, k <= n, k - (a - 1) = d + 1 PROVE S(k) \in Nat
      OBVIOUS
    <3>1. S(k - 1) \in Nat
      BY <2>2
    <3>2. S(k) = S(k - 1) + F[k] /\ F[k] \in Nat
      BY <1>2
    <3> QED
      BY <3>1, <3>2
  <2> HIDE DEF Natural
  <2> QED
    BY <2>1, <2>2, NatSetInduction
<1>4. ASSUME NEW k \in Int, k <= n
      PROVE  S(k) \in Nat
  <2>1. CASE k < a
    BY <1>1, <2>1
  <2>2. CASE k >= a
    <3>1. k - (a - 1) \in Nat
      BY <2>2
    <3> QED
      BY <1>3, <1>4, <3>1
  <2> QED
    BY <2>1, <2>2
<1>5. Nat \subseteq Grown
  <2>1. 0 \in Grown
    BY <1>4
  <2>2. ASSUME NEW d \in Nat, d \in Grown
        PROVE  d + 1 \in Grown
    <3> SUFFICES ASSUME NEW k \in Int, k <= n, k - m = d + 1 PROVE S(k) \in Nat /\ S(m) <= S(k)
      OBVIOUS
    <3>1. S(k - 1) \in Nat /\ S(m) <= S(k - 1) /\ S(m) \in Nat /\ S(k) \in Nat
      BY <1>4, <2>2
    <3>2. S(k - 1) <= S(k)
      <4>1. CASE k < a
        BY <1>1, <4>1
      <4>2. CASE k >= a
        BY <1>2, <3>1, <4>2
      <4> QED
        BY <4>1, <4>2
    <3> QED
      BY <3>1, <3>2
  <2> HIDE DEF Grown
  <2> QED
    BY <2>1, <2>2, NatSetInduction
<1>6. S(m) \in Nat /\ S(n) \in Nat /\ S(m) <= S(n)
  <2>1. n - m \in Nat
    OBVIOUS
  <2> QED
    BY <1>4, <1>5, <2>1
<1> QED
  BY <1>6 DEF S

-----------------------------------------------------------------------------
(* The largest and the smallest of a finite set of numbers.                *)

LEMMA MaxProperties ==
    ASSUME NEW S, S \subseteq Int, IsFiniteSet(S), S # {}
    PROVE  Max(S) \in S /\ \A s \in S : s <= Max(S)
<1> DEFINE Bounded == {T \in SUBSET S : T = {} \/ \E m \in T : \A t \in T : t <= m}
<1>1. {} \in Bounded
  OBVIOUS
<1>2. ASSUME NEW T \in SUBSET S, T # {}, \A x \in T : T \ {x} \in Bounded
      PROVE  T \in Bounded
  <2>1. PICK x \in T : TRUE
    BY <1>2
  <2>2. CASE T \ {x} = {}
    <3>1. \A t \in T : t <= x
      BY <2>1, <2>2
    <3> QED
      BY <2>1, <3>1
  <2>3. CASE T \ {x} # {}
    <3>1. PICK m \in T \ {x} : \A t \in T \ {x} : t <= m
      BY <1>2, <2>1, <2>3
    <3>2. x \in Int /\ m \in Int /\ \A t \in T : t \in Int
      BY <2>1, <3>1
    <3>3. CASE x <= m
      BY <3>1, <3>2, <3>3
    <3>4. CASE m <= x
      <4>1. \A t \in T : t <= x
        BY <3>1, <3>2, <3>4
      <4> QED
        BY <2>1, <4>1
    <3> QED
      BY <3>2, <3>3, <3>4
  <2> QED
    BY <2>2, <2>3
<1>3. SUBSET S \subseteq Bounded
  <2> HIDE DEF Bounded
  <2> QED
    BY <1>1, <1>2, SubsetInduction
<1>4. \E m \in S : \A t \in S : m >= t
  <2>1. PICK m \in S : \A t \in S : t <= m
    BY <1>3
  <2> QED
    BY <2>1
<1>5. Max(S) \in S /\ \A t \in S : Max(S) >= t
  BY <1>4 DEF Max
<1> QED
  BY <1>5

\* What a function makes of a finite set is finite.
LEMMA ImageFinite ==
    ASSUME NEW S, IsFiniteSet(S), NEW F
    PROVE  IsFiniteSet({F[x] : x \in S})
<1> DEFINE T == {F[x] : x \in S}
           f == [x \in S |-> F[x]]
<1>1. f \in Surjection(S, T)
  BY DEF Surjection
<1> HIDE DEF f, T
<1>2. IsFiniteSet(T)
  BY <1>1, FS_Surjection
<1> QED
  BY <1>2 DEF T

LEMMA MinProperties ==
    ASSUME NEW S, S \subseteq Int, IsFiniteSet(S), S # {}
    PROVE  Min(S) \in S /\ \A s \in S : Min(S) <= s
<1> DEFINE T == {0 - s : s \in S}
<1>1. T \subseteq Int /\ T # {} /\ \A s \in S : s \in Int /\ 0 - s \in T
  <2>1. \A s \in S : s \in Int /\ 0 - s \in Int /\ 0 - s \in T
    OBVIOUS
  <2>2. PICK s \in S : TRUE
    OBVIOUS
  <2>3. 0 - s \in T
    BY <2>1
  <2>4. T \subseteq Int
    BY <2>1
  <2> HIDE DEF T
  <2> QED
    BY <2>1, <2>3, <2>4
<1>2. IsFiniteSet(T)
  <2> HIDE DEF T
  <2>1. [s \in S |-> 0 - s] \in Surjection(S, T)
    BY DEF Surjection, T
  <2> QED
    BY <2>1, FS_Surjection
<1>3. Max(T) \in T /\ \A t \in T : t <= Max(T)
  <2> HIDE DEF T
  <2> QED
    BY <1>1, <1>2, MaxProperties
<1>4. PICK m \in S : Max(T) = 0 - m
  BY <1>3
<1>5. \A s \in S : 0 - s <= 0 - m /\ s \in Int
  BY <1>1, <1>3, <1>4
<1>6. Min(S) \in S /\ \A t \in S : Min(S) <= t
  <2>1. \A s \in S : m <= s
    BY <1>5
  <2> QED
    BY <2>1 DEF Min
<1> QED
  BY <1>6

-----------------------------------------------------------------------------
(* Division with remainder.                                                *)

LEMMA Division ==
    ASSUME NEW n \in Nat, NEW d \in Nat \ {0}
    PROVE  /\ n \div d \in Nat
           /\ n % d \in 0..(d - 1)
           /\ n = d * (n \div d) + (n % d)
OBVIOUS

LEMMA DivisionUnique ==
    ASSUME NEW d \in Nat \ {0}, NEW q \in Nat, NEW r \in 0..(d - 1)
    PROVE  (d * q + r) \div d = q /\ (d * q + r) % d = r
OBVIOUS
=============================================================================
