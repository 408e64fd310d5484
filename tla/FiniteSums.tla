----------------------------- MODULE FiniteSums -----------------------------
(***************************************************************************)
(* Lemmas about SumFunctionOnSet, the community modules' sum of a function *)
(* over a finite set, which the ledgers of the models are totalled with.   *)
(* The sum is a fold: a function `iter` on the subsets of the set, chosen  *)
(* to satisfy a recursive equation.  That there is such a function is what *)
(* has to be proved first; the rest is induction on cardinality, carried   *)
(* out on sets of numbers.                                                 *)
(***************************************************************************)
EXTENDS Integers, FiniteSets, Functions, FiniteSetTheorems, TLAPS

\* The element a fold takes first, and the fold's equation for a sum.
Any(s) == CHOOSE x \in s : TRUE

Summand(f, g, s) == IF s = {} THEN 0 ELSE f[Any(s)] + g[s \ {Any(s)}]

Sums(f, D, g) == g = [s \in D |-> Summand(f, g, s)]

\* g solves it on all subsets of S.
SumsOf(f, S, g) == Sums(f, SUBSET S, g)

\* The finite subsets of S with at most n elements.
UpTo(S, n) == {s \in SUBSET S : Cardinality(s) <= n}

\* Induction over the natural numbers, for a set of them.
LEMMA InductionOnSet ==
  ASSUME NEW N \in SUBSET Nat, 0 \in N, \A n \in N : n + 1 \in N
  PROVE  N = Nat
<1> DEFINE T == Nat \ N
<1>1. SUFFICES ASSUME T # {} PROVE FALSE
  OBVIOUS
<1>2. IsWellFoundedOn({p \in Nat \X Nat : p[1] < p[2]}, Nat)
  BY NatLessThanWellFounded DEF OpToRel
<1>3. PICK n \in T :
        \A m \in T : ~ (<<m, n>> \in {p \in Nat \X Nat : p[1] < p[2]})
  BY <1>1, <1>2, WFMin
<1>4. \A m \in T : ~ (m < n)
  BY <1>3
<1>5. n # 0 /\ n - 1 \in Nat /\ n - 1 < n
  OBVIOUS
<1>6. n - 1 \in N
  BY <1>4, <1>5
<1>7. QED
  BY <1>5, <1>6

\* A nonempty finite set and what remains of it without one element.
LEMMA Smaller ==
  ASSUME NEW S, IsFiniteSet(S), NEW s \in SUBSET S, NEW x \in s
  PROVE  /\ IsFiniteSet(s)
         /\ s \ {x} \in SUBSET S
         /\ Cardinality(s) \in Nat
         /\ Cardinality(s \ {x}) = Cardinality(s) - 1
         /\ Cardinality(s) # 0
<1>1. IsFiniteSet(s)
  BY FS_Subset
<1>2. Cardinality(s) \in Nat
  BY <1>1, FS_CardinalityType
<1>3. Cardinality(s \ {x}) = Cardinality(s) - 1
  BY <1>1, FS_RemoveElement
<1>4. Cardinality(s) # 0
  BY <1>1, FS_EmptySet
<1>5. QED
  BY <1>1, <1>2, <1>3, <1>4

LEMMA AnyIsElement ==
  ASSUME NEW s, s # {}
  PROVE  Any(s) \in s
BY DEF Any

\* The fold's equation has a solution on the subsets of a finite set: one for
\* the subsets of at most n elements, extended by those of one more.
LEMMA SumsExist ==
  ASSUME NEW S, IsFiniteSet(S), NEW f
  PROVE  \E g : SumsOf(f, S, g)
<1> DEFINE N == {n \in Nat : \E g : Sums(f, UpTo(S, n), g)}
<1>1. 0 \in N
  <2> DEFINE g == [s \in UpTo(S, 0) |-> 0]
  <2>1. \A s \in UpTo(S, 0) : s = {}
    BY FS_Subset, FS_EmptySet, FS_CardinalityType DEF UpTo
  <2>2. Sums(f, UpTo(S, 0), g)
    BY <2>1 DEF Sums, Summand
  <2>3. QED
    BY <2>2
<1>2. ASSUME NEW n \in N PROVE n + 1 \in N
  <2> n \in Nat
    OBVIOUS
  <2>1. PICK g : Sums(f, UpTo(S, n), g)
    OBVIOUS
  <2> DEFINE h == [s \in UpTo(S, n + 1) |-> Summand(f, g, s)]
  <2>2. UpTo(S, n) \subseteq UpTo(S, n + 1)
    BY FS_Subset, FS_CardinalityType DEF UpTo
  <2>3. \A s \in UpTo(S, n) : h[s] = g[s]
    <3>1. \A s \in UpTo(S, n) : h[s] = Summand(f, g, s)
      BY <2>2
    <3>2. \A s \in UpTo(S, n) : g[s] = Summand(f, g, s)
      BY <2>1 DEF Sums
    <3>3. QED
      BY <3>1, <3>2
  <2>4. ASSUME NEW s \in UpTo(S, n + 1)
        PROVE  h[s] = Summand(f, h, s)
    <3>1. CASE s = {}
      BY <3>1 DEF Summand
    <3>2. CASE s # {}
      <4>1. s \ {Any(s)} \in UpTo(S, n)
        BY <3>2, AnyIsElement, Smaller DEF UpTo
      <4>2. h[s \ {Any(s)}] = g[s \ {Any(s)}]
        BY <2>3, <4>1
      <4>3. QED
        BY <4>2 DEF Summand
    <3>3. QED
      BY <3>1, <3>2
  <2>5. Sums(f, UpTo(S, n + 1), h)
    BY <2>4 DEF Sums
  <2> HIDE DEF h
  <2>6. \E g2 : Sums(f, UpTo(S, n + 1), g2)
    BY <2>5
  <2>7. QED
    BY <2>6
<1>3. N = Nat
  <2> HIDE DEF N
  <2>1. N \in SUBSET Nat
    BY DEF N
  <2>2. QED
    BY <1>1, <1>2, <2>1, InductionOnSet
<1>4. Cardinality(S) \in Nat
  BY FS_CardinalityType
<1>5. UpTo(S, Cardinality(S)) = SUBSET S
  BY FS_Subset DEF UpTo
<1>6. PICK g : Sums(f, UpTo(S, Cardinality(S)), g)
  BY <1>3, <1>4
<1>7. SumsOf(f, S, g)
  BY <1>5, <1>6 DEF SumsOf, Sums
<1>8. QED
  BY <1>7

-----------------------------------------------------------------------------
\* Solutions agree wherever their functions do: on a set that both of them
\* know, and whose elements have the same value in both.
LEMMA SumsAgree ==
  ASSUME NEW S, IsFiniteSet(S), NEW A, NEW B, NEW f1, NEW f2, NEW g1, NEW g2,
         S \subseteq A, S \subseteq B, \A x \in S : f1[x] = f2[x],
         SumsOf(f1, A, g1), SumsOf(f2, B, g2)
  PROVE  g1[S] = g2[S]
<1> DEFINE N == {n \in Nat : \A s \in UpTo(S, n) : g1[s] = g2[s]}
<1>0. \A s \in SUBSET S :
        g1[s] = Summand(f1, g1, s) /\ g2[s] = Summand(f2, g2, s)
  BY DEF SumsOf, Sums
<1>1. 0 \in N
  <2>1. \A s \in UpTo(S, 0) : s = {}
    BY FS_Subset, FS_EmptySet, FS_CardinalityType DEF UpTo
  <2>2. \A s \in UpTo(S, 0) : g1[s] = g2[s]
    BY <1>0, <2>1 DEF Summand
  <2>3. QED
    BY <2>2
<1>2. ASSUME NEW n \in N PROVE n + 1 \in N
  <2> n \in Nat
    OBVIOUS
  <2>1. ASSUME NEW s \in UpTo(S, n + 1)
        PROVE  g1[s] = g2[s]
    <3>1. CASE s = {}
      BY <1>0, <3>1 DEF Summand
    <3>2. CASE s # {}
      <4>1. Any(s) \in s /\ s \in SUBSET S
        BY <3>2, AnyIsElement DEF UpTo
      <4>2. s \ {Any(s)} \in UpTo(S, n)
        BY <4>1, Smaller DEF UpTo
      <4>3. g1[s \ {Any(s)}] = g2[s \ {Any(s)}] /\ f1[Any(s)] = f2[Any(s)]
        BY <4>1, <4>2
      <4>4. QED
        BY <1>0, <4>1, <4>3 DEF Summand
    <3>3. QED
      BY <3>1, <3>2
  <2>2. \A s \in UpTo(S, n + 1) : g1[s] = g2[s]
    BY <2>1
  <2>3. QED
    BY <2>2
<1>3. N = Nat
  <2> HIDE DEF N
  <2>1. N \in SUBSET Nat
    BY DEF N
  <2>2. QED
    BY <1>1, <1>2, <2>1, InductionOnSet
<1>4. Cardinality(S) \in Nat /\ S \in UpTo(S, Cardinality(S))
  BY FS_CardinalityType DEF UpTo
<1>5. QED
  BY <1>3, <1>4

\* Over natural numbers, any element may be taken first, and the sum is one.
LEMMA SumsRemove ==
  ASSUME NEW S, IsFiniteSet(S), NEW f, \A x \in S : f[x] \in Nat,
         NEW g, SumsOf(f, S, g)
  PROVE  \A s \in SUBSET S :
           /\ g[s] \in Nat
           /\ \A x \in s : g[s] = f[x] + g[s \ {x}]
<1> DEFINE Good(s) == /\ g[s] \in Nat
                      /\ \A x \in s : g[s] = f[x] + g[s \ {x}]
           N == {n \in Nat : \A s \in UpTo(S, n) : Good(s)}
<1>0. \A s \in SUBSET S : g[s] = Summand(f, g, s)
  BY DEF SumsOf, Sums
<1>1. 0 \in N
  <2>1. \A s \in UpTo(S, 0) : s = {}
    BY FS_Subset, FS_EmptySet, FS_CardinalityType DEF UpTo
  <2>2. \A s \in UpTo(S, 0) : g[s] = 0
    BY <1>0, <2>1 DEF Summand
  <2>3. QED
    BY <2>1, <2>2
<1>2. ASSUME NEW n \in N PROVE n + 1 \in N
  <2> n \in Nat
    OBVIOUS
  <2>1. \A s \in UpTo(S, n) : Good(s)
    OBVIOUS
  <2> HIDE DEF N
  <2>2. ASSUME NEW s \in UpTo(S, n + 1)
        PROVE  Good(s)
    <3>1. s \in SUBSET S
      BY DEF UpTo
    <3>2. CASE s = {}
      <4>1. g[s] = 0
        BY <1>0, <3>1, <3>2 DEF Summand
      <4>2. QED
        BY <3>2, <4>1
    <3>3. CASE s # {}
      <4> DEFINE c == Any(s)
      <4>1. c \in s
        BY <3>3, AnyIsElement
      <4>2. g[s] = f[c] + g[s \ {c}]
        BY <1>0, <3>1, <3>3 DEF Summand
      <4> HIDE DEF c
      <4>3. f[c] \in Nat
        BY <3>1, <4>1
      <4>4. \A x \in s : s \ {x} \in UpTo(S, n)
        BY <3>1, Smaller DEF UpTo
      <4>5. Good(s \ {c})
        BY <2>1, <4>1, <4>4
      <4>6. g[s] \in Nat
        BY <4>2, <4>3, <4>5
      <4>7. ASSUME NEW x \in s, x # c
            PROVE  g[s] = f[x] + g[s \ {x}]
        <5> DEFINE r == (s \ {c}) \ {x}
        <5>1. r = (s \ {x}) \ {c}
          OBVIOUS
        <5>2. g[s \ {c}] = f[x] + g[r]
          BY <4>5, <4>7
        <5>3. g[s \ {x}] = f[c] + g[r]
          BY <2>1, <4>1, <4>4, <4>7, <5>1
        <5>4. r \in UpTo(S, n)
          <6>1. s \ {c} \in SUBSET S /\ x \in s \ {c}
            BY <3>1, <4>7
          <6>2. Cardinality(s \ {c}) \in Nat /\ Cardinality(s \ {c}) <= n
            BY <4>1, <4>4, <6>1, Smaller DEF UpTo
          <6>3. Cardinality(r) = Cardinality(s \ {c}) - 1 /\ r \in SUBSET S
            BY <6>1, Smaller
          <6> HIDE DEF r
          <6>4. QED
            BY <6>2, <6>3 DEF UpTo
        <5>5. g[r] \in Nat /\ f[x] \in Nat
          BY <2>1, <3>1, <4>7, <5>4
        <5> HIDE DEF r
        <5>6. QED
          BY <4>2, <4>3, <5>2, <5>3, <5>5
      <4>8. QED
        BY <4>2, <4>6, <4>7
    <3>4. QED
      BY <3>2, <3>3
  <2>3. QED
    BY <2>2 DEF N
<1>3. N = Nat
  <2> HIDE DEF N
  <2>1. N \in SUBSET Nat
    BY DEF N
  <2>2. QED
    BY <1>1, <1>2, <2>1, InductionOnSet
<1>4. /\ Cardinality(S) \in Nat
      /\ \A s \in SUBSET S : s \in UpTo(S, Cardinality(S))
  BY FS_CardinalityType, FS_Subset DEF UpTo
<1>5. QED
  BY <1>3, <1>4

-----------------------------------------------------------------------------
\* The sum is the value of a solution at the whole set.
LEMMA SumIsSolution ==
  ASSUME NEW S, IsFiniteSet(S), NEW f
  PROVE  \E g : SumsOf(f, S, g) /\ SumFunctionOnSet(f, S) = g[S]
<1> DEFINE g == CHOOSE h : SumsOf(f, S, h)
<1>1. SumsOf(f, S, g)
  BY SumsExist
<1>2. SumFunctionOnSet(f, S) = g[S]
  BY DEF SumFunctionOnSet, FoldFunctionOnSet, MapThenFoldSet, SumsOf, Sums,
         Summand, Any
<1>3. QED
  BY <1>1, <1>2

\* The sum over no elements.
LEMMA SumEmpty ==
  ASSUME NEW f
  PROVE  SumFunctionOnSet(f, {}) = 0
<1>1. PICK g : SumsOf(f, {}, g) /\ SumFunctionOnSet(f, {}) = g[{}]
  BY FS_EmptySet, SumIsSolution
<1>2. QED
  BY <1>1 DEF SumsOf, Sums, Summand

\* A sum of natural numbers is one.
LEMMA SumNat ==
  ASSUME NEW S, IsFiniteSet(S), NEW f, \A x \in S : f[x] \in Nat
  PROVE  SumFunctionOnSet(f, S) \in Nat
<1>1. PICK g : SumsOf(f, S, g) /\ SumFunctionOnSet(f, S) = g[S]
  BY SumIsSolution
<1>2. \A s \in SUBSET S : g[s] \in Nat
  BY <1>1, SumsRemove
<1>3. QED
  BY <1>1, <1>2

\* The sum depends on the values at the elements of the set only.
LEMMA SumAgree ==
  ASSUME NEW S, IsFiniteSet(S), NEW f1, NEW f2, \A x \in S : f1[x] = f2[x]
  PROVE  SumFunctionOnSet(f1, S) = SumFunctionOnSet(f2, S)
<1>1. PICK g1 : SumsOf(f1, S, g1) /\ SumFunctionOnSet(f1, S) = g1[S]
  BY SumIsSolution
<1>2. PICK g2 : SumsOf(f2, S, g2) /\ SumFunctionOnSet(f2, S) = g2[S]
  BY SumIsSolution
<1>3. QED
  BY <1>1, <1>2, SumsAgree

\* A sum of zeros.
LEMMA SumZero ==
  ASSUME NEW S, IsFiniteSet(S), NEW f, \A x \in S : f[x] = 0
  PROVE  SumFunctionOnSet(f, S) = 0
<1> DEFINE z == [s \in SUBSET S |-> 0]
<1>1. SumsOf(f, S, z)
  <2>1. ASSUME NEW s \in SUBSET S PROVE Summand(f, z, s) = 0
    <3>1. CASE s = {}
      BY <3>1 DEF Summand
    <3>2. CASE s # {}
      <4>1. Any(s) \in s
        BY <3>2, AnyIsElement
      <4>2. f[Any(s)] = 0 /\ z[s \ {Any(s)}] = 0
        BY <4>1
      <4>3. QED
        BY <3>2, <4>2 DEF Summand
    <3>3. QED
      BY <3>1, <3>2
  <2>2. QED
    BY <2>1 DEF SumsOf, Sums
<1>2. z[S] = 0
  OBVIOUS
<1> HIDE DEF z
<1>3. PICK g : SumsOf(f, S, g) /\ SumFunctionOnSet(f, S) = g[S]
  BY SumIsSolution
<1>4. g[S] = z[S]
  BY <1>1, <1>3, SumsAgree
<1>5. QED
  BY <1>2, <1>3, <1>4

\* Any element may be set apart.
LEMMA SumRemove ==
  ASSUME NEW S, IsFiniteSet(S), NEW f, \A x \in S : f[x] \in Nat, NEW x \in S
  PROVE  SumFunctionOnSet(f, S) = f[x] + SumFunctionOnSet(f, S \ {x})
<1>1. PICK g : SumsOf(f, S, g) /\ SumFunctionOnSet(f, S) = g[S]
  BY SumIsSolution
<1>2. IsFiniteSet(S \ {x})
  BY FS_Subset
<1>3. PICK h : /\ SumsOf(f, S \ {x}, h)
               /\ SumFunctionOnSet(f, S \ {x}) = h[S \ {x}]
  BY <1>2, SumIsSolution
<1>4. g[S \ {x}] = h[S \ {x}]
  BY <1>1, <1>2, <1>3, SumsAgree
<1>5. g[S] = f[x] + g[S \ {x}]
  BY <1>1, SumsRemove
<1>6. QED
  BY <1>1, <1>3, <1>4, <1>5

\* The sum with one element more.
LEMMA SumAdd ==
  ASSUME NEW S, IsFiniteSet(S), NEW x, x \notin S, NEW f,
         \A y \in S \cup {x} : f[y] \in Nat
  PROVE  SumFunctionOnSet(f, S \cup {x}) = f[x] + SumFunctionOnSet(f, S)
<1>1. IsFiniteSet(S \cup {x})
  BY FS_AddElement
<1>2. (S \cup {x}) \ {x} = S
  OBVIOUS
<1>3. SumFunctionOnSet(f, S \cup {x})
        = f[x] + SumFunctionOnSet(f, (S \cup {x}) \ {x})
  BY <1>1, SumRemove
<1>4. QED
  BY <1>2, <1>3

\* The sum of a function over its whole domain, changed at one element.
LEMMA SumChange ==
  ASSUME NEW S, IsFiniteSet(S), NEW f \in [S -> Nat], NEW h \in [S -> Nat],
         NEW x \in S, \A y \in S \ {x} : h[y] = f[y]
  PROVE  /\ SumFunction(f) \in Nat
         /\ SumFunction(h) = SumFunction(f) - f[x] + h[x]
<1> DEFINE r == SumFunctionOnSet(f, S \ {x})
<1>1. IsFiniteSet(S \ {x})
  BY FS_Subset
<1>2. SumFunctionOnSet(f, S) = f[x] + r
  BY SumRemove
<1>3. SumFunctionOnSet(h, S) = h[x] + SumFunctionOnSet(h, S \ {x})
  BY SumRemove
<1>4. SumFunctionOnSet(h, S \ {x}) = r
  BY <1>1, SumAgree
<1>5. r \in Nat
  BY <1>1, SumNat
<1>6. DOMAIN h = S /\ DOMAIN f = S /\ f[x] \in Nat /\ h[x] \in Nat
  OBVIOUS
<1>7. /\ SumFunction(f) = SumFunctionOnSet(f, S)
      /\ SumFunction(h) = SumFunctionOnSet(h, S)
  BY <1>6 DEF SumFunction
<1> HIDE DEF r
<1>8. QED
  BY <1>2, <1>3, <1>4, <1>5, <1>6, <1>7
=============================================================================
