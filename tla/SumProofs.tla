----------------------------- MODULE SumProofs ------------------------------
(***************************************************************************)
(* Sums over finite sets.  MapThenSumSet is a fold, defined by recursion   *)
(* on the subsets of the set in an order CHOOSE picks: here it is shown    *)
(* that the recursion defines a function and that the order does not       *)
(* matter.  The induction is on cardinalities, by least counterexample.    *)
(***************************************************************************)
EXTENDS FiniteSetsExt, FiniteSetTheorems, WellFoundedInduction, TLAPS

\* The sum of f[x] for the x in S.
SumOf(f, S) == MapThenSumSet(LAMBDA x : f[x], S)

Pick(S) == CHOOSE x \in S : TRUE

\* The function the fold computes on the way, and what it is on small sets.
Sums(g, f, S) ==
    g = [s \in SUBSET S |-> IF s = {} THEN 0 ELSE f[Pick(s)] + g[s \ {Pick(s)}]]

UpTo(S, n) == {s \in SUBSET S : Cardinality(s) <= n}

PartialSums(g, f, S, n) ==
    g = [s \in UpTo(S, n) |-> IF s = {} THEN 0 ELSE f[Pick(s)] + g[s \ {Pick(s)}]]

\* MapThenSumSet chooses a function that adds element by element.
LEMMA SumIsFold ==
    ASSUME NEW f, NEW S
    PROVE  SumOf(f, S) = (CHOOSE g : Sums(g, f, S))[S]
  BY DEF SumOf, MapThenSumSet, MapThenFoldSet, Sums, Pick

\* Some natural numbers have a least one.
LEMMA LeastNatural == ASSUME NEW S \in SUBSET Nat, S # {} PROVE \E x \in S : \A y \in S : x <= y
  <1> DEFINE Less == {p \in Nat \X Nat : p[1] < p[2]}
  <1>1. IsWellFoundedOn(Less, Nat)
    BY NatLessThanWellFounded DEF OpToRel
  <1>2. PICK x \in S : \A y \in S : ~(<<y, x>> \in Less)
    <2> HIDE DEF Less
    <2> QED
      BY <1>1, WFMin
  <1>3. ASSUME NEW y \in S PROVE x <= y
    <2>1. x \in Nat /\ y \in Nat
      OBVIOUS
    <2>2. y < x => <<y, x>> \in Less
      BY <2>1
    <2> QED
      BY <1>2, <2>1, <2>2
  <1> QED
    BY <1>3

\* Induction over the natural numbers for a set of them.
LEMMA SetOfNaturals ==
    ASSUME NEW T \in SUBSET Nat, 0 \in T, \A n \in Nat : n \in T => n + 1 \in T
    PROVE  T = Nat
  <1> SUFFICES ASSUME Nat \ T # {} PROVE FALSE
    OBVIOUS
  <1>1. PICK x \in Nat \ T : \A y \in Nat \ T : x <= y
    BY LeastNatural
  <1>2. x \in Nat /\ x # 0 /\ x - 1 \in Nat /\ x - 1 + 1 = x
    BY <1>1
  <1>3. x - 1 \in T
    BY <1>1, <1>2
  <1> QED
    BY <1>1, <1>2, <1>3

\* A set that is not empty has an element to pick.
LEMMA PickOne == ASSUME NEW S, S # {} PROVE Pick(S) \in S
  BY DEF Pick

\* Without one of its elements a finite set is smaller by one.
LEMMA WithoutOne ==
    ASSUME NEW S, IsFiniteSet(S), NEW s \in SUBSET S, NEW x \in s
    PROVE  /\ IsFiniteSet(s) /\ Cardinality(s) \in Nat /\ Cardinality(s) # 0
           /\ s \ {x} \in SUBSET S /\ IsFiniteSet(s \ {x})
           /\ Cardinality(s \ {x}) = Cardinality(s) - 1
           /\ Cardinality(s \ {x}) < Cardinality(s)
  <1>1. IsFiniteSet(s) /\ Cardinality(s) \in Nat
    BY FS_Subset, FS_CardinalityType
  <1>2. Cardinality(s \ {x}) = Cardinality(s) - 1
    BY <1>1, FS_RemoveElement
  <1>3. Cardinality(s \ {x}) < Cardinality(s)
    BY <1>1, <1>2
  <1> QED
    BY <1>1, <1>2, <1>3, FS_RemoveElement, FS_EmptySet, FS_CardinalityType

-----------------------------------------------------------------------------
(* The recursion defines a function.                                       *)

\* A set of no elements is empty.
LEMMA NoElements == ASSUME NEW S, IsFiniteSet(S) PROVE UpTo(S, 0) = {{}}
  <1>1. \A s \in SUBSET S : Cardinality(s) = 0 <=> s = {}
    BY FS_Subset, FS_EmptySet
  <1>2. \A s \in SUBSET S : Cardinality(s) \in Nat
    BY FS_Subset, FS_CardinalityType
  <1>3. \A s \in SUBSET S : Cardinality(s) <= 0 <=> s = {}
    BY <1>1, <1>2
  <1> QED
    BY <1>3 DEF UpTo

\* A function for sets of n elements extends to one more.
LEMMA OneMoreElement ==
    ASSUME NEW f, NEW S, IsFiniteSet(S), NEW n \in Nat, NEW g, PartialSums(g, f, S, n)
    PROVE  \E h : PartialSums(h, f, S, n + 1)
  <1> DEFINE h == [s \in UpTo(S, n + 1) |-> IF s = {} THEN 0 ELSE f[Pick(s)] + g[s \ {Pick(s)}]]
  <1>1. \A s \in UpTo(S, n) : s \in UpTo(S, n + 1)
    <2>1. \A s \in SUBSET S : Cardinality(s) \in Nat
      BY FS_Subset, FS_CardinalityType
    <2> QED
      BY <2>1 DEF UpTo
  <1>2. \A s \in UpTo(S, n) : h[s] = g[s]
    BY <1>1 DEF PartialSums
  <1>3. ASSUME NEW s \in UpTo(S, n + 1), s # {} PROVE s \ {Pick(s)} \in UpTo(S, n)
    <2>1. s \in SUBSET S /\ Cardinality(s) <= n + 1 /\ Pick(s) \in s
      BY <1>3, PickOne DEF UpTo
    <2>2. /\ s \ {Pick(s)} \in SUBSET S /\ Cardinality(s) \in Nat
          /\ Cardinality(s \ {Pick(s)}) = Cardinality(s) - 1
      BY <2>1, WithoutOne
    <2> QED
      BY <2>1, <2>2 DEF UpTo
  <1>4. h = [s \in UpTo(S, n + 1) |-> IF s = {} THEN 0 ELSE f[Pick(s)] + h[s \ {Pick(s)}]]
    <2> SUFFICES ASSUME NEW s \in UpTo(S, n + 1), s # {}
                 PROVE  g[s \ {Pick(s)}] = h[s \ {Pick(s)}]
      OBVIOUS
    <2> HIDE DEF h
    <2> QED
      BY <1>2, <1>3
  <1> HIDE DEF h
  <1> QED
    BY <1>4 DEF PartialSums

\* Hence there is one for all subsets.
LEMMA SumsExist == ASSUME NEW f, NEW S, IsFiniteSet(S) PROVE \E g : Sums(g, f, S)
  <1> DEFINE T == {n \in Nat : \E g : PartialSums(g, f, S, n)}
  <1>1. 0 \in T
    <2> DEFINE g == [s \in {{}} |-> 0]
    <2>1. g = [s \in {{}} |-> IF s = {} THEN 0 ELSE f[Pick(s)] + g[s \ {Pick(s)}]]
      OBVIOUS
    <2>2. PartialSums(g, f, S, 0)
      <3> HIDE DEF g
      <3> QED
        BY <2>1, NoElements DEF PartialSums
    <2> QED
      BY <2>2
  <1>2. \A n \in Nat : n \in T => n + 1 \in T
    BY OneMoreElement
  <1>3. T = Nat
    <2> HIDE DEF T
    <2>1. T \in SUBSET Nat
      BY DEF T
    <2> QED
      BY <1>1, <1>2, <2>1, SetOfNaturals
  <1>4. PICK g : PartialSums(g, f, S, Cardinality(S))
    BY <1>3, FS_CardinalityType
  <1>5. UpTo(S, Cardinality(S)) = SUBSET S
    BY FS_Subset DEF UpTo
  <1> QED
    BY <1>4, <1>5 DEF PartialSums, Sums

-----------------------------------------------------------------------------
(* The sum does not depend on the order.                                   *)

\* Induction over the subsets of a finite set: a set of subsets is all of them if it
\* holds the empty set and each s that it holds without Pick(s).
LEMMA SubsetInduction ==
    ASSUME NEW S, IsFiniteSet(S), NEW T, {} \in T,
           \A s \in SUBSET S : s # {} /\ (\A r \in SUBSET S :
               Cardinality(r) < Cardinality(s) => r \in T) => s \in T
    PROVE  SUBSET S \subseteq T
  <1> SUFFICES ASSUME NEW bad \in SUBSET S, bad \notin T PROVE FALSE
    OBVIOUS
  <1> DEFINE N == {n \in Nat : \E s \in SUBSET S : Cardinality(s) = n /\ s \notin T}
  <1>1. \A s \in SUBSET S : Cardinality(s) \in Nat
    BY FS_Subset, FS_CardinalityType
  <1>2. N \in SUBSET Nat /\ N # {}
    BY <1>1
  <1>3. PICK x \in N : \A y \in N : x <= y
    <2> HIDE DEF N
    <2> QED
      BY <1>2, LeastNatural
  <1>4. PICK s \in SUBSET S : Cardinality(s) = x /\ s \notin T
    BY <1>3
  <1>5. ASSUME NEW r \in SUBSET S, Cardinality(r) < Cardinality(s) PROVE r \in T
    <2>1. Cardinality(r) \in Nat /\ x \in Nat /\ Cardinality(r) < x
      BY <1>1, <1>4, <1>5
    <2>2. ~(x <= Cardinality(r))
      BY <2>1
    <2> QED
      BY <1>3, <2>1, <2>2
  <1> QED
    BY <1>4, <1>5

\* Two such functions agree on the sets both are defined on and add the same up for.
LEMMA SumsAgree ==
    ASSUME NEW S1, NEW S2, NEW f1, NEW f2, NEW g1, NEW g2,
           Sums(g1, f1, S1), Sums(g2, f2, S2),
           NEW S, IsFiniteSet(S), S \subseteq S1, S \subseteq S2, \A x \in S : f1[x] = f2[x]
    PROVE  g1[S] = g2[S]
  <1> DEFINE T == {s \in SUBSET S : g1[s] = g2[s]}
  <1>0. \A s \in SUBSET S : /\ g1[s] = IF s = {} THEN 0 ELSE f1[Pick(s)] + g1[s \ {Pick(s)}]
                            /\ g2[s] = IF s = {} THEN 0 ELSE f2[Pick(s)] + g2[s \ {Pick(s)}]
    <2> TAKE s \in SUBSET S
    <2>1. s \in SUBSET S1 /\ s \in SUBSET S2
      OBVIOUS
    <2> QED
      BY <2>1 DEF Sums
  <1>1. {} \in T
    BY <1>0
  <1>2. ASSUME NEW s \in SUBSET S, s # {},
               \A r \in SUBSET S : Cardinality(r) < Cardinality(s) => r \in T
        PROVE  s \in T
    <2>1. PICK x \in s : x = Pick(s)
      BY <1>2, PickOne
    <2>2. s \ {x} \in SUBSET S /\ Cardinality(s \ {x}) < Cardinality(s)
      BY WithoutOne
    <2>3. s \ {x} \in T
      <3> HIDE DEF T
      <3> QED
        BY <1>2, <2>2
    <2>4. /\ g1[s] = f1[x] + g1[s \ {x}] /\ g2[s] = f2[x] + g2[s \ {x}]
          /\ f1[x] = f2[x]
      BY <1>0, <1>2, <2>1
    <2> QED
      BY <2>3, <2>4
  <1>3. SUBSET S \subseteq T
    <2> HIDE DEF T
    <2> QED
      BY <1>1, <1>2, SubsetInduction
  <1> QED
    BY <1>3

\* The sum is the value of such a function.
LEMMA SumIsOneOfThem ==
    ASSUME NEW f, NEW S, IsFiniteSet(S)
    PROVE  \E g : Sums(g, f, S) /\ SumOf(f, S) = g[S]
  BY SumsExist, SumIsFold

\* The sum depends on the values in the set only.
LEMMA SumCongruence ==
    ASSUME NEW S, IsFiniteSet(S), NEW f1, NEW f2, \A x \in S : f1[x] = f2[x]
    PROVE  SumOf(f1, S) = SumOf(f2, S)
  <1>1. PICK g1 : Sums(g1, f1, S) /\ SumOf(f1, S) = g1[S]
    BY SumIsOneOfThem
  <1>2. PICK g2 : Sums(g2, f2, S) /\ SumOf(f2, S) = g2[S]
    BY SumIsOneOfThem
  <1> QED
    BY <1>1, <1>2, SumsAgree

\* Nothing adds up to 0.
LEMMA SumOfNone == ASSUME NEW f PROVE SumOf(f, {}) = 0
  <1>1. IsFiniteSet({})
    BY FS_EmptySet
  <1>2. PICK g : Sums(g, f, {}) /\ SumOf(f, {}) = g[{}]
    BY <1>1, SumIsOneOfThem
  <1> QED
    BY <1>2 DEF Sums

\* A sum is the element picked and the sum of the others.
LEMMA SumPicked ==
    ASSUME NEW f, NEW S, IsFiniteSet(S), S # {}
    PROVE  SumOf(f, S) = f[Pick(S)] + SumOf(f, S \ {Pick(S)})
  <1>1. PICK x \in S : x = Pick(S)
    BY PickOne
  <1>2. PICK g : Sums(g, f, S) /\ SumOf(f, S) = g[S]
    BY SumIsOneOfThem
  <1>3. IsFiniteSet(S \ {x}) /\ S \ {x} \in SUBSET S
    BY WithoutOne
  <1>4. PICK h : Sums(h, f, S \ {x}) /\ SumOf(f, S \ {x}) = h[S \ {x}]
    BY <1>3, SumIsOneOfThem
  <1>5. h[S \ {x}] = g[S \ {x}]
    BY <1>2, <1>3, <1>4, SumsAgree
  <1>6. g[S] = f[x] + g[S \ {x}]
    BY <1>1, <1>2 DEF Sums
  <1> QED
    BY <1>1, <1>2, <1>4, <1>5, <1>6

\* A sum of natural numbers is one.
LEMMA SumType ==
    ASSUME NEW f, NEW S, IsFiniteSet(S), \A x \in S : f[x] \in Nat
    PROVE  SumOf(f, S) \in Nat
  <1> DEFINE T == {s \in SUBSET S : SumOf(f, s) \in Nat}
  <1>1. {} \in T
    BY SumOfNone
  <1>2. ASSUME NEW s \in SUBSET S, s # {},
               \A r \in SUBSET S : Cardinality(r) < Cardinality(s) => r \in T
        PROVE  s \in T
    <2>1. PICK x \in s : x = Pick(s)
      BY <1>2, PickOne
    <2>2. /\ IsFiniteSet(s) /\ s \ {x} \in SUBSET S
          /\ Cardinality(s \ {x}) < Cardinality(s)
      BY WithoutOne
    <2>3. s \ {x} \in T
      <3> HIDE DEF T
      <3> QED
        BY <1>2, <2>2
    <2>4. SumOf(f, s) = f[x] + SumOf(f, s \ {x})
      BY <1>2, <2>1, <2>2, SumPicked
    <2>5. f[x] \in Nat /\ SumOf(f, s \ {x}) \in Nat
      BY <2>3
    <2>6. f[x] + SumOf(f, s \ {x}) \in Nat
      BY <2>5
    <2> QED
      BY <2>4, <2>6
  <1>3. SUBSET S \subseteq T
    <2> HIDE DEF T
    <2> QED
      BY <1>1, <1>2, SubsetInduction
  <1> QED
    BY <1>3

\* Zeros add up to 0.
LEMMA SumOfZeros ==
    ASSUME NEW f, NEW S, IsFiniteSet(S), \A x \in S : f[x] = 0
    PROVE  SumOf(f, S) = 0
  <1> DEFINE T == {s \in SUBSET S : SumOf(f, s) = 0}
  <1>1. {} \in T
    BY SumOfNone
  <1>2. ASSUME NEW s \in SUBSET S, s # {},
               \A r \in SUBSET S : Cardinality(r) < Cardinality(s) => r \in T
        PROVE  s \in T
    <2>1. PICK x \in s : x = Pick(s)
      BY <1>2, PickOne
    <2>2. /\ IsFiniteSet(s) /\ s \ {x} \in SUBSET S
          /\ Cardinality(s \ {x}) < Cardinality(s)
      BY WithoutOne
    <2>3. s \ {x} \in T
      <3> HIDE DEF T
      <3> QED
        BY <1>2, <2>2
    <2>4. SumOf(f, s) = f[x] + SumOf(f, s \ {x})
      BY <1>2, <2>1, <2>2, SumPicked
    <2> QED
      BY <2>3, <2>4
  <1>3. SUBSET S \subseteq T
    <2> HIDE DEF T
    <2> QED
      BY <1>1, <1>2, SubsetInduction
  <1> QED
    BY <1>3

\* Any element may be added first.
LEMMA SumWithout ==
    ASSUME NEW f, NEW S, IsFiniteSet(S), \A x \in S : f[x] \in Nat, NEW x \in S
    PROVE  SumOf(f, S) = f[x] + SumOf(f, S \ {x})
  <1> DEFINE T == {s \in SUBSET S : \A y \in s : SumOf(f, s) = f[y] + SumOf(f, s \ {y})}
  <1>1. {} \in T
    OBVIOUS
  <1>2. ASSUME NEW s \in SUBSET S, s # {},
               \A r \in SUBSET S : Cardinality(r) < Cardinality(s) => r \in T
        PROVE  s \in T
    <2>1. PICK p \in s : p = Pick(s)
      BY <1>2, PickOne
    <2>2. SumOf(f, s) = f[p] + SumOf(f, s \ {p})
      BY <1>2, <2>1, WithoutOne, SumPicked
    <2>3. ASSUME NEW y \in s, y # p PROVE SumOf(f, s) = f[y] + SumOf(f, s \ {y})
      <3>1. /\ s \ {p} \in SUBSET S /\ Cardinality(s \ {p}) < Cardinality(s)
            /\ s \ {y} \in SUBSET S /\ Cardinality(s \ {y}) < Cardinality(s)
        BY WithoutOne
      <3>2. s \ {p} \in T /\ s \ {y} \in T
        <4> HIDE DEF T
        <4> QED
          BY <1>2, <3>1
      <3>3. y \in s \ {p} /\ p \in s \ {y} /\ (s \ {p}) \ {y} = (s \ {y}) \ {p}
        BY <2>3
      <3>4. /\ SumOf(f, s \ {p}) = f[y] + SumOf(f, (s \ {p}) \ {y})
            /\ SumOf(f, s \ {y}) = f[p] + SumOf(f, (s \ {y}) \ {p})
        BY <3>2, <3>3
      <3>5. f[p] \in Nat /\ f[y] \in Nat /\ SumOf(f, (s \ {p}) \ {y}) \in Nat
        <4>1. IsFiniteSet((s \ {p}) \ {y}) /\ \A z \in (s \ {p}) \ {y} : f[z] \in Nat
          BY FS_Subset
        <4> QED
          BY <4>1, SumType
      <3>6. PICK a, b, c : a = f[p] /\ b = f[y] /\ c = SumOf(f, (s \ {p}) \ {y})
        OBVIOUS
      <3>7. a \in Nat /\ b \in Nat /\ c \in Nat
        BY <3>5, <3>6
      <3>8. SumOf(f, s) = a + (b + c) /\ f[y] + SumOf(f, s \ {y}) = b + (a + c)
        BY <2>2, <3>3, <3>4, <3>6
      <3> QED
        BY <3>7, <3>8
    <2> QED
      BY <2>2, <2>3
  <1>3. SUBSET S \subseteq T
    <2> HIDE DEF T
    <2> QED
      BY <1>1, <1>2, SubsetInduction
  <1>4. S \in T
    BY <1>3
  <1> QED
    BY <1>4

\* One more element.
LEMMA SumWith ==
    ASSUME NEW f, NEW S, IsFiniteSet(S), NEW x, x \notin S, \A y \in S \cup {x} : f[y] \in Nat
    PROVE  SumOf(f, S \cup {x}) = SumOf(f, S) + f[x]
  <1>1. IsFiniteSet(S \cup {x}) /\ (S \cup {x}) \ {x} = S /\ x \in S \cup {x}
    BY FS_AddElement
  <1>2. SumOf(f, S \cup {x}) = f[x] + SumOf(f, S)
    BY <1>1, SumWithout
  <1>3. f[x] \in Nat /\ SumOf(f, S) \in Nat
    BY SumType
  <1>4. f[x] + SumOf(f, S) = SumOf(f, S) + f[x]
    BY <1>3
  <1> QED
    BY <1>2, <1>4

\* A part of a set adds up to no more.
LEMMA SumOfPart ==
    ASSUME NEW f, NEW S, IsFiniteSet(S), \A x \in S : f[x] \in Nat
    PROVE  \A R \in SUBSET S : SumOf(f, R) <= SumOf(f, S)
  <1> DEFINE T == {s \in SUBSET S : \A R \in SUBSET s : SumOf(f, R) <= SumOf(f, s)}
  <1>0. \A s \in SUBSET S : IsFiniteSet(s) /\ SumOf(f, s) \in Nat
    <2> TAKE s \in SUBSET S
    <2>1. IsFiniteSet(s) /\ \A x \in s : f[x] \in Nat
      BY FS_Subset
    <2> QED
      BY <2>1, SumType
  <1>1. {} \in T
    <2> SUFFICES ASSUME NEW R \in SUBSET {} PROVE SumOf(f, R) <= SumOf(f, {})
      OBVIOUS
    <2>1. R = {}
      OBVIOUS
    <2> QED
      BY <2>1, SumOfNone
  <1>2. ASSUME NEW s \in SUBSET S, s # {},
               \A r \in SUBSET S : Cardinality(r) < Cardinality(s) => r \in T
        PROVE  s \in T
    <2> SUFFICES ASSUME NEW R \in SUBSET s PROVE SumOf(f, R) <= SumOf(f, s)
      OBVIOUS
    <2>1. CASE R = s
      BY <1>0, <2>1
    <2>2. CASE R # s
      <3>1. PICK x \in s : x \notin R
        BY <2>2
      <3>2. s \ {x} \in SUBSET S /\ Cardinality(s \ {x}) < Cardinality(s)
        BY WithoutOne
      <3>3. s \ {x} \in T
        <4> HIDE DEF T
        <4> QED
          BY <1>2, <3>2
      <3>4. R \in SUBSET (s \ {x})
        BY <3>1
      <3>5. SumOf(f, R) <= SumOf(f, s \ {x})
        BY <3>3, <3>4
      <3>6. SumOf(f, s) = f[x] + SumOf(f, s \ {x})
        BY <1>0, SumWithout
      <3>7. f[x] \in Nat /\ SumOf(f, s \ {x}) \in Nat /\ SumOf(f, R) \in Nat
        BY <1>0, <3>2
      <3> QED
        BY <3>5, <3>6, <3>7
    <2> QED
      BY <2>1, <2>2
  <1>3. SUBSET S \subseteq T
    <2> HIDE DEF T
    <2> QED
      BY <1>1, <1>2, SubsetInduction
  <1>4. S \in T
    BY <1>3
  <1> QED
    BY <1>4

\* Two parts add up to the whole.
LEMMA SumSplit ==
    ASSUME NEW f, NEW S, IsFiniteSet(S), \A x \in S : f[x] \in Nat
    PROVE  \A R \in SUBSET S : SumOf(f, S) = SumOf(f, R) + SumOf(f, S \ R)
  <1> DEFINE T == {R \in SUBSET S : SumOf(f, S) = SumOf(f, R) + SumOf(f, S \ R)}
  <1>0. \A s \in SUBSET S : IsFiniteSet(s) /\ SumOf(f, s) \in Nat
    <2> TAKE s \in SUBSET S
    <2>1. IsFiniteSet(s) /\ \A x \in s : f[x] \in Nat
      BY FS_Subset
    <2> QED
      BY <2>1, SumType
  <1>1. {} \in T
    <2>1. SumOf(f, S) = 0 + SumOf(f, S) /\ S \ {} = S
      BY <1>0
    <2> QED
      BY <2>1, SumOfNone
  <1>2. ASSUME NEW s \in SUBSET S, s # {},
               \A r \in SUBSET S : Cardinality(r) < Cardinality(s) => r \in T
        PROVE  s \in T
    <2>1. PICK x \in s : TRUE
      BY <1>2
    <2>2. s \ {x} \in SUBSET S /\ Cardinality(s \ {x}) < Cardinality(s)
      BY WithoutOne
    <2>3. s \ {x} \in T
      <3> HIDE DEF T
      <3> QED
        BY <1>2, <2>2
    <2>4. SumOf(f, s) = f[x] + SumOf(f, s \ {x})
      BY <1>0, SumWithout
    <2>5. SumOf(f, S \ (s \ {x})) = SumOf(f, S \ s) + f[x]
      <3>1. S \ (s \ {x}) = (S \ s) \cup {x} /\ IsFiniteSet(S \ s) /\ x \notin S \ s
        BY <1>0
      <3> QED
        BY <3>1, SumWith
    <2>6. /\ SumOf(f, s \ {x}) \in Nat /\ SumOf(f, S \ s) \in Nat /\ f[x] \in Nat
      BY <1>0, <2>2
    <2>7. SumOf(f, S) = SumOf(f, s \ {x}) + SumOf(f, S \ (s \ {x}))
      BY <2>3
    <2>8. SumOf(f, s \ {x}) + (SumOf(f, S \ s) + f[x]) = (f[x] + SumOf(f, s \ {x})) + SumOf(f, S \ s)
      BY <2>6
    <2> QED
      BY <2>4, <2>5, <2>7, <2>8
  <1>3. SUBSET S \subseteq T
    <2> HIDE DEF T
    <2> QED
      BY <1>1, <1>2, SubsetInduction
  <1> QED
    BY <1>3

\* g has the numbers of f one place further.
Shifted(f, g, a, n) == \A i \in a..(a + n - 1) : f[i] \in Nat /\ g[i + 1] = f[i]
SameSum(f, g, a, n) == SumOf(g, (a + 1)..(a + n)) = SumOf(f, a..(a + n - 1))

\* The sum over an interval is that of the function shifted by one.
LEMMA SumShifted ==
    ASSUME NEW f, NEW g, NEW a \in Int, NEW n \in Nat, Shifted(f, g, a, n)
    PROVE  SameSum(f, g, a, n)
  <1> USE DEF Shifted, SameSum
  <1> DEFINE T == {m \in Nat : m <= n => SumOf(g, (a + 1)..(a + m)) = SumOf(f, a..(a + m - 1))}
  <1>1. 0 \in T
    <2>1. (a + 1)..(a + 0) = {} /\ a..(a + 0 - 1) = {}
      OBVIOUS
    <2> QED
      BY <2>1, SumOfNone
  <1>2. ASSUME NEW m \in Nat, m \in T PROVE m + 1 \in T
    <2> SUFFICES ASSUME m + 1 <= n
                 PROVE  SumOf(g, (a + 1)..(a + (m + 1))) = SumOf(f, a..(a + (m + 1) - 1))
      OBVIOUS
    <2>1. /\ (a + 1)..(a + (m + 1)) = ((a + 1)..(a + m)) \cup {a + m + 1}
          /\ a..(a + (m + 1) - 1) = (a..(a + m - 1)) \cup {a + m}
      OBVIOUS
    <2>2. /\ \A i \in a..(a + m) : i \in a..(a + n - 1)
          /\ \A i \in (a + 1)..(a + m + 1) : i - 1 \in a..(a + m) /\ i = i - 1 + 1
      OBVIOUS
    <2>3. /\ \A i \in a..(a + m) : f[i] \in Nat
          /\ \A i \in (a + 1)..(a + m + 1) : g[i] \in Nat
          /\ g[a + m + 1] = f[a + m]
      BY <2>2
    <2>4. SumOf(g, ((a + 1)..(a + m)) \cup {a + m + 1}) = SumOf(g, (a + 1)..(a + m)) + g[a + m + 1]
      <3>1. /\ IsFiniteSet((a + 1)..(a + m)) /\ a + m + 1 \notin (a + 1)..(a + m)
            /\ \A i \in ((a + 1)..(a + m)) \cup {a + m + 1} : i \in (a + 1)..(a + m + 1)
        BY FS_Interval
      <3> QED
        BY <2>3, <3>1, SumWith
    <2>5. SumOf(f, (a..(a + m - 1)) \cup {a + m}) = SumOf(f, a..(a + m - 1)) + f[a + m]
      <3>1. /\ IsFiniteSet(a..(a + m - 1)) /\ a + m \notin a..(a + m - 1)
            /\ \A i \in (a..(a + m - 1)) \cup {a + m} : i \in a..(a + m)
        BY FS_Interval
      <3> QED
        BY <2>3, <3>1, SumWith
    <2>6. SumOf(g, (a + 1)..(a + m)) = SumOf(f, a..(a + m - 1))
      BY <1>2
    <2> HIDE DEF T
    <2> QED
      BY <2>1, <2>3, <2>4, <2>5, <2>6
  <1>3. T = Nat
    <2> HIDE DEF T
    <2>1. T \in SUBSET Nat
      BY DEF T
    <2> QED
      BY <1>1, <1>2, <2>1, SetOfNaturals
  <1>4. n \in T
    BY <1>3
  <1> QED
    BY <1>4

\* Sums over the parts of an interval are natural numbers.
LEMMA IntervalSums ==
    ASSUME NEW last \in Nat, NEW f \in [0..last -> Nat], NEW k \in 0..last
    PROVE  /\ SumOf(f, 0..k) \in Nat /\ SumOf(f, (k + 1)..last) \in Nat
           /\ SumOf(f, 0..(k - 1)) \in Nat /\ SumOf(f, k..last) \in Nat
  <1>1. \A a, b \in Int : IsFiniteSet(a..b)
    BY FS_Interval
  <1>2. /\ \A i \in 0..k : f[i] \in Nat
        /\ \A i \in (k + 1)..last : f[i] \in Nat
        /\ \A i \in 0..(k - 1) : f[i] \in Nat
        /\ \A i \in k..last : f[i] \in Nat
    OBVIOUS
  <1>3. SumOf(f, 0..k) \in Nat
    BY <1>1, <1>2, SumType
  <1>4. SumOf(f, (k + 1)..last) \in Nat
    BY <1>1, <1>2, SumType
  <1>5. SumOf(f, 0..(k - 1)) \in Nat
    BY <1>1, <1>2, SumType
  <1>6. SumOf(f, k..last) \in Nat
    BY <1>1, <1>2, SumType
  <1> QED
    BY <1>3, <1>4, <1>5, <1>6

\* The sum from 0 is the first value and the sum from 1.
LEMMA SumFromZero ==
    ASSUME NEW last \in Nat, NEW f \in [0..last -> Nat], NEW b \in 0..last
    PROVE  SumOf(f, 0..b) = f[0] + SumOf(f, 1..b)
  <1>1. PICK W : W = 0..b
    OBVIOUS
  <1>2. IsFiniteSet(W)
    BY <1>1, FS_Interval
  <1>3. 0 \in W /\ W \ {0} = 1..b /\ \A i \in W : f[i] \in Nat
    BY <1>1
  <1>4. SumOf(f, W) = f[0] + SumOf(f, W \ {0})
    BY <1>2, <1>3, SumWithout
  <1> QED
    BY <1>1, <1>3, <1>4

=============================================================================
