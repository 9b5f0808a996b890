----------------------------- MODULE FoldTheorems -----------------------------
(***************************************************************************)
(* Facts about finite sets of numbers, sums over finite sets and folds, all *)
(* by the least counterexample.                                             *)
(***************************************************************************)
EXTENDS Integers, SequencesExt, FiniteSetTheorems, WellFoundedInduction, TLAPS

-----------------------------------------------------------------------------
(* Sums over finite sets, by the least counterexample *)

\* A set of numbers has a least one.
LEMMA Least ==
  ASSUME NEW set \in SUBSET Nat, set # {} PROVE \E n \in set : \A m \in set : n <= m
<1>1. PICK n \in set : \A m \in set : ~(<<m, n>> \in OpToRel(<, Nat))
  BY NatLessThanWellFounded, WFMin
<1>2. \A m \in set : ~(m < n)
  BY <1>1 DEF OpToRel
<1> QED
  BY <1>2

\* The element a fold over a set takes next.
Pick(set) == CHOOSE x \in set : TRUE

LEMMA PickIsThere == ASSUME NEW set, set # {} PROVE Pick(set) \in set
  BY DEF Pick

IsSum(g, f, D) ==
  g = [s \in SUBSET D |-> IF s = {} THEN 0 ELSE f[Pick(s)] + g[s \ {Pick(s)}]]

LEMMA SumUnfold ==
  ASSUME NEW f, NEW D PROVE SumFunctionOnSet(f, D) = (CHOOSE g : IsSum(g, f, D))[D]
  BY Zenon DEF SumFunctionOnSet, FoldFunctionOnSet, MapThenFoldSet, IsSum, Pick

\* What is left of a set has one element less.
LEMMA RestIsSmaller ==
  ASSUME NEW D, IsFiniteSet(D), NEW s \in SUBSET D, NEW x \in s
  PROVE  /\ s \ {x} \in SUBSET D
         /\ Cardinality(s) \in Nat /\ Cardinality(s \ {x}) \in Nat
         /\ Cardinality(s \ {x}) = Cardinality(s) - 1
<1>1. IsFiniteSet(s)
  BY FS_Subset
<1>2. IsFiniteSet(s \ {x}) /\ Cardinality(s \ {x}) = Cardinality(s) - 1
  BY <1>1, FS_RemoveElement
<1> QED
  BY <1>1, <1>2, FS_CardinalityType

\* The definition of the sum has a solution: the sums of the sets of at most n
\* elements give those of the sets of at most n + 1.
LEMMA SumExists ==
  ASSUME NEW D, IsFiniteSet(D), NEW f PROVE \E g : IsSum(g, f, D)
<1> DEFINE Small(n) == {s \in SUBSET D : Cardinality(s) <= n}
           Term(g, s) == IF s = {} THEN 0 ELSE f[Pick(s)] + g[s \ {Pick(s)}]
           IsPart(g, n) == g = [s \in Small(n) |-> Term(g, s)]
           bad == {n \in Nat : \A g : ~IsPart(g, n)}
<1>1. \A s \in SUBSET D : Cardinality(s) \in Nat /\ IsFiniteSet(s)
  BY FS_Subset, FS_CardinalityType
<1>2. ASSUME bad # {} PROVE FALSE
  <2>1. PICK n \in bad : \A m \in bad : n <= m
    BY <1>2, Least
  <2>2. n \in Nat /\ \A g : ~IsPart(g, n)
    BY <2>1
  <2>3. CASE n = 0
    <3> DEFINE g == [s \in Small(0) |-> 0]
    <3>1. \A s \in Small(0) : s = {}
      BY <1>1, FS_EmptySet
    <3>2. IsPart(g, 0)
      BY <3>1
    <3> QED
      BY <2>2, <2>3, <3>2
  <2>4. CASE n # 0
    <3>1. n - 1 \in Nat /\ n - 1 \notin bad
      <4> HIDE DEF bad
      <4>1. n - 1 \in Nat /\ ~(n <= n - 1)
        BY <2>2, <2>4
      <4> QED
        BY <2>1, <4>1
    <3>2. PICK g : IsPart(g, n - 1)
      BY <3>1
    <3> DEFINE h == [s \in Small(n) |-> Term(g, s)]
    <3>3. Small(n - 1) \subseteq Small(n)
      BY <1>1, <2>2
    <3>4. \A s \in Small(n - 1) : h[s] = g[s]
      <4> HIDE DEF Term, Small
      <4> QED
        BY <3>2, <3>3
    <3>5. \A s \in Small(n) : s # {} => s \ {Pick(s)} \in Small(n - 1)
      BY <1>1, <2>2, PickIsThere, RestIsSmaller
    <3>6. \A s \in Small(n) : Term(g, s) = Term(h, s)
      <4> HIDE DEF Small, h
      <4> QED
        BY <3>4, <3>5
    <3>7. IsPart(h, n)
      <4> HIDE DEF Small, Term
      <4> QED
        BY <3>6
    <3> QED
      BY <2>2, <3>7
  <2> QED
    BY <2>3, <2>4
<1>3. Cardinality(D) \in Nat /\ Cardinality(D) \notin bad
  BY <1>1, <1>2
<1>4. PICK g : IsPart(g, Cardinality(D))
  BY <1>3
<1>5. Small(Cardinality(D)) = SUBSET D
  BY FS_Subset
<1>6. IsSum(g, f, D)
  <2> HIDE DEF Small
  <2> QED
    BY <1>4, <1>5 DEF IsSum
<1> QED
  BY <1>6

LEMMA SumUnique ==
  ASSUME NEW D, IsFiniteSet(D), NEW S \in SUBSET D, NEW f, NEW g, NEW h,
         IsSum(g, f, D), IsSum(h, f, S), NEW t \in SUBSET S
  PROVE  g[t] = h[t]
<1> DEFINE differ == {s \in SUBSET S : g[s] # h[s]}
           bad == {Cardinality(s) : s \in differ}
<1>1. \A s \in SUBSET S : Cardinality(s) \in Nat
  BY FS_Subset, FS_CardinalityType
<1>2. ASSUME differ # {} PROVE FALSE
  <2>1. bad \subseteq Nat /\ bad # {}
    BY <1>1, <1>2
  <2>2. PICK n \in bad : \A m \in bad : n <= m
    BY <2>1, Least
  <2>3. PICK s \in differ : n = Cardinality(s)
    BY <2>2
  <2>4. /\ g[s] = IF s = {} THEN 0 ELSE f[Pick(s)] + g[s \ {Pick(s)}]
        /\ h[s] = IF s = {} THEN 0 ELSE f[Pick(s)] + h[s \ {Pick(s)}]
    BY <2>3 DEF IsSum
  <2>5. s # {}
    BY <2>3, <2>4
  <2>6. s \ {Pick(s)} \notin differ
    <3>1. /\ Pick(s) \in s /\ Cardinality(s) \in Nat /\ Cardinality(s \ {Pick(s)}) \in Nat
          /\ Cardinality(s \ {Pick(s)}) = Cardinality(s) - 1
      BY <2>3, <2>5, PickIsThere, RestIsSmaller
    <3> QED
      BY <2>2, <2>3, <3>1
  <2>7. g[s \ {Pick(s)}] = h[s \ {Pick(s)}]
    BY <2>3, <2>6
  <2> QED
    BY <2>3, <2>4, <2>5, <2>7
<1> QED
  BY <1>2

\* The equations of the sum.
LEMMA SumEquations ==
  ASSUME NEW D, IsFiniteSet(D), NEW f
  PROVE  /\ SumFunctionOnSet(f, {}) = 0
         /\ D # {} => SumFunctionOnSet(f, D)
                        = f[Pick(D)] + SumFunctionOnSet(f, D \ {Pick(D)})
<1> DEFINE Sum(s) == CHOOSE g : IsSum(g, f, s)
<1>1. \A s \in SUBSET D : IsFiniteSet(s)
  BY FS_Subset
<1>2. \A s \in SUBSET D : IsSum(Sum(s), f, s)
  BY <1>1, SumExists
<1>3. \A s \in SUBSET D : SumFunctionOnSet(f, s) = Sum(s)[s]
  BY SumUnfold
<1>4. SumFunctionOnSet(f, {}) = 0
  <2>1. IsSum(Sum({}), f, {})
    BY <1>2
  <2>2. Sum({})[{}] = 0
    <3> HIDE DEF Sum
    <3> QED
      BY <2>1 DEF IsSum
  <2> QED
    BY <1>3, <2>2
<1>5. ASSUME D # {}
      PROVE  SumFunctionOnSet(f, D) = f[Pick(D)] + SumFunctionOnSet(f, D \ {Pick(D)})
  <2> DEFINE rest == D \ {Pick(D)}
  <2>1. rest \in SUBSET D
    OBVIOUS
  <2>2. IsSum(Sum(D), f, D) /\ IsSum(Sum(rest), f, rest)
    BY <1>2, <2>1
  <2>3. Sum(D)[rest] = Sum(rest)[rest]
    <3> HIDE DEF Sum, rest
    <3> QED
      BY <2>1, <2>2, SumUnique
  <2>4. Sum(D)[D] = f[Pick(D)] + Sum(D)[rest]
    <3> HIDE DEF Sum
    <3> QED
      BY <1>5, <2>2 DEF IsSum
  <2> HIDE DEF Sum
  <2> QED
    BY <1>3, <2>1, <2>3, <2>4
<1> QED
  BY <1>4, <1>5

\* The sums of numbers are numbers.
LEMMA SumNat ==
  ASSUME NEW D, IsFiniteSet(D), NEW f, \A i \in D : f[i] \in Nat
  PROVE  SumFunctionOnSet(f, D) \in Nat
<1> DEFINE others == {s \in SUBSET D : SumFunctionOnSet(f, s) \notin Nat}
           bad == {Cardinality(s) : s \in others}
<1>1. \A s \in SUBSET D : Cardinality(s) \in Nat /\ IsFiniteSet(s)
  BY FS_Subset, FS_CardinalityType
<1>2. ASSUME others # {} PROVE FALSE
  <2>1. bad \subseteq Nat /\ bad # {}
    BY <1>1, <1>2
  <2>2. PICK n \in bad : \A m \in bad : n <= m
    BY <2>1, Least
  <2>3. PICK s \in others : n = Cardinality(s)
    BY <2>2
  <2>4. IsFiniteSet(s) /\ s \in SUBSET D
    BY <1>1, <2>3
  <2>5. s # {}
    <3>1. SumFunctionOnSet(f, {}) = 0
      BY <2>4, SumEquations
    <3> QED
      BY <2>3, <3>1
  <2>6. /\ Pick(s) \in s /\ Cardinality(s) \in Nat /\ Cardinality(s \ {Pick(s)}) \in Nat
        /\ Cardinality(s \ {Pick(s)}) = Cardinality(s) - 1 /\ s \ {Pick(s)} \in SUBSET D
    BY <2>4, <2>5, PickIsThere, RestIsSmaller
  <2>7. s \ {Pick(s)} \notin others
    BY <2>2, <2>3, <2>6
  <2>8. SumFunctionOnSet(f, s) = f[Pick(s)] + SumFunctionOnSet(f, s \ {Pick(s)})
    BY <2>4, <2>5, SumEquations
  <2>9. f[Pick(s)] \in Nat /\ SumFunctionOnSet(f, s \ {Pick(s)}) \in Nat
    BY <2>4, <2>6, <2>7
  <2> QED
    BY <2>3, <2>8, <2>9
<1> QED
  BY <1>2

\* A sum over the same numbers is the same.
LEMMA SumSame ==
  ASSUME NEW D, IsFiniteSet(D), NEW f, NEW h, \A i \in D : f[i] = h[i]
  PROVE  SumFunctionOnSet(f, D) = SumFunctionOnSet(h, D)
<1> DEFINE others == {s \in SUBSET D : SumFunctionOnSet(f, s) # SumFunctionOnSet(h, s)}
           bad == {Cardinality(s) : s \in others}
<1>1. \A s \in SUBSET D : Cardinality(s) \in Nat /\ IsFiniteSet(s)
  BY FS_Subset, FS_CardinalityType
<1>2. ASSUME others # {} PROVE FALSE
  <2>1. bad \subseteq Nat /\ bad # {}
    BY <1>1, <1>2
  <2>2. PICK n \in bad : \A m \in bad : n <= m
    BY <2>1, Least
  <2>3. PICK s \in others : n = Cardinality(s)
    BY <2>2
  <2>4. IsFiniteSet(s) /\ s \in SUBSET D
    BY <1>1, <2>3
  <2>5. s # {}
    BY <2>3, <2>4, SumEquations
  <2>6. /\ Pick(s) \in s /\ Cardinality(s) \in Nat /\ Cardinality(s \ {Pick(s)}) \in Nat
        /\ Cardinality(s \ {Pick(s)}) = Cardinality(s) - 1 /\ s \ {Pick(s)} \in SUBSET D
    BY <2>4, <2>5, PickIsThere, RestIsSmaller
  <2>7. s \ {Pick(s)} \notin others
    BY <2>2, <2>3, <2>6
  <2>8. /\ SumFunctionOnSet(f, s) = f[Pick(s)] + SumFunctionOnSet(f, s \ {Pick(s)})
        /\ SumFunctionOnSet(h, s) = h[Pick(s)] + SumFunctionOnSet(h, s \ {Pick(s)})
    BY <2>4, <2>5, SumEquations
  <2>9. f[Pick(s)] = h[Pick(s)]
        /\ SumFunctionOnSet(f, s \ {Pick(s)}) = SumFunctionOnSet(h, s \ {Pick(s)})
    BY <2>4, <2>6, <2>7
  <2> QED
    BY <2>3, <2>8, <2>9
<1> QED
  BY <1>2

\* Any element can be taken out of a sum, not only the one the fold takes first.
LEMMA SumWithout ==
  ASSUME NEW D, IsFiniteSet(D), NEW f, \A i \in D : f[i] \in Nat, NEW x \in D
  PROVE  SumFunctionOnSet(f, D) = f[x] + SumFunctionOnSet(f, D \ {x})
<1> DEFINE Sum(s) == SumFunctionOnSet(f, s)
           others == {s \in SUBSET D : \E y \in s : Sum(s) # f[y] + Sum(s \ {y})}
           bad == {Cardinality(s) : s \in others}
<1>1. \A s \in SUBSET D : Cardinality(s) \in Nat /\ IsFiniteSet(s)
  BY FS_Subset, FS_CardinalityType
<1>2. ASSUME others # {} PROVE FALSE
  <2>1. bad \subseteq Nat /\ bad # {}
    BY <1>1, <1>2
  <2>2. PICK n \in bad : \A m \in bad : n <= m
    BY <2>1, Least
  <2>3. PICK s \in others : n = Cardinality(s)
    BY <2>2
  <2>4. PICK y \in s : Sum(s) # f[y] + Sum(s \ {y})
    BY <2>3
  <2>5. PICK first \in s : first = Pick(s)
    BY <2>4, PickIsThere
  <2>6. Sum(s) = f[first] + Sum(s \ {first})
    BY <1>1, <2>3, <2>5, SumEquations
  <2>7. y # first
    BY <2>4, <2>6
  <2>8. \A z \in s : s \ {z} \in SUBSET D /\ s \ {z} \notin others
    <3>1. ASSUME NEW z \in s PROVE s \ {z} \in SUBSET D /\ s \ {z} \notin others
      <4>1. /\ Cardinality(s) \in Nat /\ Cardinality(s \ {z}) \in Nat
            /\ Cardinality(s \ {z}) = Cardinality(s) - 1 /\ s \ {z} \in SUBSET D
        BY <2>3, RestIsSmaller
      <4> HIDE DEF others
      <4> QED
        BY <2>2, <2>3, <4>1
    <3> QED
      BY <3>1
  <2>9. Sum(s \ {first}) = f[y] + Sum((s \ {first}) \ {y})
    <3>1. s \ {first} \in SUBSET D /\ s \ {first} \notin others /\ y \in s \ {first}
      BY <2>7, <2>8
    <3> HIDE DEF Sum
    <3> QED
      BY <3>1
  <2>10. Sum(s \ {y}) = f[first] + Sum((s \ {y}) \ {first})
    <3>1. s \ {y} \in SUBSET D /\ s \ {y} \notin others /\ first \in s \ {y}
      BY <2>7, <2>8
    <3> HIDE DEF Sum
    <3> QED
      BY <3>1
  <2>11. (s \ {y}) \ {first} = (s \ {first}) \ {y}
    OBVIOUS
  <2>12. /\ f[y] \in Nat /\ f[first] \in Nat
         /\ Sum((s \ {first}) \ {y}) \in Nat
    BY <1>1, <2>3, SumNat
  <2> HIDE DEF Sum
  <2> QED
    BY <2>4, <2>6, <2>9, <2>10, <2>11, <2>12
<1> QED
  BY <1>2

\* The sum over two sets that have nothing in common.
LEMMA SumOfBoth ==
  ASSUME NEW D, IsFiniteSet(D), NEW f, \A i \in D : f[i] \in Nat,
         NEW A \in SUBSET D, NEW B \in SUBSET D, A \cap B = {}
  PROVE  SumFunctionOnSet(f, A \cup B) = SumFunctionOnSet(f, A) + SumFunctionOnSet(f, B)
<1> DEFINE Sum(s) == SumFunctionOnSet(f, s)
           others == {s \in SUBSET A : Sum(s \cup B) # Sum(s) + Sum(B)}
           bad == {Cardinality(s) : s \in others}
<1>1. \A s \in SUBSET D : Cardinality(s) \in Nat /\ IsFiniteSet(s) /\ Sum(s) \in Nat
  BY FS_Subset, FS_CardinalityType, SumNat
<1>2. ASSUME others # {} PROVE FALSE
  <2>1. bad \subseteq Nat /\ bad # {}
    BY <1>1, <1>2
  <2>2. PICK n \in bad : \A m \in bad : n <= m
    BY <2>1, Least
  <2>3. PICK s \in others : n = Cardinality(s)
    BY <2>2
  <2>4. s \in SUBSET D /\ Sum(s) \in Nat /\ Sum(B) \in Nat
    BY <1>1, <2>3
  <2>5. ASSUME s = {} PROVE FALSE
    <3>1. Sum({}) = 0
      BY <1>1, SumEquations
    <3>2. s \cup B = B
      BY <2>5
    <3> HIDE DEF Sum
    <3> QED
      BY <2>3, <2>4, <2>5, <3>1, <3>2
  <2>6. PICK x \in s : TRUE
    BY <2>5
  <2>7. Sum(s) = f[x] + Sum(s \ {x})
    BY <1>1, <2>4, SumWithout
  <2>8. Sum(s \cup B) = f[x] + Sum((s \cup B) \ {x})
    <3>1. s \cup B \in SUBSET D /\ x \in s \cup B
      BY <2>4
    <3> QED
      BY <1>1, <3>1, SumWithout
  <2>9. (s \cup B) \ {x} = (s \ {x}) \cup B
    BY <2>3
  <2>10. Sum((s \ {x}) \cup B) = Sum(s \ {x}) + Sum(B)
    <3>1. /\ Cardinality(s) \in Nat /\ Cardinality(s \ {x}) \in Nat
          /\ Cardinality(s \ {x}) = Cardinality(s) - 1 /\ s \ {x} \in SUBSET D
      BY <2>4, RestIsSmaller
    <3>2. s \ {x} \notin others
      <4>1. s \ {x} \in others => Cardinality(s \ {x}) \in bad
        OBVIOUS
      <4> HIDE DEF others, bad
      <4> QED
        BY <2>2, <2>3, <3>1, <4>1
    <3> HIDE DEF Sum
    <3> QED
      BY <2>3, <3>2
  <2>11. f[x] \in Nat /\ Sum(s \ {x}) \in Nat
    BY <1>1, <2>4
  <2>12. Sum(s \cup B) # Sum(s) + Sum(B)
    BY <2>3
  <2>13. Sum(s \cup B) = f[x] + (Sum(s \ {x}) + Sum(B))
    BY <2>8, <2>9, <2>10
  <2> HIDE DEF Sum
  <2> QED
    BY <2>4, <2>7, <2>11, <2>12, <2>13
<1> QED
  BY <1>2

\* A part of a set has no more than the whole.
LEMMA SumOfPart ==
  ASSUME NEW D, IsFiniteSet(D), NEW f, \A i \in D : f[i] \in Nat, NEW A \in SUBSET D
  PROVE  SumFunctionOnSet(f, A) <= SumFunctionOnSet(f, D)
<1>1. /\ SumFunctionOnSet(f, A) \in Nat /\ SumFunctionOnSet(f, D \ A) \in Nat
  BY FS_Subset, SumNat
<1>2. A \cup (D \ A) = D
  OBVIOUS
<1>3. SumFunctionOnSet(f, D) = SumFunctionOnSet(f, A) + SumFunctionOnSet(f, D \ A)
  BY <1>2, SumOfBoth
<1> QED
  BY <1>1, <1>3

-----------------------------------------------------------------------------
(* Folds *)

\* A set of numbers up to n has a greatest one, and Max finds it.
LEMMA MaxOfFinite ==
  ASSUME NEW n \in Nat, NEW set \in SUBSET (0..n), set # {}
  PROVE  Max(set) \in set /\ \A y \in set : Max(set) >= y
<1> DEFINE gaps == {n - x : x \in set}
<1>1. gaps \subseteq Nat /\ gaps # {}
  OBVIOUS
<1>2. PICK g \in gaps : \A h \in gaps : g <= h
  <2> HIDE DEF gaps
  <2> QED
    BY <1>1, Least
<1>3. PICK x \in set : g = n - x
  BY <1>2
<1>4. \A y \in set : x >= y
  <2> SUFFICES ASSUME NEW y \in set PROVE x >= y
    OBVIOUS
  <2>1. n - x <= n - y /\ x \in Int /\ y \in Int
    BY <1>2, <1>3
  <2> QED
    BY <2>1
<1> QED
  BY <1>4 DEF Max

LEMMA MinOfFinite ==
  ASSUME NEW set \in SUBSET Nat, set # {}
  PROVE  Min(set) \in set /\ \A y \in set : Min(set) <= y
<1>1. PICK x \in set : \A y \in set : x <= y
  BY Least
<1> QED
  BY <1>1 DEF Min

\* pick says which element of a set comes next.
Picks(pick, D) == \A s \in SUBSET D : s # {} => pick[s] \in s

IsFold(g, D, base, pick, step) ==
  \A s \in SUBSET D : g[s] = IF s = {} THEN base ELSE step[pick[s]][g[s \ {pick[s]}]]

\* The equation of a fold over a set whose elements are taken in any order has a
\* solution, of the type of what is folded.
LEMMA FoldExists ==
  ASSUME NEW D, IsFiniteSet(D), NEW V, NEW base \in V,
         NEW pick, Picks(pick, D),
         NEW step, \A x \in D : \A v \in V : step[x][v] \in V
  PROVE  \E g \in [SUBSET D -> V] : IsFold(g, D, base, pick, step)
<1> DEFINE Small(n) == {s \in SUBSET D : Cardinality(s) <= n}
           Term(g, s) == IF s = {} THEN base ELSE step[pick[s]][g[s \ {pick[s]}]]
           IsPart(g, n) == g \in [Small(n) -> V] /\ \A s \in Small(n) : g[s] = Term(g, s)
           bad == {n \in Nat : \A g : ~IsPart(g, n)}
<1>1. \A s \in SUBSET D : Cardinality(s) \in Nat /\ IsFiniteSet(s)
  BY FS_Subset, FS_CardinalityType
<1>2. ASSUME bad # {} PROVE FALSE
  <2>1. PICK n \in bad : \A m \in bad : n <= m
    BY <1>2, Least
  <2>2. n \in Nat /\ \A g : ~IsPart(g, n)
    BY <2>1
  <2>3. CASE n = 0
    <3> DEFINE g == [s \in Small(0) |-> base]
    <3>1. \A s \in Small(0) : s = {}
      BY <1>1, FS_EmptySet
    <3>2. IsPart(g, 0)
      BY <3>1
    <3> QED
      BY <2>2, <2>3, <3>2
  <2>4. CASE n # 0
    <3>1. n - 1 \in Nat /\ n - 1 \notin bad
      <4> HIDE DEF bad
      <4>1. n - 1 \in Nat /\ ~(n <= n - 1)
        BY <2>2, <2>4
      <4> QED
        BY <2>1, <4>1
    <3>2. PICK g : IsPart(g, n - 1)
      BY <3>1
    <3> DEFINE h == [s \in Small(n) |-> Term(g, s)]
    <3>3. Small(n - 1) \subseteq Small(n)
      BY <1>1, <2>2
    <3>4. \A s \in Small(n - 1) : h[s] = g[s]
      <4> HIDE DEF Term, Small
      <4> QED
        BY <3>2, <3>3
    <3>5. \A s \in Small(n) : s # {} => s \ {pick[s]} \in Small(n - 1)
      BY <1>1, <2>2, RestIsSmaller DEF Picks
    <3>6. \A s \in Small(n) : Term(g, s) = Term(h, s)
      <4> HIDE DEF Small, h
      <4> QED
        BY <3>4, <3>5
    <3>7. \A s \in Small(n) : Term(g, s) \in V
      <4>1. \A s \in Small(n) : s # {} => g[s \ {pick[s]}] \in V /\ pick[s] \in D
        BY <3>2, <3>5 DEF Picks
      <4> QED
        BY <4>1
    <3>8. IsPart(h, n)
      <4> HIDE DEF Small, Term
      <4> QED
        BY <3>6, <3>7
    <3> QED
      BY <2>2, <3>8
  <2> QED
    BY <2>3, <2>4
<1>3. Cardinality(D) \in Nat /\ Cardinality(D) \notin bad
  BY <1>1, <1>2
<1>4. PICK g : IsPart(g, Cardinality(D))
  BY <1>3
<1>5. Small(Cardinality(D)) = SUBSET D
  BY FS_Subset
<1> QED
  <2> HIDE DEF Small
  <2> QED
    BY <1>4, <1>5 DEF IsFold

\* Sets that can be built up by the elements pick takes.
Grows(good, D, pick) ==
  /\ {} \in good
  /\ \A s \in SUBSET D : s # {} /\ s \ {pick[s]} \in good => s \in good

\* What holds of the empty set and of a set when it holds of what pick leaves of it
\* holds of every finite set.
LEMMA SubsetInduction ==
  ASSUME NEW D, IsFiniteSet(D), NEW pick, Picks(pick, D), NEW good, Grows(good, D, pick)
  PROVE  SUBSET D \subseteq good
<1> DEFINE others == (SUBSET D) \ good
           bad == {Cardinality(s) : s \in others}
<1>1. \A s \in SUBSET D : Cardinality(s) \in Nat
  BY FS_Subset, FS_CardinalityType
<1>2. \A s \in SUBSET D : s # {} =>
         /\ pick[s] \in s /\ Cardinality(s) \in Nat /\ Cardinality(s \ {pick[s]}) \in Nat
         /\ Cardinality(s \ {pick[s]}) = Cardinality(s) - 1 /\ s \ {pick[s]} \in SUBSET D
  <2> SUFFICES ASSUME NEW s \in SUBSET D, s # {}
               PROVE  /\ pick[s] \in s /\ Cardinality(s) \in Nat
                      /\ Cardinality(s \ {pick[s]}) \in Nat
                      /\ Cardinality(s \ {pick[s]}) = Cardinality(s) - 1
                      /\ s \ {pick[s]} \in SUBSET D
    OBVIOUS
  <2>1. PICK x \in s : x = pick[s]
    BY DEF Picks
  <2>2. /\ s \ {x} \in SUBSET D /\ Cardinality(s) \in Nat /\ Cardinality(s \ {x}) \in Nat
        /\ Cardinality(s \ {x}) = Cardinality(s) - 1
    BY RestIsSmaller
  <2> QED
    BY <2>1, <2>2
<1>3. ASSUME others # {} PROVE FALSE
  <2>1. bad \subseteq Nat /\ bad # {}
    BY <1>1, <1>3
  <2>2. PICK n \in bad : \A m \in bad : n <= m
    BY <2>1, Least
  <2>3. PICK s \in others : n = Cardinality(s)
    BY <2>2
  <2>4. /\ pick[s] \in s /\ Cardinality(s) \in Nat /\ Cardinality(s \ {pick[s]}) \in Nat
        /\ Cardinality(s \ {pick[s]}) = Cardinality(s) - 1 /\ s \ {pick[s]} \in SUBSET D
    <3>1. s \in SUBSET D /\ s # {}
      BY <2>3 DEF Grows
    <3> HIDE DEF others, bad
    <3> QED
      BY <1>2, <3>1
  <2>5. s \ {pick[s]} \notin others
    BY <2>2, <2>3, <2>4
  <2> QED
    BY <2>3, <2>4, <2>5 DEF Grows
<1> QED
  BY <1>3

\* FoldLeft takes the elements of a sequence from the last backwards.
Hindmost(s) == [part \in SUBSET DOMAIN s |-> Max(part)]

LEMMA LastPicks ==
  ASSUME NEW S, NEW s \in Seq(S)
  PROVE  /\ IsFiniteSet(DOMAIN s) /\ Cardinality(DOMAIN s) = Len(s)
         /\ DOMAIN s = 1..Len(s) /\ Len(s) \in Nat
         /\ Picks(Hindmost(s), DOMAIN s)
         /\ \A part \in SUBSET DOMAIN s : part # {} => Max(part) \in part
<1>1. DOMAIN s = 1..Len(s) /\ Len(s) \in Nat
  OBVIOUS
<1>2. IsFiniteSet(1..Len(s)) /\ Cardinality(1..Len(s)) = Len(s)
  BY <1>1, FS_Interval
<1>3. ASSUME NEW part \in SUBSET DOMAIN s, part # {} PROVE Max(part) \in part
  <2>1. part \in SUBSET (0..Len(s))
    BY <1>1
  <2> QED
    BY <1>1, <1>3, <2>1, MaxOfFinite
<1> QED
  BY <1>1, <1>2, <1>3 DEF Picks, Hindmost
=============================================================================
