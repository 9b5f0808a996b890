---------------------------- MODULE RagChain_proofs ----------------------------
(***************************************************************************)
(* Lemmas about the operators of RagChain and about the steps of the chain  *)
(* and its writer, for every ranking, answer of the reranker and piece of   *)
(* the model: types, and what the context builder shows the model.          *)
(***************************************************************************)
EXTENDS RagChain, FoldTheorems

-----------------------------------------------------------------------------
(* Recall *)

LEMMA ProductUnfold ==
  ASSUME NEW D
  PROVE  ProductSet(D)
           = (CHOOSE g : g = [s \in SUBSET D |-> IF s = {} THEN 1
                                                 ELSE Pick(s) * g[s \ {Pick(s)}]])[D]
  BY Zenon DEF ProductSet, FoldSet, MapThenFoldSet, Pick

\* The product of numbers is a number.
LEMMA ProductNat ==
  ASSUME NEW D \in SUBSET Nat, IsFiniteSet(D) PROVE ProductSet(D) \in Nat
<1> DEFINE IsProduct(g) == g = [s \in SUBSET D |-> IF s = {} THEN 1
                                                   ELSE Pick(s) * g[s \ {Pick(s)}]]
           pick == [s \in SUBSET D |-> Pick(s)]
           step == [x \in D |-> [v \in Nat |-> x * v]]
<1>1. Picks(pick, D)
  BY PickIsThere DEF Picks
<1>2. \A x \in D : \A v \in Nat : step[x][v] \in Nat
  OBVIOUS
<1>3. PICK h \in [SUBSET D -> Nat] : IsFold(h, D, 1, pick, step)
  <2> HIDE DEF step, pick
  <2> QED
    BY <1>1, <1>2, FoldExists
<1>4. IsProduct(h)
  <2>1. \A s \in SUBSET D : s # {} =>
          /\ pick[s] = Pick(s) /\ Pick(s) \in D
          /\ h[s \ {Pick(s)}] \in Nat
          /\ step[Pick(s)][h[s \ {Pick(s)}]] = Pick(s) * h[s \ {Pick(s)}]
    BY PickIsThere
  <2> HIDE DEF step, pick
  <2> QED
    BY <1>3, <2>1 DEF IsFold
<1> DEFINE g == CHOOSE f : IsProduct(f)
<1>5. IsProduct(g)
  <2> HIDE DEF IsProduct
  <2> QED
    BY <1>4
<1>6. ProductSet(D) = g[D]
  BY ProductUnfold
<1> HIDE DEF g
<1> DEFINE good == {s \in SUBSET D : g[s] \in Nat}
<1>7. Grows(good, D, pick)
  <2>1. {} \in good
    BY <1>5
  <2>2. ASSUME NEW s \in SUBSET D, s # {}, s \ {pick[s]} \in good PROVE g[s] \in Nat
    <3>1. Pick(s) \in Nat /\ g[s \ {Pick(s)}] \in Nat
      BY <2>2, PickIsThere
    <3>2. g[s] = Pick(s) * g[s \ {Pick(s)}]
      BY <1>5, <2>2
    <3> QED
      BY <3>1, <3>2
  <2> QED
    BY <2>1, <2>2 DEF Grows
<1>8. SUBSET D \subseteq good
  <2> HIDE DEF good, pick
  <2> QED
    BY <1>1, <1>7, SubsetInduction
<1> QED
  BY <1>6, <1>8

LEMMA ContributionNat ==
  ASSUME NEW k \in {TopK, BM25TopK}, NEW i \in 1..k PROVE Contribution[i] \in Nat
<1> DEFINE Ranks == 1..(IF TopK > BM25TopK THEN TopK ELSE BM25TopK)
           factors == {RRFK + j : j \in Ranks \ {i}}
           top == RRFK + (IF TopK > BM25TopK THEN TopK ELSE BM25TopK)
<1>1. TopK \in Nat /\ BM25TopK \in Nat /\ RRFK \in Nat
  BY ChainAssumption
<1>2. i \in Ranks
  BY <1>1
<1>3. factors \subseteq 0..top
  BY <1>1
<1>4. factors \in SUBSET Nat /\ IsFiniteSet(factors)
  <2>1. 0 \in Int /\ top \in Int
    BY <1>1
  <2>2. IsFiniteSet(0..top)
    BY <2>1, FS_Interval
  <2>3. IsFiniteSet(factors)
    BY <1>3, <2>2, FS_Subset
  <2>4. factors \subseteq Nat
    BY <1>1
  <2> HIDE DEF factors
  <2> QED
    BY <2>3, <2>4
<1>5. Contribution[i] = ProductSet(factors)
  BY <1>2 DEF Contribution
<1> QED
  BY <1>4, <1>5, ProductNat

Load(kept, h) == IF Parent[h.chunk] \in docs THEN Append(kept, h) ELSE kept

IsLoad(g, hits) ==
  g = [s \in SUBSET DOMAIN hits |->
        IF s = {} THEN << >> ELSE Load(g[s \ {Max(s)}], hits[Max(s)])]

LEMMA LoadedUnfold ==
  ASSUME NEW hits PROVE Loaded(hits) = (CHOOSE g : IsLoad(g, hits))[DOMAIN hits]
  BY Zenon DEF Loaded, FoldLeft, MapThenFoldSet, IsLoad, Load

LEMMA LoadExists == ASSUME NEW hits \in Seq(Hit) PROVE \E g : IsLoad(g, hits)
<1> DEFINE step == [i \in DOMAIN hits |-> [v \in Seq(Hit) |-> Load(v, hits[i])]]
<1>1. \A i \in DOMAIN hits : \A v \in Seq(Hit) : step[i][v] \in Seq(Hit)
  BY DEF Load
<1>2. PICK g \in [SUBSET DOMAIN hits -> Seq(Hit)] :
        IsFold(g, DOMAIN hits, << >>, Hindmost(hits), step)
  <2>1. << >> \in Seq(Hit)
    OBVIOUS
  <2>2. IsFiniteSet(DOMAIN hits) /\ Picks(Hindmost(hits), DOMAIN hits)
    BY LastPicks
  <2> HIDE DEF step
  <2> QED
    BY <1>1, <2>1, <2>2, FoldExists
<1>3. \A s \in SUBSET DOMAIN hits : s # {} =>
        /\ Hindmost(hits)[s] = Max(s) /\ Max(s) \in DOMAIN hits
        /\ g[s \ {Max(s)}] \in Seq(Hit)
        /\ step[Max(s)][g[s \ {Max(s)}]] = Load(g[s \ {Max(s)}], hits[Max(s)])
  BY LastPicks DEF Hindmost
<1>4. IsLoad(g, hits)
  <2> HIDE DEF step
  <2> QED
    BY <1>2, <1>3 DEF IsFold, IsLoad
<1> QED
  BY <1>4

\* What is left of a ranking is a ranking that is no longer.
LEMMA LoadedIsPart ==
  ASSUME NEW hits \in Seq(Hit)
  PROVE  Loaded(hits) \in Seq(Hit) /\ Len(Loaded(hits)) <= Len(hits)
<1> DEFINE g == CHOOSE f : IsLoad(f, hits)
<1>1. IsLoad(g, hits)
  BY LoadExists
<1>2. Loaded(hits) = g[DOMAIN hits]
  BY LoadedUnfold
<1> HIDE DEF g
<1> DEFINE good == {s \in SUBSET DOMAIN hits : /\ g[s] \in Seq(Hit)
                                               /\ Len(g[s]) <= Cardinality(s)}
<1>3. IsFiniteSet(DOMAIN hits) /\ Picks(Hindmost(hits), DOMAIN hits)
  BY LastPicks
<1>4. Grows(good, DOMAIN hits, Hindmost(hits))
  <2>1. {} \in good
    <3>1. g[{}] = << >>
      BY <1>1 DEF IsLoad
    <3>2. Cardinality({}) = 0 /\ << >> \in Seq(Hit) /\ Len(<< >>) = 0
      BY FS_EmptySet
    <3>3. g[{}] \in Seq(Hit) /\ Len(g[{}]) <= Cardinality({})
      BY <3>1, <3>2
    <3> QED
      BY <3>3
  <2>2. ASSUME NEW s \in SUBSET DOMAIN hits, s # {}, s \ {Hindmost(hits)[s]} \in good
        PROVE  s \in good
    <3>1. PICK i \in s : i = Max(s) /\ i = Hindmost(hits)[s]
      BY <2>2, LastPicks DEF Hindmost
    <3>2. /\ Cardinality(s) \in Nat /\ Cardinality(s \ {i}) \in Nat
          /\ Cardinality(s \ {i}) = Cardinality(s) - 1
      BY <1>3, RestIsSmaller
    <3>3. g[s] = Load(g[s \ {i}], hits[i])
      BY <1>1, <2>2, <3>1 DEF IsLoad
    <3>4. g[s \ {i}] \in Seq(Hit) /\ Len(g[s \ {i}]) <= Cardinality(s \ {i})
      BY <2>2, <3>1
    <3>5. hits[i] \in Hit
      BY <3>1
    <3>6. g[s] \in Seq(Hit) /\ Len(g[s]) <= Len(g[s \ {i}]) + 1
      BY <3>3, <3>4, <3>5 DEF Load
    <3> QED
      BY <3>2, <3>4, <3>6
  <2> HIDE DEF good
  <2> QED
    BY <2>1, <2>2 DEF Grows
<1>5. SUBSET DOMAIN hits \subseteq good
  <2> HIDE DEF good
  <2> QED
    BY <1>3, <1>4, SubsetInduction
<1> QED
  BY <1>2, <1>5, LastPicks

\* The ranks and scores of a chunk.
Ranked == [rrf : Nat, vector : Nat, bm25 : Nat]

LEMMA FusedTyped ==
  ASSUME NEW merged \in [Chunks -> Ranked], NEW k \in {TopK, BM25TopK},
         NEW ranking \in Rankings[k], NEW channel \in {"vector", "bm25"}
  PROVE  Fused(merged, Loaded(ranking), channel) \in [Chunks -> Ranked]
<1> DEFINE hits == Loaded(ranking)
<1>1. k \in Nat /\ TopK \in Nat /\ BM25TopK \in Nat
  BY ChainAssumption
<1>2. ranking \in Seq(Hit) /\ Len(ranking) <= k
  <2>1. ranking \in BoundedSeq([chunk : Chunks, score : Scores], k)
    BY DEF Rankings
  <2>2. PICK m \in 0..k : ranking \in [1..m -> [chunk : Chunks, score : Scores]]
    BY <2>1 DEF BoundedSeq, SeqOf
  <2>3. [chunk : Chunks, score : Scores] \subseteq Hit
    BY ChainAssumption DEF Hit
  <2> QED
    BY <1>1, <2>2, <2>3
<1>3. hits \in Seq(Hit) /\ Len(hits) <= k
  BY <1>1, <1>2, LoadedIsPart
<1> HIDE DEF hits
<1>4. ASSUME NEW c \in Chunks PROVE Fused(merged, hits, channel)[c] \in Ranked
  <2>1. merged[c] \in Ranked
    OBVIOUS
  <2>2. CASE \E i \in DOMAIN hits : hits[i].chunk = c
    <3> DEFINE first == CHOOSE j \in DOMAIN hits : hits[j].chunk = c
    <3>0. first \in DOMAIN hits
      BY <2>2
    <3>1. PICK i \in DOMAIN hits : i = first
      BY <3>0
    <3>2. i \in 1..k /\ hits[i].score \in Nat
      <4>1. i \in 1..Len(hits) /\ hits[i] \in Hit
        BY <1>3
      <4> QED
        BY <1>1, <1>3, <4>1 DEF Hit
    <3>3. Contribution[i] \in Nat
      BY <3>2, ContributionNat
    <3>4. Fused(merged, hits, channel)[c] =
            [merged[c] EXCEPT !.rrf = @ + Contribution[i],
                              ![channel] = IF hits[i].score > @ THEN hits[i].score ELSE @]
      BY <2>2, <3>1 DEF Fused
    <3>5. /\ merged[c].rrf + Contribution[i] \in Nat
          /\ (IF hits[i].score > merged[c][channel] THEN hits[i].score ELSE merged[c][channel])
               \in Nat
      BY <2>1, <3>2, <3>3 DEF Ranked
    <3> DEFINE n == merged[c].rrf + Contribution[i]
               m == IF hits[i].score > merged[c][channel] THEN hits[i].score
                    ELSE merged[c][channel]
    <3>6. Fused(merged, hits, channel)[c] = [merged[c] EXCEPT !.rrf = n, ![channel] = m]
      BY <2>1, <3>4 DEF Ranked
    <3> HIDE DEF n, m
    <3>7. n \in Nat /\ m \in Nat
      BY <3>5 DEF n, m
    <3>8. CASE channel = "vector"
      BY <2>1, <3>6, <3>7, <3>8 DEF Ranked
    <3>9. CASE channel = "bm25"
      BY <2>1, <3>6, <3>7, <3>9 DEF Ranked
    <3> QED
      BY <3>8, <3>9
  <2>3. CASE ~\E i \in DOMAIN hits : hits[i].chunk = c
    <3>1. Fused(merged, hits, channel)[c] = merged[c]
      BY <2>3 DEF Fused
    <3> QED
      BY <2>1, <3>1
  <2> QED
    BY <2>2, <2>3
<1> QED
  BY <1>4 DEF Fused, hits

-----------------------------------------------------------------------------
(* Rerank *)

\* Stable sorting by score is a permutation: ranks are counted from 1 and no two
\* elements have the same.
LEMMA StableTyped ==
  ASSUME NEW S, \A x \in S : x.score \in Nat, NEW s \in Seq(S)
  PROVE  StableByScore(s) \in Seq(S) /\ Len(StableByScore(s)) = Len(s)
<1> DEFINE D == DOMAIN s
           Before(j, i) == s[j].score > s[i].score \/ (s[j].score = s[i].score /\ j < i)
           Ahead(i) == {j \in D : Before(j, i)}
           Rank(i) == 1 + Cardinality(Ahead(i))
           rank == [i \in D |-> Rank(i)]
<1>1. D = 1..Len(s) /\ Len(s) \in Nat /\ IsFiniteSet(D) /\ Cardinality(D) = Len(s)
  BY LastPicks
<1>2. \A i \in D : s[i] \in S /\ s[i].score \in Nat /\ i \in Nat
  BY <1>1
<1>3. ASSUME NEW i \in D
      PROVE  /\ IsFiniteSet(Ahead(i)) /\ Cardinality(Ahead(i)) \in Nat
             /\ Rank(i) \in D
  <2>1. ~Before(i, i)
    BY <1>2
  <2>2. Ahead(i) \subseteq D \ {i}
    BY <2>1
  <2>3. IsFiniteSet(D \ {i}) /\ Cardinality(D \ {i}) = Len(s) - 1
    BY <1>1, FS_RemoveElement
  <2>4. /\ IsFiniteSet(Ahead(i)) /\ Cardinality(Ahead(i)) <= Len(s) - 1
        /\ Cardinality(Ahead(i)) \in Nat
    <3> HIDE DEF Ahead
    <3> QED
      BY <2>2, <2>3, FS_Subset, FS_CardinalityType
  <2> QED
    BY <1>1, <2>4
<1>4. ASSUME NEW i \in D, NEW j \in D, Before(j, i) PROVE Rank(j) < Rank(i)
  <2>1. Ahead(j) \cup {j} \subseteq Ahead(i) /\ j \notin Ahead(j)
    BY <1>2, <1>4
  <2>2. /\ IsFiniteSet(Ahead(j)) /\ IsFiniteSet(Ahead(i))
        /\ Cardinality(Ahead(j)) \in Nat /\ Cardinality(Ahead(i)) \in Nat
    BY <1>3
  <2>3. Cardinality(Ahead(j) \cup {j}) = Cardinality(Ahead(j)) + 1
    <3> HIDE DEF Ahead
    <3> QED
      BY <2>1, <2>2, FS_AddElement
  <2>4. Cardinality(Ahead(j) \cup {j}) <= Cardinality(Ahead(i))
    <3> HIDE DEF Ahead
    <3> QED
      BY <2>1, <2>2, FS_Subset
  <2> QED
    BY <2>2, <2>3, <2>4
<1>5. \A i, j \in D : i # j => Rank(i) # Rank(j)
  <2> SUFFICES ASSUME NEW i \in D, NEW j \in D, i # j PROVE Rank(i) # Rank(j)
    OBVIOUS
  <2>1. Before(i, j) \/ Before(j, i)
    <3>1. s[i].score \in Nat /\ s[j].score \in Nat /\ i \in Nat /\ j \in Nat
      BY <1>2
    <3> QED
      BY <3>1
  <2>2. Rank(i) \in Nat /\ Rank(j) \in Nat
    <3>1. Cardinality(Ahead(i)) \in Nat /\ Cardinality(Ahead(j)) \in Nat
      BY <1>3
    <3> HIDE DEF Ahead
    <3> QED
      BY <3>1
  <2>3. Rank(i) < Rank(j) \/ Rank(j) < Rank(i)
    <3> HIDE DEF Before, Rank
    <3> QED
      BY <1>4, <2>1
  <2> QED
    BY <2>2, <2>3
<1>6. rank \in Injection(D, D)
  <2>1. rank \in [D -> D]
    BY <1>3
  <2>2. \A i, j \in D : rank[i] = rank[j] => i = j
    BY <1>5
  <2> HIDE DEF rank
  <2> QED
    BY <2>1, <2>2 DEF Injection, IsInjective
<1>7. rank \in Surjection(D, D)
  BY <1>1, <1>6, FS_Injection
<1>8. \A r \in D : \E i \in D : Rank(i) = r
  BY <1>7 DEF Surjection
<1> DEFINE sorted == [r \in D |-> s[CHOOSE i \in D : Rank(i) = r]]
<1>9. StableByScore(s) = sorted
  BY DEF StableByScore
<1>10. ASSUME NEW r \in D PROVE sorted[r] \in S
  <2> DEFINE here == CHOOSE i \in D : Rank(i) = r
  <2>1. here \in D
    <3> HIDE DEF Rank
    <3> QED
      BY <1>8
  <2>2. sorted[r] = s[here]
    OBVIOUS
  <2> HIDE DEF here, sorted
  <2> QED
    BY <1>2, <2>1, <2>2
<1>11. sorted \in [1..Len(s) -> S]
  <2>1. sorted = [r \in D |-> sorted[r]]
    OBVIOUS
  <2> HIDE DEF sorted
  <2> QED
    BY <1>1, <1>10, <2>1
<1>12. sorted \in Seq(S) /\ Len(sorted) = Len(s)
  <2> HIDE DEF sorted
  <2> QED
    BY <1>1, <1>11
<1> QED
  BY <1>9, <1>12

Keep(items, n, kept, i) == IF Usable(items, i, n) THEN Append(kept, items[i]) ELSE kept

Indices(items) == [i \in DOMAIN items |-> i]

IsKeep(g, items, n) ==
  g = [s \in SUBSET DOMAIN Indices(items) |->
        IF s = {} THEN << >>
        ELSE Keep(items, n, g[s \ {Max(s)}], Indices(items)[Max(s)])]

LEMMA ValidUnfold ==
  ASSUME NEW items, NEW n
  PROVE  Valid(items, n) = (CHOOSE g : IsKeep(g, items, n))[DOMAIN Indices(items)]
  BY Zenon DEF Valid, FoldLeftDomain, FoldLeft, MapThenFoldSet, IsKeep, Keep, Indices

\* The items of a reranker's answer about n candidates.
Items(n) == [index : 1..(n + 1), score : Scores]

LEMMA KeepExists ==
  ASSUME NEW n \in Nat, NEW items \in Seq(Items(n)) PROVE \E g : IsKeep(g, items, n)
<1> DEFINE V == Seq(Items(n))
           step == [i \in DOMAIN items |-> [v \in V |-> Keep(items, n, v, i)]]
<1>1. \A i \in DOMAIN items : \A v \in V : step[i][v] \in V
  BY DEF Keep
<1>2. PICK g \in [SUBSET DOMAIN items -> V] :
        IsFold(g, DOMAIN items, << >>, Hindmost(items), step)
  <2>1. << >> \in V
    OBVIOUS
  <2>2. IsFiniteSet(DOMAIN items) /\ Picks(Hindmost(items), DOMAIN items)
    BY LastPicks
  <2> HIDE DEF step, V
  <2> QED
    BY <1>1, <2>1, <2>2, FoldExists
<1>3. \A s \in SUBSET DOMAIN items : s # {} =>
        /\ Hindmost(items)[s] = Max(s) /\ Max(s) \in DOMAIN items
        /\ g[s \ {Max(s)}] \in V
        /\ step[Max(s)][g[s \ {Max(s)}]] = Keep(items, n, g[s \ {Max(s)}], Max(s))
  BY LastPicks DEF Hindmost
<1>4. DOMAIN Indices(items) = DOMAIN items /\ \A i \in DOMAIN items : Indices(items)[i] = i
  BY DEF Indices
<1> DEFINE Term(s) == IF s = {} THEN << >>
                      ELSE Keep(items, n, g[s \ {Max(s)}], Indices(items)[Max(s)])
<1>5. ASSUME NEW s \in SUBSET DOMAIN items PROVE g[s] = Term(s)
  <2>1. CASE s = {}
    BY <1>2, <2>1 DEF IsFold
  <2>2. CASE s # {}
    <3>1. g[s] = step[Max(s)][g[s \ {Max(s)}]]
      <4> HIDE DEF step, V
      <4> QED
        BY <1>2, <1>3, <2>2 DEF IsFold
    <3>2. Indices(items)[Max(s)] = Max(s)
      BY <1>3, <1>4, <2>2
    <3> HIDE DEF step, V
    <3> QED
      BY <1>3, <2>2, <3>1, <3>2
  <2> QED
    BY <2>1, <2>2
<1>6. g = [s \in SUBSET DOMAIN items |-> Term(s)]
  <2> HIDE DEF step, V, Term
  <2> QED
    BY <1>2, <1>5
<1>7. IsKeep(g, items, n)
  <2> HIDE DEF step, V
  <2> QED
    BY <1>4, <1>6 DEF IsKeep
<1> QED
  BY <1>7

\* What is left of an answer names candidates.
LEMMA ValidTyped ==
  ASSUME NEW n \in Nat, NEW items \in Seq(Items(n))
  PROVE  Valid(items, n) \in Seq([index : 1..n, score : Scores])
<1> DEFINE g == CHOOSE f : IsKeep(f, items, n)
           V == [index : 1..n, score : Scores]
           good == {s \in SUBSET DOMAIN items : g[s] \in Seq(V)}
<1>1. IsKeep(g, items, n)
  BY KeepExists
<1>2. DOMAIN Indices(items) = DOMAIN items /\ \A i \in DOMAIN items : Indices(items)[i] = i
  BY DEF Indices
<1>3. Valid(items, n) = g[DOMAIN items]
  BY <1>2, ValidUnfold
<1> HIDE DEF g
<1>4. IsFiniteSet(DOMAIN items) /\ Picks(Hindmost(items), DOMAIN items)
  BY LastPicks
<1>5. Grows(good, DOMAIN items, Hindmost(items))
  <2>1. {} \in good
    BY <1>1 DEF IsKeep
  <2>2. ASSUME NEW s \in SUBSET DOMAIN items, s # {}, s \ {Hindmost(items)[s]} \in good
        PROVE  g[s] \in Seq(V)
    <3>1. PICK i \in s : i = Max(s) /\ i = Hindmost(items)[s]
      BY <2>2, LastPicks DEF Hindmost
    <3>2. g[s] = Keep(items, n, g[s \ {i}], i)
      BY <1>1, <1>2, <2>2, <3>1 DEF IsKeep
    <3>3. g[s \ {i}] \in Seq(V)
      BY <2>2, <3>1
    <3>4. items[i] \in Items(n)
      BY <3>1
    <3>5. Usable(items, i, n) => items[i] \in V
      BY <3>4 DEF Usable, Items
    <3> HIDE DEF V
    <3> QED
      BY <3>2, <3>3, <3>5 DEF Keep
  <2> QED
    BY <2>1, <2>2 DEF Grows
<1>6. SUBSET DOMAIN items \subseteq good
  <2> HIDE DEF good
  <2> QED
    BY <1>4, <1>5, SubsetInduction
<1> QED
  BY <1>3, <1>6

\* What the reranker keeps of n candidates.
LEMMA OrderTyped ==
  ASSUME NEW n \in 1..CandidateLimit, NEW order \in RerankOrders[n]
  PROVE  order \in Seq([index : 1..n, score : Scores])
<1> DEFINE V == [index : 1..n, score : Scores]
<1>1. n \in Nat /\ RerankTopN \in Nat /\ Scores \subseteq Nat
  BY ChainAssumption
<1>2. PICK items \in BoundedSeq(Items(n), Smaller(RerankTopN, n)) : order = Kept(items, n)
  BY DEF RerankOrders, Items
<1>3. items \in Seq(Items(n))
  <2>1. PICK m \in 0..Smaller(RerankTopN, n) : items \in [1..m -> Items(n)]
    BY <1>2 DEF BoundedSeq, SeqOf
  <2>2. m \in Nat
    BY <1>1 DEF Smaller
  <2> QED
    BY <2>1, <2>2
<1>4. Valid(items, n) \in Seq(V)
  BY <1>1, <1>3, ValidTyped
<1> DEFINE sorted == StableByScore(Valid(items, n))
<1>5. sorted \in Seq(V)
  <2>1. \A x \in V : x.score \in Nat
    BY <1>1
  <2> HIDE DEF V
  <2> QED
    BY <1>4, <2>1, StableTyped
<1>6. order = SubSeq(sorted, 1, Smaller(Smaller(RerankTopN, n), Len(sorted)))
  BY <1>2 DEF Kept
<1>7. Smaller(Smaller(RerankTopN, n), Len(sorted)) \in 0..Len(sorted)
  <2>1. Len(sorted) \in Nat
    BY <1>5
  <2> HIDE DEF sorted
  <2> QED
    BY <1>1, <2>1 DEF Smaller
<1> HIDE DEF sorted, V
<1>8. order \in Seq(V)
  BY <1>5, <1>6, <1>7
<1> QED
  BY <1>8 DEF V

-----------------------------------------------------------------------------
(* The context *)

\* A sum of positive numbers is positive.
LEMMA SumPositive ==
  ASSUME NEW D, IsFiniteSet(D), NEW f, \A x \in D : f[x] \in Nat \ {0}, D # {}
  PROVE  SumFunctionOnSet(f, D) > 0
<1>1. PICK x \in D : TRUE
  OBVIOUS
<1>2. SumFunctionOnSet(f, D) = f[x] + SumFunctionOnSet(f, D \ {x})
  BY SumWithout
<1>3. SumFunctionOnSet(f, D \ {x}) \in Nat
  BY FS_RemoveElement, SumNat
<1> QED
  BY <1>1, <1>2, <1>3

Contexts == [used : Seq(Chunks), tokens : Nat]

NoContext == [used |-> << >>, tokens |-> 0]

IsTaken(g, hits) ==
  g = [s \in SUBSET DOMAIN hits |->
        IF s = {} THEN NoContext ELSE Take(g[s \ {Max(s)}], hits[Max(s)])]

LEMMA TakenUnfold ==
  ASSUME NEW hits
  PROVE  FoldLeft(Take, NoContext, hits) = (CHOOSE g : IsTaken(g, hits))[DOMAIN hits]
  BY Zenon DEF FoldLeft, MapThenFoldSet, IsTaken

LEMMA TakeTyped ==
  ASSUME NEW context \in Contexts, NEW hit \in Hit PROVE Take(context, hit) \in Contexts
<1>1. Tokens[Parent[hit.chunk]] \in Nat /\ hit.chunk \in Chunks
  BY ChainAssumption DEF Hit
<1>2. Append(context.used, hit.chunk) \in Seq(Chunks)
  BY <1>1 DEF Contexts
<1>3. context.tokens + Tokens[Parent[hit.chunk]] \in Nat
  BY <1>1 DEF Contexts
<1> QED
  BY <1>2, <1>3 DEF Take, Contexts

LEMMA TakenExists == ASSUME NEW hits \in Seq(Hit) PROVE \E g : IsTaken(g, hits)
<1> DEFINE step == [i \in DOMAIN hits |-> [v \in Contexts |-> Take(v, hits[i])]]
<1>1. \A i \in DOMAIN hits : \A v \in Contexts : step[i][v] \in Contexts
  BY TakeTyped
<1>2. PICK g \in [SUBSET DOMAIN hits -> Contexts] :
        IsFold(g, DOMAIN hits, NoContext, Hindmost(hits), step)
  <2>1. NoContext \in Contexts
    BY DEF NoContext, Contexts
  <2>2. IsFiniteSet(DOMAIN hits) /\ Picks(Hindmost(hits), DOMAIN hits)
    BY LastPicks
  <2> HIDE DEF step
  <2> QED
    BY <1>1, <2>1, <2>2, FoldExists
<1>3. \A s \in SUBSET DOMAIN hits : s # {} =>
        /\ Hindmost(hits)[s] = Max(s) /\ Max(s) \in DOMAIN hits
        /\ g[s \ {Max(s)}] \in Contexts
        /\ step[Max(s)][g[s \ {Max(s)}]] = Take(g[s \ {Max(s)}], hits[Max(s)])
  BY LastPicks DEF Hindmost
<1>4. IsTaken(g, hits)
  <2> HIDE DEF step
  <2> QED
    BY <1>2, <1>3 DEF IsFold, IsTaken
<1> QED
  BY <1>4

\* The chunks of those of the hits at s that reached the threshold.
Good(hits, s) == {hits[i].chunk : i \in {j \in s : hits[j].score >= Threshold}}

\* What ContextFits says of a context made of the hits at s.
Fitting(context, hits, s) ==
  /\ context \in Contexts
  /\ \A i \in DOMAIN context.used : context.used[i] \in Good(hits, s)
  /\ Cardinality(ParentsOf(context.used)) = Len(context.used)
  /\ context.tokens = SumFunctionOnSet(Tokens, ParentsOf(context.used))
  /\ context.tokens <= Budget \/ Len(context.used) = 1
  /\ \A c \in Good(hits, s) : \/ Parent[c] \in ParentsOf(context.used)
                              \/ context.tokens + Tokens[Parent[c]] > Budget

\* Without hits there is no context.
LEMMA NothingFits == ASSUME NEW hits PROVE Fitting(NoContext, hits, {})
<1>1. NoContext \in Contexts /\ NoContext.used = << >> /\ NoContext.tokens = 0
  BY DEF NoContext, Contexts
<1>2. ParentsOf(<< >>) = {} /\ Good(hits, {}) = {}
  BY DEF ParentsOf, Good
<1>3. Cardinality({}) = 0 /\ SumFunctionOnSet(Tokens, {}) = 0
  BY FS_EmptySet, SumEquations
<1>4. Budget \in Nat
  BY ChainAssumption
<1> QED
  BY <1>1, <1>2, <1>3, <1>4 DEF Fitting

\* One more hit.
LEMMA TakeFits ==
  ASSUME NEW hits \in Seq(Hit), NEW s \in SUBSET DOMAIN hits, NEW i \in s,
         NEW context, Fitting(context, hits, s \ {i})
  PROVE  Fitting(Take(context, hits[i]), hits, s)
<1> DEFINE c == hits[i].chunk
           p == Parent[c]
           good == Good(hits, s)
           before == Good(hits, s \ {i})
<1>1. /\ c \in Chunks /\ p \in Parents /\ hits[i].score \in Nat
      /\ Tokens[p] \in Nat \ {0} /\ Budget \in Nat /\ Threshold \in Nat
  <2>1. hits[i] \in Hit
    OBVIOUS
  <2>2. c \in Chunks /\ hits[i].score \in Nat
    BY <2>1 DEF Hit
  <2> HIDE DEF c
  <2> QED
    BY <2>2, ChainAssumption
<1>2. context \in Contexts
  BY DEF Fitting
<1>3. PICK used \in Seq(Chunks) : used = context.used
  BY <1>2 DEF Contexts
<1>4. PICK tokens \in Nat : tokens = context.tokens
  BY <1>2 DEF Contexts
<1>5. /\ \A j \in DOMAIN used : used[j] \in before
      /\ Cardinality(ParentsOf(used)) = Len(used)
      /\ tokens = SumFunctionOnSet(Tokens, ParentsOf(used))
      /\ tokens <= Budget \/ Len(used) = 1
      /\ \A d \in before : Parent[d] \in ParentsOf(used) \/ tokens + Tokens[Parent[d]] > Budget
  BY <1>3, <1>4 DEF Fitting
<1>6. good \subseteq before \cup {c} /\ before \subseteq good
  BY DEF Good
<1>7. hits[i].score >= Threshold => c \in good
  BY DEF Good
<1>8. ~(hits[i].score >= Threshold) => good = before
  BY DEF Good
<1>9. good \subseteq Chunks
  <2>1. \A j \in s : hits[j] \in Hit
    OBVIOUS
  <2> QED
    BY <2>1 DEF Good, Hit
<1>10. IsFiniteSet(ParentsOf(used)) /\ ParentsOf(used) \subseteq Parents
  <2>1. ParentsOf(used) \subseteq Parents
    BY ChainAssumption DEF ParentsOf
  <2> QED
    BY <2>1, ChainAssumption, FS_Subset
<1>11. \A d \in good : Tokens[Parent[d]] \in Nat
  BY <1>9, ChainAssumption
<1>12. CASE /\ hits[i].score >= Threshold
            /\ Fits(c, tokens)
            /\ New(c, used)
  <2> DEFINE more == Append(used, c)
             context2 == [used |-> more, tokens |-> tokens + Tokens[p]]
  <2>1. Take(context, hits[i]) = context2
    BY <1>3, <1>4, <1>12 DEF Take
  <2>2. /\ more \in Seq(Chunks) /\ Len(more) = Len(used) + 1 /\ Len(used) \in Nat
        /\ DOMAIN more = DOMAIN used \cup {Len(used) + 1}
        /\ more[Len(used) + 1] = c
        /\ \A j \in DOMAIN used : more[j] = used[j]
    BY <1>1
  <2>3. context2 \in Contexts
    BY <1>1, <2>2 DEF Contexts
  <2>4. ParentsOf(more) = ParentsOf(used) \cup {p}
    <3> HIDE DEF more, c
    <3> QED
      BY <2>2 DEF ParentsOf
  <2>5. p \notin ParentsOf(used)
    BY <1>12 DEF New, ParentsOf
  <2>6. Cardinality(ParentsOf(more)) = Len(more)
    <3>1. PICK D : D = ParentsOf(used)
      OBVIOUS
    <3>2. Cardinality(D \cup {p}) = Cardinality(D) + 1
      <4>1. IsFiniteSet(D) /\ p \notin D
        BY <1>10, <2>5, <3>1
      <4> HIDE DEF p
      <4> QED
        BY <4>1, FS_AddElement
    <3> HIDE DEF more, p
    <3> QED
      BY <1>5, <2>2, <2>4, <3>1, <3>2
  <2>7. tokens + Tokens[p] = SumFunctionOnSet(Tokens, ParentsOf(more))
    <3> DEFINE all == ParentsOf(used) \cup {p}
    <3>1. IsFiniteSet(all) /\ p \in all /\ all \ {p} = ParentsOf(used)
      <4> HIDE DEF p
      <4> QED
        BY <1>10, <2>5, FS_AddElement
    <3>2. \A q \in all : Tokens[q] \in Nat
      BY <1>1, <1>10, ChainAssumption
    <3>3. SumFunctionOnSet(Tokens, all) = Tokens[p] + SumFunctionOnSet(Tokens, all \ {p})
      <4> HIDE DEF all, p
      <4> QED
        BY <3>1, <3>2, SumWithout
    <3>4. SumFunctionOnSet(Tokens, all) = Tokens[p] + tokens
      BY <1>5, <3>1, <3>3
    <3> HIDE DEF p, more
    <3> QED
      BY <1>1, <2>4, <3>4
  <2>8. tokens + Tokens[p] <= Budget \/ Len(more) = 1
    <3>1. CASE tokens + Tokens[p] <= Budget
      BY <3>1
    <3>2. CASE tokens = 0
      <4>1. \A q \in ParentsOf(used) : Tokens[q] \in Nat \ {0}
        BY <1>10, ChainAssumption
      <4>2. PICK D : D = ParentsOf(used)
        OBVIOUS
      <4>3. D = {}
        <5>1. IsFiniteSet(D) /\ \A q \in D : Tokens[q] \in Nat \ {0}
          BY <1>10, <4>1, <4>2
        <5>2. SumFunctionOnSet(Tokens, D) = 0
          BY <1>5, <3>2, <4>2
        <5>3. D # {} => SumFunctionOnSet(Tokens, D) > 0
          BY <5>1, SumPositive
        <5> QED
          BY <5>2, <5>3
      <4>4. Len(used) = 0
        BY <1>5, <4>2, <4>3, FS_EmptySet
      <4> QED
        BY <2>2, <4>4
    <3> QED
      BY <1>12, <3>1, <3>2 DEF Fits
  <2>9. \A j \in DOMAIN more : more[j] \in good
    <3> HIDE DEF more, c, good, before
    <3> QED
      BY <1>5, <1>6, <1>7, <1>12, <2>2
  <2>10. ASSUME NEW d \in good
         PROVE  \/ Parent[d] \in ParentsOf(more)
                \/ (tokens + Tokens[p]) + Tokens[Parent[d]] > Budget
    <3>1. CASE d = c
      BY <2>4, <3>1
    <3>2. CASE d \in before
      <4>1. Parent[d] \in ParentsOf(used) \/ tokens + Tokens[Parent[d]] > Budget
        BY <1>5, <3>2
      <4>2. Tokens[Parent[d]] \in Nat
        BY <1>11
      <4>3. CASE Parent[d] \in ParentsOf(used)
        BY <2>4, <4>3
      <4>4. CASE tokens + Tokens[Parent[d]] > Budget
        BY <1>1, <4>2, <4>4
      <4> QED
        BY <4>1, <4>3, <4>4
    <3> QED
      BY <1>6, <3>1, <3>2
  <2>11. context2.used = more /\ context2.tokens = tokens + Tokens[p]
    OBVIOUS
  <2> HIDE DEF context2, more, good, before, p, c
  <2>12. Fitting(context2, hits, s)
    BY <2>3, <2>6, <2>7, <2>8, <2>9, <2>10, <2>11 DEF Fitting, good
  <2> QED
    BY <2>1, <2>12
<1>13. CASE ~(/\ hits[i].score >= Threshold
              /\ Fits(c, tokens)
              /\ New(c, used))
  <2>1. Take(context, hits[i]) = context
    BY <1>3, <1>4, <1>13 DEF Take
  <2>2. ASSUME NEW d \in good
        PROVE  Parent[d] \in ParentsOf(used) \/ tokens + Tokens[Parent[d]] > Budget
    <3>1. CASE d \in before
      BY <1>5, <3>1
    <3>2. CASE d \notin before
      <4>1. d = c /\ hits[i].score >= Threshold
        BY <1>6, <1>8, <3>2
      <4>2. CASE ~Fits(c, tokens)
        BY <1>1, <4>1, <4>2 DEF Fits
      <4>3. CASE ~New(c, used)
        BY <4>1, <4>3 DEF New, ParentsOf
      <4> QED
        BY <1>13, <4>1, <4>2, <4>3
    <3> QED
      BY <3>1, <3>2
  <2>3. \A j \in DOMAIN used : used[j] \in good
    BY <1>5, <1>6
  <2> HIDE DEF good, before
  <2> QED
    BY <1>2, <1>3, <1>4, <1>5, <2>1, <2>2, <2>3 DEF Fitting, good
<1> QED
  BY <1>12, <1>13

LEMMA TakenFits ==
  ASSUME NEW hits \in Seq(Hit)
  PROVE  Fitting(FoldLeft(Take, NoContext, hits), hits, DOMAIN hits)
<1> DEFINE g == CHOOSE f : IsTaken(f, hits)
           good == {s \in SUBSET DOMAIN hits : Fitting(g[s], hits, s)}
<1>1. IsTaken(g, hits)
  BY TakenExists
<1>2. FoldLeft(Take, NoContext, hits) = g[DOMAIN hits]
  BY TakenUnfold
<1> HIDE DEF g
<1>3. IsFiniteSet(DOMAIN hits) /\ Picks(Hindmost(hits), DOMAIN hits)
  BY LastPicks
<1>4. Grows(good, DOMAIN hits, Hindmost(hits))
  <2>1. {} \in good
    BY <1>1, NothingFits DEF IsTaken
  <2>2. ASSUME NEW s \in SUBSET DOMAIN hits, s # {}, s \ {Hindmost(hits)[s]} \in good
        PROVE  Fitting(g[s], hits, s)
    <3>1. PICK i \in s : i = Max(s) /\ i = Hindmost(hits)[s]
      BY <2>2, LastPicks DEF Hindmost
    <3>2. g[s] = Take(g[s \ {i}], hits[i])
      BY <1>1, <2>2, <3>1 DEF IsTaken
    <3>3. Fitting(g[s \ {i}], hits, s \ {i})
      BY <2>2, <3>1
    <3> QED
      BY <3>2, <3>3, TakeFits
  <2> QED
    BY <2>1, <2>2 DEF Grows
<1>5. SUBSET DOMAIN hits \subseteq good
  <2> HIDE DEF good
  <2> QED
    BY <1>3, <1>4, SubsetInduction
<1> QED
  BY <1>2, <1>5

-----------------------------------------------------------------------------
(* The answer *)

LEMMA TrimmedTyped ==
  ASSUME NEW S, NEW pieces \in Seq(S)
  PROVE  /\ Trimmed(pieces) \in Seq(S)
         /\ IsBlank(pieces) => Trimmed(pieces) = << >>
         /\ ~IsBlank(pieces) => Trimmed(pieces) # << >>
<1> DEFINE solid == {i \in DOMAIN pieces : pieces[i] # "blank"}
<1>1. solid \subseteq 1..Len(pieces) /\ Len(pieces) \in Nat
  OBVIOUS
<1>2. IsBlank(pieces) <=> solid = {}
  BY DEF IsBlank
<1>3. Trimmed(pieces) = IF solid = {} THEN << >> ELSE SubSeq(pieces, Min(solid), Max(solid))
  BY DEF Trimmed
<1>4. CASE solid = {}
  BY <1>2, <1>3, <1>4
<1>5. CASE solid # {}
  <2>1. solid \in SUBSET Nat /\ solid \in SUBSET (0..Len(pieces))
    <3> HIDE DEF solid
    <3> QED
      BY <1>1
  <2> HIDE DEF solid
  <2>2. Min(solid) \in solid /\ \A y \in solid : Min(solid) <= y
    BY <1>5, <2>1, MinOfFinite
  <2>3. Max(solid) \in solid
    BY <1>1, <1>5, <2>1, MaxOfFinite
  <2>4. PICK first \in 1..Len(pieces) : first = Min(solid)
    BY <1>1, <2>2
  <2>5. PICK last \in 1..Len(pieces) : last = Max(solid)
    BY <1>1, <2>3
  <2>6. first <= last
    BY <2>2, <2>3, <2>4, <2>5
  <2>7. SubSeq(pieces, first, last) \in Seq(S) /\ SubSeq(pieces, first, last) # << >>
    <3>1. Len(SubSeq(pieces, first, last)) = last - first + 1
      BY <1>1, <2>6
    <3> QED
      BY <1>1, <2>6, <3>1
  <2> QED
    BY <1>2, <1>3, <1>5, <2>4, <2>5, <2>7
<1> QED
  BY <1>4, <1>5

\* Whatever the model says, there is an answer.
LEMMA AnsweredTyped ==
  ASSUME NEW S, "fallback" \in S, NEW pieces \in Seq(S)
  PROVE  Answered(pieces) \in Seq(S) /\ Answered(pieces) # << >>
  BY TrimmedTyped DEF Answered, Fallback

-----------------------------------------------------------------------------
(* Types of the chain and its writer *)

ChainState ==
  [node : Nodes, streamed : BOOLEAN, features : SUBSET SearchFeatures,
   queries : 0..MaxQueries, merged : [Chunks -> Ranked], results : Seq(Hit),
   used : Seq(Chunks), tokens : Nat, rejected : BOOLEAN, answer : Seq(Pieces)]

Writer == [pc : {"off", "refuse", "model", "result", "closed"}, said : Seq(Pieces)]

Sent == Seq(Pieces \cup {"prepared", "error"})

\* A query is left while vectors are recalled; a refusal is there to be written.
ChainTyped ==
  /\ docs \subseteq Parents
  /\ state \in ChainState
  /\ writer \in Writer
  /\ pipe \in Sent /\ Len(pipe) <= PipeCapacity
  /\ state.node = "vector" => state.queries > 0
  /\ writer.pc = "refuse" => state.node = "done" /\ state.answer # << >>

LEMMA TypedIsTypeOK == ChainTyped => ChainTypeOK
  BY DEF ChainTyped, ChainTypeOK, ChainState, Writer, Sent, Ranked

LEMMA NoStateTyped ==
  /\ NoState \in ChainState /\ NoWriter \in Writer /\ NoState.node = "idle"
  /\ \A features \in SUBSET SearchFeatures : \A streamed \in BOOLEAN :
       [NoState EXCEPT !.node = "rewrite", !.features = features, !.streamed = streamed]
         \in ChainState
<1>1. MaxQueries \in Nat /\ 0 \in 0..MaxQueries
  BY ChainAssumption
<1>2. [c \in Chunks |-> Unranked] \in [Chunks -> Ranked]
  BY DEF Unranked, Ranked
<1>3. NoState \in ChainState /\ NoState.node = "idle"
  BY <1>1, <1>2 DEF NoState, ChainState, Nodes
<1>4. ASSUME NEW features \in SUBSET SearchFeatures, NEW streamed \in BOOLEAN
      PROVE  [NoState EXCEPT !.node = "rewrite", !.features = features,
                             !.streamed = streamed] \in ChainState
  BY <1>3 DEF ChainState, Nodes
<1>5. NoWriter \in Writer
  BY DEF NoWriter, Writer
<1> QED
  BY <1>3, <1>4, <1>5

\* What a step of the chain does before the model is asked.
Recalls ==
  /\ state' \in ChainState
  /\ state.node # "done"
  /\ state'.node = "vector" => state'.queries > 0
  /\ UNCHANGED <<docs, writer, pipe>>

LEMMA RecallsKeeps == ASSUME ChainTyped, Recalls PROVE ChainTyped'
  BY DEF ChainTyped, Recalls

LEMMA RewriteTyped == ASSUME ChainTyped, Rewrite, UNCHANGED docs PROVE Recalls
<1>1. MaxQueries \in Nat \ {0}
  BY ChainAssumption
<1>2. PICK n \in 1..(IF "rewrite" \in state.features THEN MaxQueries ELSE 1) :
        state' = [state EXCEPT !.node = "vector", !.queries = n]
  BY DEF Rewrite
<1>3. n \in 0..MaxQueries /\ n > 0
  BY <1>1
<1>4. state \in ChainState /\ state.node = "rewrite"
  BY DEF ChainTyped, Rewrite
<1> QED
  BY <1>2, <1>3, <1>4 DEF Recalls, Rewrite, ChainState, Nodes

LEMMA RecallVectorTyped == ASSUME ChainTyped, RecallVector, UNCHANGED docs PROVE Recalls
<1>1. /\ state \in ChainState /\ state.node = "vector" /\ state.queries > 0
      /\ MaxQueries \in Nat /\ UNCHANGED <<writer, pipe>>
  BY ChainAssumption DEF ChainTyped, RecallVector
<1>2. PICK ranking \in Rankings[TopK] :
        state' = [state EXCEPT
          !.queries = @ - 1,
          !.merged = Fused(@, Loaded(ranking), "vector"),
          !.node = IF state.queries > 1 THEN "vector"
                   ELSE IF "hybrid" \in state.features THEN "keyword" ELSE "fuse"]
  BY DEF RecallVector
<1>3. PICK merged : merged = Fused(state.merged, Loaded(ranking), "vector")
  OBVIOUS
<1>4. merged \in [Chunks -> Ranked]
  <2>1. state.merged \in [Chunks -> Ranked]
    BY <1>1 DEF ChainState
  <2> QED
    BY <1>3, <2>1, FusedTyped
<1>5. PICK queries : queries = state.queries - 1
  OBVIOUS
<1>6. queries \in 0..MaxQueries /\ (queries > 0 <=> state.queries > 1)
  BY <1>1, <1>5 DEF ChainState
<1>7. PICK node : node = IF state.queries > 1 THEN "vector"
                         ELSE IF "hybrid" \in state.features THEN "keyword" ELSE "fuse"
  OBVIOUS
<1>8. node \in Nodes /\ (node = "vector" => queries > 0)
  BY <1>6, <1>7 DEF Nodes
<1>9. state' = [state EXCEPT !.queries = queries, !.merged = merged, !.node = node]
  BY <1>1, <1>2, <1>3, <1>5, <1>7 DEF ChainState
<1> QED
  BY <1>1, <1>4, <1>6, <1>8, <1>9 DEF Recalls, ChainState

LEMMA RecallKeywordTyped == ASSUME ChainTyped, RecallKeyword, UNCHANGED docs PROVE Recalls
<1>1. state \in ChainState /\ state.node = "keyword" /\ UNCHANGED <<writer, pipe>>
  BY DEF ChainTyped, RecallKeyword
<1>2. PICK ranking \in Rankings[BM25TopK] :
        state' = [state EXCEPT !.merged = Fused(@, Loaded(ranking), "bm25"), !.node = "fuse"]
  BY DEF RecallKeyword
<1>3. PICK merged : merged = Fused(state.merged, Loaded(ranking), "bm25")
  OBVIOUS
<1>4. merged \in [Chunks -> Ranked]
  <2>1. state.merged \in [Chunks -> Ranked]
    BY <1>1 DEF ChainState
  <2> QED
    BY <1>3, <2>1, FusedTyped
<1>5. state' = [state EXCEPT !.merged = merged, !.node = "fuse"]
  BY <1>1, <1>2, <1>3 DEF ChainState
<1> QED
  BY <1>1, <1>4, <1>5 DEF Recalls, ChainState, Nodes

LEMMA FuseTyped == ASSUME ChainTyped, Fuse, UNCHANGED docs PROVE Recalls
<1>1. state \in ChainState /\ state.node = "fuse" /\ UNCHANGED <<writer, pipe>>
  BY DEF ChainTyped, Fuse
<1> DEFINE merged == state.merged
           Found == {c \in Chunks : merged[c].rrf > 0}
<1>2. PICK s \in SetToSeqs(Found) :
        state' = [state EXCEPT
          !.node = "rerank",
          !.merged = [c \in Chunks |-> Unranked],
          !.results = [i \in DOMAIN s |-> [chunk |-> s[i], score |-> Score(merged[s[i]])]]]
  BY DEF Fuse
<1>3. PICK n \in Nat : n = Cardinality(Found)
  <2>1. Found \subseteq Chunks
    OBVIOUS
  <2>2. IsFiniteSet(Found)
    <3> HIDE DEF Found
    <3> QED
      BY <2>1, ChainAssumption, FS_Subset
  <2> QED
    BY <2>2, FS_CardinalityType
<1>4. s \in [1..n -> Found]
  <2> HIDE DEF Found
  <2> QED
    BY <1>3 DEF SetToSeqs
<1>5. \A i \in 1..n : s[i] \in Chunks
  BY <1>4
<1>6. PICK results : results = [i \in DOMAIN s |-> [chunk |-> s[i],
                                                   score |-> Score(merged[s[i]])]]
  OBVIOUS
<1>7. results \in Seq(Hit)
  <2>1. ASSUME NEW i \in 1..n PROVE [chunk |-> s[i], score |-> Score(merged[s[i]])] \in Hit
    <3>1. merged[s[i]] \in Ranked
      BY <1>1, <1>5 DEF ChainState
    <3>2. Score(merged[s[i]]) \in Nat
      BY <3>1 DEF Score, Ranked
    <3> QED
      BY <1>5, <3>2 DEF Hit
  <2>2. results \in [1..n -> Hit]
    <3> HIDE DEF merged
    <3> QED
      BY <1>4, <1>6, <2>1
  <2> QED
    BY <2>2
<1>8. PICK fresh \in [Chunks -> Ranked] : fresh = [c \in Chunks |-> Unranked]
  <2>1. Unranked \in Ranked
    BY DEF Unranked, Ranked
  <2> QED
    BY <2>1
<1>9. state' = [state EXCEPT !.node = "rerank", !.merged = fresh, !.results = results]
  BY <1>1, <1>2, <1>6, <1>8
<1> HIDE DEF merged, Found
<1> QED
  BY <1>1, <1>7, <1>8, <1>9 DEF Recalls, ChainState, Nodes

LEMMA RerankTyped == ASSUME ChainTyped, Rerank, UNCHANGED docs PROVE Recalls
<1>1. state \in ChainState /\ state.node = "rerank" /\ UNCHANGED <<writer, pipe>>
  BY DEF ChainTyped, Rerank
<1>2. PICK hits \in Seq(Hit) : hits = state.results
  BY <1>1 DEF ChainState
<1>3. CandidateLimit \in Nat /\ Len(hits) \in Nat
  BY ChainAssumption
<1>4. PICK n \in Nat : n = Smaller(CandidateLimit, Len(hits))
  BY <1>3 DEF Smaller
<1>5. n <= Len(hits) /\ n <= CandidateLimit
  BY <1>3, <1>4 DEF Smaller
<1>6. ASSUME NEW results \in Seq(Hit),
             state' = [state EXCEPT !.node = "context", !.results = results]
      PROVE  Recalls
  BY <1>1, <1>6 DEF Recalls, ChainState, Nodes
<1>7. ASSUME NEW k \in {n, Len(hits)},
             state' = [state EXCEPT !.node = "context", !.results = SubSeq(@, 1, k)]
      PROVE  Recalls
  <2>1. PICK results : results = SubSeq(hits, 1, k)
    OBVIOUS
  <2>2. results \in Seq(Hit)
    BY <1>3, <1>5, <2>1
  <2>3. state' = [state EXCEPT !.node = "context", !.results = results]
    BY <1>1, <1>2, <1>7, <2>1 DEF ChainState
  <2> QED
    BY <1>6, <2>2, <2>3
<1>8. ASSUME n > 0, NEW order \in RerankOrders[n],
             state' = [state EXCEPT
                        !.node = "context",
                        !.results = [k \in DOMAIN order |->
                                      [chunk |-> @[order[k].index].chunk,
                                       score |-> order[k].score]]]
      PROVE  Recalls
  <2>1. n \in 1..CandidateLimit
    BY <1>3, <1>5, <1>8
  <2>2. order \in Seq([index : 1..n, score : Scores])
    BY <2>1, OrderTyped
  <2>3. PICK results : results = [k \in DOMAIN order |->
                                   [chunk |-> hits[order[k].index].chunk,
                                    score |-> order[k].score]]
    OBVIOUS
  <2>4. results \in Seq(Hit)
    <3>1. ASSUME NEW k \in 1..Len(order)
          PROVE  [chunk |-> hits[order[k].index].chunk, score |-> order[k].score] \in Hit
      <4> DEFINE V == [index : 1..n, score : Scores]
      <4>0. order[k] \in V
        <5> HIDE DEF V
        <5>1. order \in Seq(V)
          BY <2>2 DEF V
        <5> QED
          BY <5>1
      <4>1. order[k].index \in 1..n /\ order[k].score \in Scores
        BY <4>0
      <4>2. order[k].index \in 1..Len(hits) /\ order[k].score \in Nat
        <5>1. 1..n \subseteq 1..Len(hits)
          BY <1>3, <1>5
        <5> QED
          BY <4>1, <5>1, ChainAssumption
      <4>3. hits[order[k].index] \in Hit
        BY <4>2
      <4> QED
        BY <4>2, <4>3 DEF Hit
    <3>2. DOMAIN order = 1..Len(order) /\ Len(order) \in Nat
      BY <2>2
    <3>3. results \in [1..Len(order) -> Hit]
      BY <2>3, <3>1, <3>2
    <3> QED
      BY <3>2, <3>3
  <2>5. state' = [state EXCEPT !.node = "context", !.results = results]
    BY <1>1, <1>2, <1>8, <2>3 DEF ChainState
  <2> QED
    BY <1>6, <2>4, <2>5
<1>9. CASE "rerank" \in state.features /\ n > 0
  BY <1>2, <1>4, <1>7, <1>8, <1>9 DEF Rerank
<1>10. CASE ~("rerank" \in state.features /\ n > 0)
  <2>1. state' = [state EXCEPT !.node = "context"]
    BY <1>2, <1>4, <1>10 DEF Rerank
  <2> QED
    BY <1>1, <2>1 DEF Recalls, ChainState, Nodes
<1> QED
  BY <1>9, <1>10

LEMMA BuildContextTyped ==
  ASSUME ChainTyped, BuildContext, UNCHANGED docs PROVE Recalls /\ ContextFits'
<1>1. state \in ChainState /\ state.node = "context" /\ UNCHANGED <<writer, pipe>>
  BY DEF ChainTyped, BuildContext
<1>2. PICK hits \in Seq(Hit) : hits = state.results
  BY <1>1 DEF ChainState
<1>3. PICK context : context = FoldLeft(Take, NoContext, hits)
  OBVIOUS
<1>4. state' = [state EXCEPT !.node = "prompt", !.used = context.used,
                             !.tokens = context.tokens, !.rejected = context.used = << >>]
  BY <1>2, <1>3 DEF BuildContext, NoContext
<1>5. Fitting(context, hits, DOMAIN hits)
  BY <1>3, TakenFits
<1>6. context \in Contexts
  BY <1>5 DEF Fitting
<1>7. PICK used \in Seq(Chunks) : used = context.used
  BY <1>6 DEF Contexts
<1>8. PICK tokens \in Nat : tokens = context.tokens
  BY <1>6 DEF Contexts
<1>9. PICK rejected \in BOOLEAN : rejected = (used = << >>)
  OBVIOUS
<1>10. state' = [state EXCEPT !.node = "prompt", !.used = used, !.tokens = tokens,
                              !.rejected = rejected]
  BY <1>4, <1>7, <1>8, <1>9
<1>11. /\ state' \in ChainState /\ state'.node = "prompt" /\ state'.used = used
       /\ state'.tokens = tokens /\ state'.results = hits
  BY <1>1, <1>2, <1>10 DEF ChainState, Nodes
<1>12. Recalls
  BY <1>1, <1>11 DEF Recalls
<1>13. ContextFits'
  <2> DEFINE good == Good(hits, DOMAIN hits)
             parents == ParentsOf(used)
  <2>1. /\ \A i \in DOMAIN used : used[i] \in good
        /\ Cardinality(parents) = Len(used)
        /\ tokens = SumFunctionOnSet(Tokens, parents)
        /\ tokens <= Budget \/ Len(used) = 1
        /\ \A c \in good : Parent[c] \in parents \/ tokens + Tokens[Parent[c]] > Budget
    BY <1>5, <1>7, <1>8 DEF Fitting
  <2>2. {state'.results[i].chunk :
           i \in {j \in DOMAIN state'.results : state'.results[j].score >= Threshold}} = good
    BY <1>11 DEF Good
  <2>3. ParentsOf(state.used)' = parents
    BY <1>11 DEF ParentsOf
  <2> HIDE DEF good, parents
  <2> QED
    BY <1>11, <2>1, <2>2, <2>3 DEF ContextFits
<1> QED
  BY <1>12, <1>13

LEMMA PromptTyped ==
  ASSUME ChainTyped, RenderPrompt \/ CallModel \/ ChainFails, UNCHANGED docs PROVE Recalls
<1>1. state \in ChainState
  BY DEF ChainTyped
<1>2. Fallback \in Seq(Pieces) /\ << >> \in Seq(Pieces)
  BY DEF Fallback, Pieces
<1>3. CASE RenderPrompt
  <2>1. PICK answer \in Seq(Pieces) :
          answer = IF state.used = << >> THEN Fallback ELSE << >>
    BY <1>2
  <2>2. PICK node \in {"stream", "model"} :
          node = IF state.streamed THEN "stream" ELSE "model"
    OBVIOUS
  <2>3. state' = [state EXCEPT !.node = node, !.results = << >>, !.answer = answer]
        /\ state.node = "prompt" /\ UNCHANGED <<writer, pipe>>
    BY <1>3, <2>1, <2>2 DEF RenderPrompt
  <2>4. << >> \in Seq(Hit)
    OBVIOUS
  <2> QED
    BY <1>1, <2>3, <2>4 DEF Recalls, ChainState, Nodes
<1>4. CASE CallModel
  <2>1. PICK piece \in Pieces :
          state' = [state EXCEPT !.node = "done",
                                 !.answer = IF @ # << >> THEN @ ELSE Answered(<<piece>>)]
    BY <1>4 DEF CallModel
  <2>2. Answered(<<piece>>) \in Seq(Pieces)
    <3>1. <<piece>> \in Seq(Pieces) /\ "fallback" \in Pieces
      BY DEF Pieces
    <3> QED
      BY <3>1, AnsweredTyped
  <2>3. PICK answer \in Seq(Pieces) :
          answer = IF state.answer # << >> THEN state.answer ELSE Answered(<<piece>>)
    BY <1>1, <2>2 DEF ChainState
  <2>4. state' = [state EXCEPT !.node = "done", !.answer = answer]
        /\ state.node = "model" /\ UNCHANGED <<writer, pipe>>
    BY <1>1, <1>4, <2>1, <2>3 DEF CallModel, ChainState
  <2> QED
    BY <1>1, <2>4 DEF Recalls, ChainState, Nodes
<1>5. CASE ChainFails
  <2>1. state' = [state EXCEPT !.node = "error"] /\ state.node # "done"
        /\ UNCHANGED <<writer, pipe>>
    BY <1>5 DEF ChainFails
  <2> QED
    BY <1>1, <2>1 DEF Recalls, ChainState, Nodes
<1> QED
  BY <1>3, <1>4, <1>5

LEMMA OpenStreamTyped == ASSUME ChainTyped, OpenStream, UNCHANGED docs PROVE ChainTyped'
<1>1. /\ state \in ChainState /\ writer \in Writer
      /\ state' = [state EXCEPT !.node = "done"] /\ UNCHANGED pipe
      /\ writer' = [writer EXCEPT !.pc = IF state.answer # << >> THEN "refuse" ELSE "model"]
  BY DEF ChainTyped, OpenStream
<1>2. state' \in ChainState /\ state'.node = "done" /\ state'.answer = state.answer
  BY <1>1 DEF ChainState, Nodes
<1>3. writer' \in Writer /\ (writer'.pc = "refuse" => state.answer # << >>)
  BY <1>1 DEF Writer
<1> QED
  BY <1>1, <1>2, <1>3 DEF ChainTyped

LEMMA ChainStepTyped ==
  ASSUME ChainTyped, ContextFits, ChainStep, UNCHANGED docs
  PROVE  ChainTyped' /\ ContextFits'
<1>1. CASE OpenStream
  <2>1. state'.node = "done"
    BY <1>1 DEF OpenStream, ChainTyped, ChainState
  <2> QED
    BY <1>1, <2>1, OpenStreamTyped DEF ContextFits
<1>2. CASE BuildContext
  BY <1>2, BuildContextTyped, RecallsKeeps
<1>3. CASE RenderPrompt \/ CallModel \/ ChainFails
  <2>1. state'.node # "prompt"
    <3>1. state \in ChainState
      BY DEF ChainTyped
    <3>2. CASE RenderPrompt
      BY <3>1, <3>2 DEF RenderPrompt, ChainState
    <3>3. CASE CallModel
      BY <3>1, <3>3 DEF CallModel, ChainState
    <3>4. CASE ChainFails
      BY <3>1, <3>4 DEF ChainFails, ChainState
    <3> QED
      BY <1>3, <3>2, <3>3, <3>4
  <2> QED
    BY <1>3, <2>1, PromptTyped, RecallsKeeps DEF ContextFits
<1>4. CASE Rewrite \/ RecallVector \/ RecallKeyword \/ Fuse \/ Rerank
  <2>1. Recalls
    BY <1>4, RewriteTyped, RecallVectorTyped, RecallKeywordTyped, FuseTyped, RerankTyped
  <2>2. state'.node # "prompt"
    <3>1. state \in ChainState
      BY DEF ChainTyped
    <3>2. CASE Rewrite
      BY <3>1, <3>2 DEF Rewrite, ChainState
    <3>3. CASE RecallVector
      BY <3>1, <3>3 DEF RecallVector, ChainState
    <3>4. CASE RecallKeyword
      BY <3>1, <3>4 DEF RecallKeyword, ChainState
    <3>5. CASE Fuse
      BY <3>1, <3>5 DEF Fuse, ChainState
    <3>6. CASE Rerank
      BY <3>1, <3>6 DEF Rerank, ChainState
    <3> QED
      BY <1>4, <3>2, <3>3, <3>4, <3>5, <3>6
  <2> QED
    BY <2>1, <2>2, RecallsKeeps DEF ContextFits
<1> QED
  BY <1>1, <1>2, <1>3, <1>4 DEF ChainStep

LEMMA SendTyped ==
  ASSUME ChainTyped, NEW item \in Pieces \cup {"prepared", "error"}, Send(item)
  PROVE  pipe' \in Sent /\ Len(pipe') <= PipeCapacity
<1>1. PipeCapacity \in Nat
  BY ChainAssumption
<1> QED
  BY <1>1 DEF ChainTyped, Send, CanSend, Sent

LEMMA WriterStepTyped ==
  ASSUME ChainTyped, ContextFits, WriterStep, UNCHANGED docs
  PROVE  ChainTyped' /\ ContextFits'
<1>1. state \in ChainState /\ writer \in Writer
  BY DEF ChainTyped
<1>2. CASE WriteRefusal
  <2>1. state.answer[1] \in Pieces
    <3>1. state.answer \in Seq(Pieces) /\ state.answer # << >>
      BY <1>1, <1>2 DEF ChainTyped, ChainState, WriteRefusal
    <3> QED
      BY <3>1
  <2>2. pipe' \in Sent /\ Len(pipe') <= PipeCapacity
    BY <1>2, <2>1, SendTyped DEF WriteRefusal
  <2>3. writer' \in Writer /\ writer'.pc = "result" /\ UNCHANGED state
    BY <1>1, <1>2 DEF WriteRefusal, Writer
  <2> QED
    BY <2>2, <2>3 DEF ChainTyped, ContextFits, ParentsOf
<1>3. CASE WritePiece
  <2>1. PICK piece \in Pieces :
          Send(piece) /\ writer' = [writer EXCEPT !.said = Append(@, piece)]
    BY <1>3 DEF WritePiece
  <2>2. pipe' \in Sent /\ Len(pipe') <= PipeCapacity
    BY <2>1, SendTyped
  <2>3. writer' \in Writer /\ writer'.pc = "model" /\ UNCHANGED state
    <3>1. Append(writer.said, piece) \in Seq(Pieces)
      BY <1>1 DEF Writer
    <3> QED
      BY <1>1, <1>3, <2>1, <3>1 DEF WritePiece, Writer
  <2> QED
    BY <2>2, <2>3 DEF ChainTyped, ContextFits, ParentsOf
<1>4. CASE ModelEnds
  <2>1. Answered(writer.said) \in Seq(Pieces)
    <3>1. writer.said \in Seq(Pieces) /\ "fallback" \in Pieces
      BY <1>1 DEF Writer, Pieces
    <3> QED
      BY <3>1, AnsweredTyped
  <2>2. PICK answer \in Seq(Pieces) : answer = Answered(writer.said)
    BY <2>1
  <2>3. state' = [state EXCEPT !.answer = answer] /\ UNCHANGED pipe
        /\ writer' = [writer EXCEPT !.pc = "result", !.said = << >>]
    BY <1>4, <2>2 DEF ModelEnds
  <2>4. /\ state' \in ChainState /\ state'.node = state.node /\ state'.queries = state.queries
        /\ state'.results = state.results /\ state'.used = state.used
        /\ state'.tokens = state.tokens
    BY <1>1, <2>3 DEF ChainState
  <2>5. writer' \in Writer /\ writer'.pc = "result"
    <3>1. << >> \in Seq(Pieces)
      OBVIOUS
    <3> QED
      BY <1>1, <2>3, <3>1 DEF Writer
  <2>6. ContextFits'
    BY <2>4 DEF ContextFits, ParentsOf
  <2> QED
    BY <2>3, <2>4, <2>5, <2>6 DEF ChainTyped
<1>5. CASE ModelBreaks \/ WriteResult
  <2>1. pipe' \in Sent /\ Len(pipe') <= PipeCapacity
    BY <1>5, SendTyped DEF ModelBreaks, WriteResult
  <2>2. writer' \in Writer /\ writer'.pc = "closed" /\ UNCHANGED state
    <3>1. << >> \in Seq(Pieces)
      OBVIOUS
    <3>2. CASE ModelBreaks
      BY <3>1, <3>2 DEF ModelBreaks, Writer, NoWriter
    <3>3. CASE WriteResult
      BY <1>1, <3>3 DEF WriteResult, Writer
    <3> QED
      BY <1>5, <3>2, <3>3
  <2> QED
    BY <2>1, <2>2 DEF ChainTyped, ContextFits, ParentsOf
<1> QED
  BY <1>2, <1>3, <1>4, <1>5 DEF WriterStep
=============================================================================
