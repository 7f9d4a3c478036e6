-------------------------------- MODULE Sums --------------------------------
(***************************************************************************)
(* What the models' sums rest on: the sum of integers over a finite set,   *)
(* and that a fold computes it, in whatever order it takes the elements.   *)
(* Induction goes by a smallest counterexample, which needs no predicate   *)
(* as a parameter.                                                         *)
(***************************************************************************)
EXTENDS Integers, FiniteSets, FiniteSetTheorems, FunctionTheorems, WellFoundedInduction, TLAPS

\* A set of naturals has a least member.
LEMMA LeastNat ==
  ASSUME NEW T, T \subseteq Nat, T # {}
  PROVE  \E n \in T : \A k \in T : n <= k
<1>1. PICK n \in T : \A k \in T : ~(<<k, n>> \in OpToRel(<, Nat))
  BY NatLessThanWellFounded, WFMin
<1>2. \A k \in T : ~(k < n)
  BY <1>1 DEF OpToRel
<1> QED BY <1>2

\* Among some subsets of a finite set one holds no other.
LEMMA LeastSet ==
  ASSUME NEW S, IsFiniteSet(S), NEW Bad, Bad \subseteq SUBSET S, Bad # {}
  PROVE  \E U \in Bad : \A V \in Bad : V \subseteq U => V = U
<1> DEFINE T == {Cardinality(U) : U \in Bad}
<1>1. \A U \in Bad : IsFiniteSet(U) /\ Cardinality(U) \in Nat
  BY FS_Subset, FS_CardinalityType
<1>2. T \subseteq Nat /\ T # {}
  BY <1>1
<1>3. PICK n \in T : \A k \in T : n <= k
  BY <1>2, LeastNat
<1>4. PICK U \in Bad : n = Cardinality(U)
  BY <1>3
<1>5. ASSUME NEW V \in Bad, V \subseteq U PROVE V = U
  <2>1. n <= Cardinality(V)
    BY <1>3
  <2>2. Cardinality(V) <= Cardinality(U) /\ (Cardinality(U) = Cardinality(V) => U = V)
    BY <1>1, <1>5, FS_Subset
  <2> QED BY <1>1, <1>4, <2>1, <2>2
<1> QED BY <1>5

\* m gives every subset of S the sum of f over it.
Measure(m, f, S) ==
  /\ m \in [SUBSET S -> Int]
  /\ m[{}] = 0
  /\ \A U \in SUBSET S : \A x \in S \ U : m[U \union {x}] = m[U] + f[x]

\* The sum of f over S.
Sigma(f, S) == (CHOOSE m : Measure(m, f, S))[S]

\* There are sums.
LEMMA MeasureExists ==
  ASSUME NEW S, IsFiniteSet(S), NEW f, \A x \in S : f[x] \in Int
  PROVE  \E m : Measure(m, f, S)
<1> DEFINE Bad == {U \in SUBSET S : ~\E m : Measure(m, f, U)}
<1> SUFFICES ASSUME Bad # {} PROVE FALSE
  OBVIOUS
<1>0. Bad \subseteq SUBSET S
  OBVIOUS
<1>1. PICK U \in Bad : \A V \in Bad : V \subseteq U => V = U
  <2> HIDE DEF Bad
  <2> QED BY <1>0, LeastSet
<1>2. CASE U = {}
  <2>1. Measure([V \in SUBSET U |-> 0], f, U)
    BY <1>2 DEF Measure
  <2> QED BY <2>1
<1>3. CASE U # {}
  <2>1. PICK x : x \in U
    BY <1>3
  <2> DEFINE W == U \ {x}
  <2>2. PICK m : Measure(m, f, W)
    BY <1>1, <2>1
  <2> DEFINE g == [V \in SUBSET U |-> IF x \in V THEN m[V \ {x}] + f[x] ELSE m[V]]
  <2>3. f[x] \in Int
    BY <2>1
  <2>4. \A V \in SUBSET U : V \ {x} \in SUBSET W
    OBVIOUS
  <2>5. \A V \in SUBSET W : m[V] \in Int
    BY <2>2 DEF Measure
  <2>6. g \in [SUBSET U -> Int]
    BY <2>3, <2>4, <2>5
  <2>7. g[{}] = 0
    BY <2>2 DEF Measure
  <2>8. ASSUME NEW V \in SUBSET U, NEW y \in U \ V PROVE g[V \union {y}] = g[V] + f[y]
    <3>1. CASE y = x
      <4>1. (V \union {y}) \ {x} = V
        BY <2>8, <3>1
      <4> QED BY <2>8, <3>1, <4>1
    <3>2. CASE y # x /\ x \in V
      <4>1. (V \union {y}) \ {x} = (V \ {x}) \union {y} /\ y \in W \ (V \ {x})
        BY <2>8, <3>2
      <4>2. m[(V \ {x}) \union {y}] = m[V \ {x}] + f[y]
        BY <2>2, <2>4, <4>1 DEF Measure
      <4>3. g[V \union {y}] = m[(V \ {x}) \union {y}] + f[x] /\ g[V] = m[V \ {x}] + f[x]
        BY <2>8, <3>2, <4>1
      <4>4. m[V \ {x}] \in Int /\ f[y] \in Int
        BY <2>4, <2>5, <2>8
      <4> QED BY <2>3, <4>2, <4>3, <4>4
    <3>3. CASE y # x /\ x \notin V
      <4>1. V \in SUBSET W /\ y \in W \ V
        BY <2>8, <3>3
      <4>2. m[V \union {y}] = m[V] + f[y]
        BY <2>2, <4>1 DEF Measure
      <4> QED BY <2>8, <3>3, <4>2
    <3> QED BY <3>1, <3>2, <3>3
  <2>9. Measure(g, f, U)
    BY <2>6, <2>7, <2>8 DEF Measure
  <2> QED BY <2>9
<1> QED BY <1>2, <1>3

\* g takes an element off at a time, whichever, and adds it on one side or the
\* other, as folds do.
IsFold(g, f, S) ==
  /\ g[{}] = 0
  /\ \A U \in SUBSET S :
       U # {} => \E x \in U : g[U] = g[U \ {x}] + f[x] \/ g[U] = f[x] + g[U \ {x}]

\* What folds adds up to the measure.
LEMMA MeasureUnique ==
  ASSUME NEW S, IsFiniteSet(S), NEW f, NEW m, Measure(m, f, S), NEW g, IsFold(g, f, S),
         \A x \in S : f[x] \in Int
  PROVE  \A U \in SUBSET S : g[U] = m[U]
<1> DEFINE Bad == {U \in SUBSET S : g[U] # m[U]}
<1> SUFFICES ASSUME Bad # {} PROVE FALSE
  OBVIOUS
<1>0. Bad \subseteq SUBSET S
  OBVIOUS
<1>1. PICK U \in Bad : \A V \in Bad : V \subseteq U => V = U
  <2> HIDE DEF Bad
  <2> QED BY <1>0, LeastSet
<1>2. U # {}
  BY <1>1 DEF Measure, IsFold
<1>3. PICK x \in U : g[U] = g[U \ {x}] + f[x] \/ g[U] = f[x] + g[U \ {x}]
  BY <1>2 DEF IsFold
<1>4. g[U \ {x}] = m[U \ {x}]
  BY <1>1
<1>5. U = (U \ {x}) \union {x} /\ U \ {x} \in SUBSET S /\ x \in S \ (U \ {x})
  OBVIOUS
<1>6. m[U] = m[U \ {x}] + f[x] /\ m[U \ {x}] \in Int /\ f[x] \in Int
  <2> DEFINE W == U \ {x}
  <2>1. U = W \union {x} /\ W \in SUBSET S /\ x \in S \ W
    BY <1>5
  <2> HIDE DEF W
  <2>2. m[W \union {x}] = m[W] + f[x] /\ m[W] \in Int
    BY <2>1 DEF Measure
  <2>3. f[x] \in Int
    BY <1>5
  <2> QED BY <2>1, <2>2, <2>3 DEF W
<1>7. g[U] = m[U]
  BY <1>3, <1>4, <1>6
<1> QED BY <1>7

\* A measure of a set is one of its subsets.
LEMMA MeasureOfSubset ==
  ASSUME NEW S, NEW U \in SUBSET S, NEW f, NEW m, Measure(m, f, S)
  PROVE  Measure([V \in SUBSET U |-> m[V]], f, U)
<1> DEFINE g == [V \in SUBSET U |-> m[V]]
<1>1. g \in [SUBSET U -> Int] /\ g[{}] = 0
  BY DEF Measure
<1>2. ASSUME NEW V \in SUBSET U, NEW x \in U \ V PROVE g[V \union {x}] = g[V] + f[x]
  <2>1. V \in SUBSET S /\ x \in S \ V /\ V \union {x} \in SUBSET U
    OBVIOUS
  <2>2. m[V \union {x}] = m[V] + f[x]
    BY <2>1 DEF Measure
  <2> QED BY <2>1, <2>2
<1> QED BY <1>1, <1>2 DEF Measure

\* The sum is what any measure says.
LEMMA SigmaIs ==
  ASSUME NEW S, IsFiniteSet(S), NEW f, \A x \in S : f[x] \in Int, NEW m, Measure(m, f, S),
         NEW U \in SUBSET S
  PROVE  Sigma(f, U) = m[U] /\ Sigma(f, U) \in Int
<1> DEFINE k == [V \in SUBSET U |-> m[V]]
<1>1. Measure(k, f, U)
  BY MeasureOfSubset
<1>2. PICK g : g = CHOOSE h : Measure(h, f, U)
  OBVIOUS
<1>3. Measure(g, f, U)
  BY <1>1, <1>2
<1>4. IsFiniteSet(U)
  BY FS_Subset
<1> HIDE DEF k
<1>5. ASSUME NEW V \in SUBSET U, V # {} PROVE \E x \in V : g[V] = g[V \ {x}] + f[x]
  <2>1. PICK x : x \in V
    BY <1>5
  <2>2. V \ {x} \in SUBSET U /\ x \in U \ (V \ {x}) /\ (V \ {x}) \union {x} = V
    BY <2>1
  <2>3. g[V] = g[V \ {x}] + f[x]
    BY <1>3, <2>2 DEF Measure
  <2> QED BY <2>1, <2>3
<1>6. \A V \in SUBSET U : g[V] = k[V]
  <2>1. IsFold(g, f, U)
    BY <1>3, <1>5 DEF Measure, IsFold
  <2>2. \A x \in U : f[x] \in Int
    OBVIOUS
  <2> QED BY <1>1, <1>4, <2>1, <2>2, MeasureUnique
<1>7. g[U] = m[U] /\ m[U] \in Int
  BY <1>6 DEF k, Measure
<1> QED BY <1>2, <1>7 DEF Sigma

\* The sums over a finite set, and how they grow.
LEMMA SigmaRules ==
  ASSUME NEW S, IsFiniteSet(S), NEW f, \A x \in S : f[x] \in Int
  PROVE  /\ \A U \in SUBSET S : Sigma(f, U) \in Int
         /\ Sigma(f, {}) = 0
         /\ \A U \in SUBSET S : \A x \in S \ U : Sigma(f, U \union {x}) = Sigma(f, U) + f[x]
<1>1. PICK m : Measure(m, f, S)
  BY MeasureExists
<1>2. \A U \in SUBSET S : Sigma(f, U) = m[U] /\ Sigma(f, U) \in Int
  BY <1>1, SigmaIs
<1>3. ASSUME NEW U \in SUBSET S, NEW x \in S \ U
      PROVE  Sigma(f, U \union {x}) = Sigma(f, U) + f[x]
  <2>1. U \union {x} \in SUBSET S
    OBVIOUS
  <2> QED BY <1>1, <1>2, <2>1 DEF Measure
<1>4. Sigma(f, {}) = 0
  BY <1>1, <1>2 DEF Measure
<1> QED BY <1>2, <1>3, <1>4

\* A fold adds its elements up.
LEMMA FoldIsSigma ==
  ASSUME NEW S, IsFiniteSet(S), NEW f, \A x \in S : f[x] \in Int, NEW g, IsFold(g, f, S)
  PROVE  g[S] = Sigma(f, S)
<1>1. PICK m : Measure(m, f, S)
  BY MeasureExists
<1>2. g[S] = m[S]
  BY <1>1, MeasureUnique
<1> QED BY <1>1, <1>2, SigmaIs

\* A sum depends on the values in its set alone.
LEMMA SigmaSame ==
  ASSUME NEW S, IsFiniteSet(S), NEW f, NEW h, \A x \in S : f[x] \in Int /\ h[x] = f[x]
  PROVE  Sigma(h, S) = Sigma(f, S)
<1>1. PICK m : Measure(m, f, S)
  BY MeasureExists
<1>2. Measure(m, h, S)
  BY <1>1 DEF Measure
<1>3. Sigma(f, S) = m[S]
  BY <1>1, SigmaIs
<1>4. Sigma(h, S) = m[S]
  BY <1>2, SigmaIs
<1> QED BY <1>3, <1>4

\* A sum changes by what one of its values changes.
LEMMA SigmaChange ==
  ASSUME NEW S, IsFiniteSet(S), NEW f, NEW h, NEW a \in S,
         \A x \in S : f[x] \in Int /\ h[x] \in Int, \A x \in S \ {a} : h[x] = f[x]
  PROVE  Sigma(h, S) = Sigma(f, S) + h[a] - f[a]
<1> DEFINE U == S \ {a}
<1>1. U \in SUBSET S /\ a \in S \ U /\ U \union {a} = S
  OBVIOUS
<1>2. IsFiniteSet(U)
  BY FS_Subset
<1>3. Sigma(h, U) = Sigma(f, U)
  BY <1>2, SigmaSame
<1>4. Sigma(h, S) = Sigma(h, U) + h[a] /\ Sigma(h, U) \in Int
  BY <1>1, SigmaRules
<1>5. Sigma(f, S) = Sigma(f, U) + f[a] /\ Sigma(f, U) \in Int
  BY <1>1, SigmaRules
<1> QED BY <1>3, <1>4, <1>5

\* The sums of values that are close are close.
LEMMA SigmaClose ==
  ASSUME NEW S, IsFiniteSet(S), NEW f, NEW h, NEW d \in Nat,
         \A x \in S : f[x] \in Int /\ h[x] \in Int /\ h[x] - f[x] <= d /\ f[x] - h[x] <= d
  PROVE  LET e == d * Cardinality(S) IN
         Sigma(h, S) - Sigma(f, S) <= e /\ Sigma(f, S) - Sigma(h, S) <= e
<1> DEFINE Close(U) == /\ Sigma(h, U) - Sigma(f, U) <= d * Cardinality(U)
                       /\ Sigma(f, U) - Sigma(h, U) <= d * Cardinality(U)
           Bad == {U \in SUBSET S : ~Close(U)}
<1> SUFFICES ASSUME Bad # {} PROVE FALSE
  OBVIOUS
<1>0. Bad \subseteq SUBSET S
  OBVIOUS
<1>1. PICK U \in Bad : \A V \in Bad : V \subseteq U => V = U
  <2> HIDE DEF Bad
  <2> QED BY <1>0, LeastSet
<1>2. U # {}
  <2>1. Sigma(h, {}) = 0 /\ Sigma(f, {}) = 0
    BY SigmaRules
  <2>2. Cardinality({}) = 0 /\ d * 0 = 0
    BY FS_EmptySet
  <2>3. Close({})
    BY <2>1, <2>2
  <2> QED BY <1>1, <2>3
<1>3. PICK x : x \in U
  BY <1>2
<1> DEFINE V == U \ {x}
<1>4. V \in SUBSET S /\ x \in S \ V /\ V \union {x} = U /\ V # U
  BY <1>3
<1>5. Close(V)
  BY <1>1, <1>4
<1>6. IsFiniteSet(U) /\ IsFiniteSet(V) /\ Cardinality(V) \in Nat /\ Cardinality(U) = Cardinality(V) + 1
  BY <1>3, FS_Subset, FS_CardinalityType, FS_RemoveElement
<1>h. \A y \in S : h[y] \in Int
  OBVIOUS
<1>f. \A y \in S : f[y] \in Int
  OBVIOUS
<1> HIDE DEF V, Bad, Close
<1>7. Sigma(h, U) = Sigma(h, V) + h[x] /\ Sigma(h, V) \in Int
  BY <1>h, <1>4, SigmaRules
<1>8. Sigma(f, U) = Sigma(f, V) + f[x] /\ Sigma(f, V) \in Int
  BY <1>f, <1>4, SigmaRules
<1>9. h[x] \in Int /\ f[x] \in Int /\ h[x] - f[x] <= d /\ f[x] - h[x] <= d
  BY <1>4
<1>10. d * Cardinality(U) = d * Cardinality(V) + d /\ d * Cardinality(V) \in Nat
  BY <1>6
<1>11. Close(U)
  BY <1>5, <1>7, <1>8, <1>9, <1>10 DEF Close
<1> QED BY <1>1, <1>11 DEF Bad

\* A sum of sums is the sum of the terms.
LEMMA SigmaLinear ==
  ASSUME NEW S, IsFiniteSet(S), NEW f, NEW g, NEW h,
         \A x \in S : f[x] \in Int /\ g[x] \in Int /\ h[x] = f[x] + g[x]
  PROVE  Sigma(h, S) = Sigma(f, S) + Sigma(g, S)
<1>1. PICK m : Measure(m, f, S)
  BY MeasureExists
<1>2. PICK n : Measure(n, g, S)
  BY MeasureExists
<1> DEFINE k == [U \in SUBSET S |-> m[U] + n[U]]
<1>3. /\ \A U \in SUBSET S : m[U] \in Int /\ n[U] \in Int
      /\ m[{}] = 0 /\ n[{}] = 0
  BY <1>1, <1>2 DEF Measure
<1>4. k \in [SUBSET S -> Int] /\ k[{}] = 0
  BY <1>3
<1>5. ASSUME NEW U \in SUBSET S, NEW x \in S \ U PROVE k[U \union {x}] = k[U] + h[x]
  <2>1. m[U \union {x}] = m[U] + f[x] /\ n[U \union {x}] = n[U] + g[x] /\ U \union {x} \in SUBSET S
    BY <1>1, <1>2 DEF Measure
  <2>2. m[U] \in Int /\ n[U] \in Int /\ f[x] \in Int /\ g[x] \in Int /\ h[x] = f[x] + g[x]
    BY <1>3
  <2>3. k[U \union {x}] = m[U \union {x}] + n[U \union {x}] /\ k[U] = m[U] + n[U]
    BY <2>1
  <2> HIDE DEF k
  <2> QED BY <2>1, <2>2, <2>3
<1>6. Measure(k, h, S)
  BY <1>4, <1>5 DEF Measure
<1>7. \A x \in S : h[x] \in Int
  OBVIOUS
<1>8. Sigma(h, S) = k[S] /\ k[S] = m[S] + n[S]
  BY <1>6, <1>7, SigmaIs
<1>9. Sigma(f, S) = m[S] /\ Sigma(g, S) = n[S]
  BY <1>1, <1>2, SigmaIs
<1> QED BY <1>8, <1>9

\* A sum of naturals is one.
LEMMA SigmaNat ==
  ASSUME NEW S, IsFiniteSet(S), NEW f, \A x \in S : f[x] \in Nat
  PROVE  Sigma(f, S) \in Nat
<1> DEFINE Bad == {U \in SUBSET S : Sigma(f, U) \notin Nat}
<1> SUFFICES ASSUME Bad # {} PROVE FALSE
  OBVIOUS
<1>0. Bad \subseteq SUBSET S
  OBVIOUS
<1>1. PICK U \in Bad : \A V \in Bad : V \subseteq U => V = U
  <2> HIDE DEF Bad
  <2> QED BY <1>0, LeastSet
<1>2. \A x \in S : f[x] \in Int
  OBVIOUS
<1>3. U # {}
  <2>1. Sigma(f, {}) = 0
    BY <1>2, SigmaRules
  <2>2. Sigma(f, U) \notin Nat
    BY <1>1
  <2> HIDE DEF Bad
  <2>3. U = {} => Sigma(f, U) = 0
    BY <2>1
  <2> QED BY <2>2, <2>3
<1>4. PICK x : x \in U
  BY <1>3
<1> DEFINE V == U \ {x}
<1>5. V \in SUBSET S /\ x \in S \ V /\ V \union {x} = U /\ V # U
  BY <1>4
<1>6. Sigma(f, V) \in Nat
  BY <1>1, <1>5
<1> HIDE DEF V, Bad
<1>7. Sigma(f, U) = Sigma(f, V) + f[x]
  BY <1>2, <1>5, SigmaRules
<1>8. f[x] \in Nat
  BY <1>5
<1> QED BY <1>1, <1>6, <1>7, <1>8 DEF Bad

\* The sum over two sets that have nothing in common.
LEMMA SigmaUnion ==
  ASSUME NEW S, IsFiniteSet(S), NEW f, \A x \in S : f[x] \in Int,
         NEW A \in SUBSET S, NEW B \in SUBSET S, A \cap B = {}
  PROVE  Sigma(f, A \union B) = Sigma(f, A) + Sigma(f, B)
<1> DEFINE Ok(U) == Sigma(f, A \union U) = Sigma(f, A) + Sigma(f, U)
           Bad == {U \in SUBSET B : ~Ok(U)}
<1> SUFFICES ASSUME Bad # {} PROVE FALSE
  OBVIOUS
<1>0. Bad \subseteq SUBSET B /\ IsFiniteSet(B)
  BY FS_Subset
<1>1. PICK U \in Bad : \A V \in Bad : V \subseteq U => V = U
  <2> HIDE DEF Bad
  <2> QED BY <1>0, LeastSet
<1>2. \A V \in SUBSET S : Sigma(f, V) \in Int
  BY SigmaRules
<1>3. U # {}
  <2>1. A \union {} = A /\ Sigma(f, {}) = 0 /\ Sigma(f, A) \in Int
    BY <1>2, SigmaRules
  <2>2. Ok({})
    BY <2>1
  <2> QED BY <1>1, <2>2
<1>4. PICK x : x \in U
  BY <1>3
<1>5. PICK V : V = U \ {x}
  OBVIOUS
<1>6. V \in SUBSET B /\ V # U /\ V \in SUBSET S /\ A \union V \in SUBSET S
      /\ x \in S \ V /\ x \in S \ (A \union V)
      /\ V \union {x} = U /\ (A \union V) \union {x} = A \union U
  BY <1>1, <1>4, <1>5
<1>7. Ok(V)
  BY <1>1, <1>5, <1>6
<1> HIDE DEF Bad
<1>8. Sigma(f, U) = Sigma(f, V) + f[x] /\ Sigma(f, A \union U) = Sigma(f, A \union V) + f[x]
  <2>1. Sigma(f, V \union {x}) = Sigma(f, V) + f[x]
    BY <1>6, SigmaRules
  <2>2. PICK W : W = A \union V
    OBVIOUS
  <2>3. W \in SUBSET S /\ x \in S \ W /\ W \union {x} = A \union U
    BY <1>6, <2>2
  <2>4. Sigma(f, W \union {x}) = Sigma(f, W) + f[x]
    BY <2>3, SigmaRules
  <2> QED BY <1>6, <2>1, <2>2, <2>3, <2>4
<1>9. f[x] \in Int /\ Sigma(f, V) \in Int /\ Sigma(f, A) \in Int
  BY <1>2, <1>6
<1>10. Ok(U)
  BY <1>7, <1>8, <1>9
<1> QED BY <1>1, <1>10 DEF Bad

\* What is in the buckets Q of a labelling.
In(S, label, Q) == {x \in S : label[x] \in Q}

\* The labels put S into the buckets P, and h has the sum of f over each.
Bucketed(S, f, label, P, h) ==
  /\ IsFiniteSet(S) /\ \A x \in S : f[x] \in Int
  /\ IsFiniteSet(P) /\ \A x \in S : label[x] \in P
  /\ \A p \in P : h[p] = Sigma(f, In(S, label, {p}))

\* The sums of the buckets add up to the sum of all.
LEMMA SigmaBuckets ==
  ASSUME NEW S, NEW f, NEW label, NEW P, NEW h, Bucketed(S, f, label, P, h)
  PROVE  Sigma(h, P) = Sigma(f, S)
<1> USE DEF Bucketed
<1> DEFINE Ok(Q) == Sigma(h, Q) = Sigma(f, In(S, label, Q))
           Bad == {Q \in SUBSET P : ~Ok(Q)}
<1>a. \A Q : In(S, label, Q) \in SUBSET S
  BY DEF In
<1>b. \A V \in SUBSET S : Sigma(f, V) \in Int
  BY SigmaRules
<1>c. \A p \in P : h[p] \in Int
  BY <1>a, <1>b
<1>d. In(S, label, P) = S
  BY DEF In
<1> SUFFICES ASSUME Bad # {} PROVE FALSE
  <2>1. P \notin Bad => Ok(P)
    OBVIOUS
  <2> QED BY <1>d, <2>1
<1>0. Bad \subseteq SUBSET P
  OBVIOUS
<1>1. PICK Q \in Bad : \A R \in Bad : R \subseteq Q => R = Q
  <2> HIDE DEF Bad
  <2> QED BY <1>0, LeastSet
<1>2. Q # {}
  <2>1. In(S, label, {}) = {} /\ Sigma(f, {}) = 0
    BY SigmaRules DEF In
  <2>2. Sigma(h, {}) = 0
    BY <1>c, SigmaRules
  <2>3. Ok({})
    BY <2>1, <2>2
  <2> QED BY <1>1, <2>3
<1>3. PICK p : p \in Q
  BY <1>2
<1>4. PICK R : R = Q \ {p}
  OBVIOUS
<1>5. R \in SUBSET P /\ R # Q /\ p \in P \ R /\ R \union {p} = Q
  BY <1>1, <1>3, <1>4
<1>6. Ok(R)
  BY <1>1, <1>4, <1>5
<1> HIDE DEF Bad
<1>7. Sigma(h, Q) = Sigma(h, R) + h[p]
  <2>1. Sigma(h, R \union {p}) = Sigma(h, R) + h[p]
    BY <1>c, <1>5, SigmaRules
  <2> QED BY <1>5, <2>1
<1>8. Sigma(f, In(S, label, Q)) = Sigma(f, In(S, label, R)) + Sigma(f, In(S, label, {p}))
  <2>1. PICK A, B : A = In(S, label, R) /\ B = In(S, label, {p})
    OBVIOUS
  <2>2. In(S, label, Q) = A \union B /\ A \cap B = {}
    BY <1>5, <2>1 DEF In
  <2>3. A \in SUBSET S /\ B \in SUBSET S
    BY <1>a, <2>1
  <2>4. Sigma(f, A \union B) = Sigma(f, A) + Sigma(f, B)
    BY <2>2, <2>3, SigmaUnion
  <2> QED BY <2>1, <2>2, <2>4
<1>9. h[p] = Sigma(f, In(S, label, {p}))
  BY <1>5
<1>10. Ok(Q)
  BY <1>6, <1>7, <1>8, <1>9
<1> QED BY <1>1, <1>10 DEF Bad

\* Counting is adding ones.
LEMMA SigmaCard ==
  ASSUME NEW S, IsFiniteSet(S), NEW f, \A x \in S : f[x] = 1
  PROVE  \A U \in SUBSET S : Sigma(f, U) = Cardinality(U)
<1> DEFINE m == [U \in SUBSET S |-> Cardinality(U)]
<1>1. \A U \in SUBSET S : IsFiniteSet(U) /\ Cardinality(U) \in Int
  BY FS_Subset, FS_CardinalityType
<1>2. m \in [SUBSET S -> Int] /\ m[{}] = 0
  BY <1>1, FS_EmptySet
<1>3. ASSUME NEW U \in SUBSET S, NEW x \in S \ U PROVE m[U \union {x}] = m[U] + f[x]
  <2>1. Cardinality(U \union {x}) = Cardinality(U) + 1 /\ U \union {x} \in SUBSET S
    BY <1>1, FS_AddElement
  <2> QED BY <2>1
<1>4. Measure(m, f, S)
  BY <1>2, <1>3 DEF Measure
<1>5. \A x \in S : f[x] \in Int
  OBVIOUS
<1> HIDE DEF m
<1>6. \A U \in SUBSET S : Sigma(f, U) = m[U]
  BY <1>4, <1>5, SigmaIs
<1> QED BY <1>6 DEF m

\* One step of a sum over a set: any element, and the rest.
AnyOf(s) == CHOOSE x \in s : TRUE
AddUp(f, S, g) == [s \in SUBSET S |-> IF s = {} THEN 0 ELSE f[AnyOf(s)] + g[s \ {AnyOf(s)}]]

\* What goes on by that step is the sum.
LEMMA AddUpIsSigma ==
  ASSUME NEW S, IsFiniteSet(S), NEW f, \A x \in S : f[x] \in Int
  PROVE  /\ \E g : g = AddUp(f, S, g)
         /\ \A g : g = AddUp(f, S, g) => g[S] = Sigma(f, S)
<1>1. PICK m : Measure(m, f, S)
  BY MeasureExists
<1>2. \A s \in SUBSET S : s # {} => AnyOf(s) \in s
  BY DEF AnyOf
<1>3. m = AddUp(f, S, m)
  <2>1. m = [s \in SUBSET S |-> m[s]]
    BY <1>1 DEF Measure
  <2>2. ASSUME NEW s \in SUBSET S, s # {} PROVE m[s] = f[AnyOf(s)] + m[s \ {AnyOf(s)}]
    <3> DEFINE x == AnyOf(s)
               u == s \ {x}
    <3>1. x \in s /\ u \in SUBSET S /\ x \in S \ u /\ u \union {x} = s
      BY <1>2, <2>2
    <3> HIDE DEF x, u
    <3>2. m[u \union {x}] = m[u] + f[x] /\ m[u] \in Int /\ f[x] \in Int
      BY <1>1, <3>1 DEF Measure
    <3>3. m[s] = m[u] + f[x]
      BY <3>1, <3>2
    <3>4. m[u] + f[x] = f[x] + m[u]
      BY <3>2
    <3> QED BY <3>3, <3>4 DEF x, u
  <2>3. m[{}] = 0
    BY <1>1 DEF Measure
  <2>4. \A s \in SUBSET S : m[s] = IF s = {} THEN 0 ELSE f[AnyOf(s)] + m[s \ {AnyOf(s)}]
    BY <2>2, <2>3
  <2> QED BY <2>1, <2>4 DEF AddUp
<1>4. ASSUME NEW g, g = AddUp(f, S, g) PROVE g[S] = Sigma(f, S)
  <2>1. \A s \in SUBSET S : g[s] = IF s = {} THEN 0 ELSE f[AnyOf(s)] + g[s \ {AnyOf(s)}]
    BY <1>4 DEF AddUp
  <2>2. g[{}] = 0
    BY <2>1
  <2>3. \A s \in SUBSET S : s # {} => \E x \in s : g[s] = f[x] + g[s \ {x}]
    BY <1>2, <2>1
  <2>4. IsFold(g, f, S)
    BY <2>2, <2>3 DEF IsFold
  <2> QED BY <2>4, FoldIsSigma
<1> QED BY <1>3, <1>4

\* The image of a finite set is finite, and as large if no two have the same.
LEMMA FiniteImage ==
  ASSUME NEW S, IsFiniteSet(S), NEW f, NEW T, T = {f[x] : x \in S}
  PROVE  /\ IsFiniteSet(T)
         /\ (\A x, y \in S : f[x] = f[y] => x = y) => Cardinality(T) = Cardinality(S)
<1> DEFINE g == [x \in S |-> f[x]]
<1>1. g \in Surjection(S, T)
  BY DEF Surjection
<1>2. (\A x, y \in S : f[x] = f[y] => x = y) => g \in Injection(S, T)
  <2>1. g \in [S -> T] /\ \A x \in S : g[x] = f[x]
    OBVIOUS
  <2> HIDE DEF g
  <2> QED BY <2>1 DEF Injection, IsInjective
<1> HIDE DEF g
<1> QED BY <1>1, <1>2, FS_Surjection
=============================================================================
