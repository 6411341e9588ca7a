------------------------ MODULE RebalanceMatchProofs ------------------------
(***************************************************************************)
(* Proofs about RebalanceMatch for any cluster size, loads and import maps: *)
(* type correctness, NoOvershoot, SendsOnlyItsExcess, and that the plan     *)
(* balances the cluster.                                                    *)
(*                                                                         *)
(* The first part are facts about SumFunctionOnSet, with which             *)
(* RebalanceMatch adds up loads.  The induction theorems of the library    *)
(* take the induction hypothesis as an operator, which the provers cannot  *)
(* instantiate.  The proofs look at a smallest counterexample instead:     *)
(* SmallestSet is first-order.                                             *)
(***************************************************************************)
EXTENDS RebalanceMatch, FiniteSetTheorems, TLAPS

Pick(s) == CHOOSE x \in s : TRUE

(* g[s] is the sum of f over s, for every s within S.                       *)
IsSum(g, f, S) ==
  g = [s \in SUBSET S |-> IF s = {} THEN 0 ELSE f[Pick(s)] + g[s \ {Pick(s)}]]

(* A set that is not empty has a pick.                                      *)
LEMMA PickIn == ASSUME NEW s, s # {} PROVE Pick(s) \in s
BY DEF Pick

(* The sum is an iteration that takes out one picked element at a time.     *)
LEMMA SumIsIteration ==
  ASSUME NEW f, NEW S
  PROVE  SumFunctionOnSet(f, S) = (CHOOSE g : IsSum(g, f, S))[S]
BY Zenon DEF SumFunctionOnSet, FoldFunctionOnSet, MapThenFoldSet, IsSum, Pick

(* Of the subsets of a finite set that have a property, one is smallest.    *)
LEMMA SmallestSet ==
  ASSUME NEW S, IsFiniteSet(S), NEW Bad \in SUBSET (SUBSET S), Bad # {}
  PROVE  \E m \in Bad : \A t \in Bad : t \subseteq m => t = m
<1>1. IsWellFoundedOn(StrictSubsetOrdering(S), FiniteSubsetsOf(S))
  BY FS_StrictSubsetOrderingWellFounded
<1>2. Bad \subseteq FiniteSubsetsOf(S)
  BY FS_Subset DEF FiniteSubsetsOf
<1>3. \E m \in Bad : \A t \in Bad : ~ (<<t, m>> \in StrictSubsetOrdering(S))
  BY <1>1, <1>2, WFMin, Zenon
<1> QED BY <1>3, Zenon DEF StrictSubsetOrdering

(* A value of an iteration in terms of the one for a set with one element less. *)
LEMMA SumStep ==
  ASSUME NEW g, NEW f, NEW S, IsSum(g, f, S), NEW s \in SUBSET S
  PROVE  g[s] = IF s = {} THEN 0 ELSE f[Pick(s)] + g[s \ {Pick(s)}]
BY DEF IsSum

(* Iterations over different sets agree where both are defined.             *)
LEMMA SumUnique ==
  ASSUME NEW f, NEW S, NEW T, NEW g, NEW h, IsFiniteSet(S),
         IsSum(g, f, S), IsSum(h, f, T)
  PROVE  \A s \in SUBSET S : s \subseteq T => g[s] = h[s]
<1> DEFINE Bad == {s \in SUBSET S : s \subseteq T /\ g[s] # h[s]}
<1> SUFFICES ASSUME Bad # {} PROVE FALSE
  OBVIOUS
<1>1. PICK m \in Bad : \A t \in Bad : t \subseteq m => t = m
  <2>1. Bad \in SUBSET (SUBSET S)
    OBVIOUS
  <2> HIDE DEF Bad
  <2> QED BY <2>1, SmallestSet
<1>2. m \in SUBSET S /\ m \in SUBSET T /\ g[m] # h[m]
  OBVIOUS
<1>3. m # {}
  BY <1>2, SumStep, Zenon
<1>4. Pick(m) \in m
  BY <1>3, PickIn
<1>5. g[m \ {Pick(m)}] = h[m \ {Pick(m)}]
  BY <1>1, <1>2, <1>4
<1>6. g[m] = f[Pick(m)] + g[m \ {Pick(m)}]
  BY <1>2, <1>3, SumStep
<1>7. h[m] = f[Pick(m)] + h[m \ {Pick(m)}]
  BY <1>2, <1>3, SumStep
<1> QED BY <1>2, <1>5, <1>6, <1>7

(* The iteration is well defined on a finite set.                           *)
LEMMA SumExists ==
  ASSUME NEW f, NEW S, IsFiniteSet(S)
  PROVE  \E g : IsSum(g, f, S)
<1> DEFINE Bad == {s \in SUBSET S : ~ \E g : IsSum(g, f, s)}
<1> SUFFICES ASSUME Bad # {} PROVE FALSE
  OBVIOUS
<1>1. PICK m \in Bad : \A t \in Bad : t \subseteq m => t = m
  <2>1. Bad \in SUBSET (SUBSET S)
    OBVIOUS
  <2> HIDE DEF Bad
  <2> QED BY <2>1, SmallestSet
<1>2. m \in SUBSET S /\ ~ \E g : IsSum(g, f, m)
  OBVIOUS
<1>3. \A s \in SUBSET m : s # m => \E g : IsSum(g, f, s)
  BY <1>1, <1>2
<1> HIDE DEF Bad
<1> DEFINE it(s) == CHOOSE g : IsSum(g, f, s)
           G(s) == it(s)[s]
           k == [s \in SUBSET m |-> IF s = {} THEN 0 ELSE f[Pick(s)] + G(s \ {Pick(s)})]
<1>4. ASSUME NEW s \in SUBSET m, s # m PROVE IsSum(it(s), f, s)
  BY <1>3, <1>4, Zenon
<1>5. ASSUME NEW s \in SUBSET m, s # m PROVE k[s] = G(s)
  <2>1. IsSum(it(s), f, s)
    BY <1>4, <1>5, Zenon
  <2>2. CASE s = {}
    BY <2>1, <2>2, SumStep
  <2>3. CASE s # {}
    <3>1. Pick(s) \in s
      BY <2>3, PickIn
    <3> DEFINE u == s \ {Pick(s)}
    <3>2. u \in SUBSET m /\ u # m /\ u \in SUBSET s /\ u \in SUBSET u
      BY <3>1
    <3>3. IsSum(it(u), f, u)
      BY <1>4, <3>2, Zenon
    <3>4. IsFiniteSet(s)
      BY <1>2, FS_Subset
    <3>5. it(s)[u] = it(u)[u]
      <4> HIDE DEF it, u
      <4> QED BY <2>1, <3>2, <3>3, <3>4, SumUnique
    <3>6. it(s)[s] = f[Pick(s)] + it(s)[u]
      <4> HIDE DEF it
      <4> QED BY <2>1, <2>3, SumStep
    <3>7. k[s] = f[Pick(s)] + G(u)
      <4> HIDE DEF G
      <4> QED BY <2>3
    <3> QED BY <3>5, <3>6, <3>7, Zenon
  <2> QED BY <2>2, <2>3
<1>6. IsSum(k, f, m)
  <2> HIDE DEF G
  <2>1. ASSUME NEW s \in SUBSET m, s # {} PROVE k[s \ {Pick(s)}] = G(s \ {Pick(s)})
    <3>1. Pick(s) \in s
      BY <2>1, PickIn
    <3>2. s \ {Pick(s)} \in SUBSET m /\ s \ {Pick(s)} # m
      BY <3>1
    <3> HIDE DEF k
    <3> QED BY <1>5, <3>2
  <2>2. k = [s \in SUBSET m |-> IF s = {} THEN 0 ELSE f[Pick(s)] + k[s \ {Pick(s)}]]
    <3>1. \A s \in SUBSET m :
             (IF s = {} THEN 0 ELSE f[Pick(s)] + G(s \ {Pick(s)}))
              = (IF s = {} THEN 0 ELSE f[Pick(s)] + k[s \ {Pick(s)}])
      <4> HIDE DEF k
      <4> QED BY <2>1
    <3> QED BY <3>1, Zenon
  <2> HIDE DEF k
  <2> QED BY <2>2, Zenon DEF IsSum
<1> HIDE DEF k
<1> QED BY <1>2, <1>6

(* SumFunctionOnSet takes the elements one by one.                          *)
LEMMA SumUnfold ==
  ASSUME NEW f, NEW S, IsFiniteSet(S)
  PROVE  SumFunctionOnSet(f, S) =
           IF S = {} THEN 0 ELSE f[Pick(S)] + SumFunctionOnSet(f, S \ {Pick(S)})
<1> DEFINE it(s) == CHOOSE g : IsSum(g, f, s)
           u == S \ {Pick(S)}
<1>1. IsSum(it(S), f, S)
  BY SumExists, Zenon
<1>2. u \in SUBSET S /\ IsFiniteSet(u) /\ u \in SUBSET u
  BY FS_Subset
<1>3. IsSum(it(u), f, u)
  <2> HIDE DEF u
  <2> QED BY <1>2, SumExists, Zenon
<1>4. SumFunctionOnSet(f, S) = it(S)[S] /\ SumFunctionOnSet(f, u) = it(u)[u]
  <2> HIDE DEF u
  <2> QED BY SumIsIteration, Zenon
<1>5. it(S)[S] = IF S = {} THEN 0 ELSE f[Pick(S)] + it(S)[u]
  <2> HIDE DEF it
  <2> QED BY <1>1, SumStep
<1>6. it(S)[u] = it(u)[u]
  <2> HIDE DEF it, u
  <2> QED BY <1>1, <1>2, <1>3, SumUnique
<1> HIDE DEF it
<1> QED BY <1>4, <1>5, <1>6

(* The sum of nothing.                                                      *)
LEMMA SumEmpty == ASSUME NEW f PROVE SumFunctionOnSet(f, {}) = 0
BY SumUnfold, FS_EmptySet, Zenon

(* Sums of integers are integers.                                           *)
LEMMA SumInt ==
  ASSUME NEW f, NEW S, IsFiniteSet(S), \A x \in S : f[x] \in Int
  PROVE  SumFunctionOnSet(f, S) \in Int
<1> DEFINE Bad == {T \in SUBSET S : SumFunctionOnSet(f, T) \notin Int}
<1> SUFFICES ASSUME Bad # {} PROVE FALSE
  OBVIOUS
<1>1. PICK m \in Bad : \A t \in Bad : t \subseteq m => t = m
  <2>1. Bad \in SUBSET (SUBSET S)
    OBVIOUS
  <2> HIDE DEF Bad
  <2> QED BY <2>1, SmallestSet
<1>2. m \in SUBSET S /\ IsFiniteSet(m) /\ SumFunctionOnSet(f, m) \notin Int
  BY FS_Subset
<1>3. m # {}
  BY <1>2, SumEmpty
<1>4. Pick(m) \in m
  BY <1>3, PickIn
<1>5. SumFunctionOnSet(f, m \ {Pick(m)}) \in Int
  BY <1>1, <1>2, <1>4
<1>6. SumFunctionOnSet(f, m) = f[Pick(m)] + SumFunctionOnSet(f, m \ {Pick(m)})
  BY <1>2, <1>3, SumUnfold
<1>7. f[Pick(m)] \in Int
  BY <1>2, <1>4
<1> QED BY <1>2, <1>5, <1>6, <1>7

(* ... and any element can be taken first.                                  *)
LEMMA SumRemove ==
  ASSUME NEW f, NEW S, IsFiniteSet(S), \A x \in S : f[x] \in Int, NEW z \in S
  PROVE  SumFunctionOnSet(f, S) = f[z] + SumFunctionOnSet(f, S \ {z})
<1> DEFINE sum(T) == SumFunctionOnSet(f, T)
           Bad == {T \in SUBSET S : \E x \in T : sum(T) # f[x] + sum(T \ {x})}
<1> HIDE DEF sum
<1> SUFFICES ASSUME Bad # {} PROVE FALSE
  BY Zenon DEF sum
<1>1. PICK m \in Bad : \A t \in Bad : t \subseteq m => t = m
  <2>1. Bad \in SUBSET (SUBSET S)
    OBVIOUS
  <2> HIDE DEF Bad
  <2> QED BY <2>1, SmallestSet
<1>2. m \in SUBSET S
  OBVIOUS
<1>3. PICK x \in m : sum(m) # f[x] + sum(m \ {x})
  OBVIOUS
<1> DEFINE y == Pick(m)
<1>4. y \in m
  BY <1>3, PickIn
<1> HIDE DEF y
<1>5. \A T \in SUBSET S : IsFiniteSet(T) /\ sum(T) \in Int
  BY FS_Subset, SumInt DEF sum
<1>6. sum(m) = f[y] + sum(m \ {y})
  BY <1>2, <1>3, <1>5, SumUnfold DEF sum, y
<1>7. x # y
  BY <1>3, <1>6, Zenon
<1>8. sum(m \ {y}) = f[x] + sum((m \ {y}) \ {x})
  <2>1. m \ {y} \notin Bad
    BY <1>1, <1>4, Zenon
  <2> QED BY <1>2, <1>7, <2>1, Zenon
<1>9. sum(m \ {x}) = f[y] + sum((m \ {x}) \ {y})
  <2>1. m \ {x} \notin Bad
    BY <1>1, <1>3, Zenon
  <2> QED BY <1>2, <1>4, <1>7, <2>1, Zenon
<1>10. (m \ {y}) \ {x} = (m \ {x}) \ {y}
  OBVIOUS
<1>11. /\ f[x] \in Int /\ f[y] \in Int /\ sum((m \ {x}) \ {y}) \in Int
      /\ sum(m \ {x}) \in Int /\ sum(m \ {y}) \in Int
  BY <1>2, <1>3, <1>4, <1>5
<1> QED BY <1>3, <1>6, <1>8, <1>9, <1>10, <1>11

(* Sums of larger values are larger.                                        *)
LEMMA SumMonotone ==
  ASSUME NEW f, NEW g, NEW S, IsFiniteSet(S),
         \A x \in S : f[x] \in Int /\ g[x] \in Int /\ f[x] <= g[x]
  PROVE  SumFunctionOnSet(f, S) <= SumFunctionOnSet(g, S)
<1> DEFINE sum(h, T) == SumFunctionOnSet(h, T)
           Bad == {T \in SUBSET S : ~ (sum(f, T) <= sum(g, T))}
<1> HIDE DEF sum
<1> SUFFICES ASSUME Bad # {} PROVE FALSE
  BY DEF sum
<1>1. PICK m \in Bad : \A t \in Bad : t \subseteq m => t = m
  <2>1. Bad \in SUBSET (SUBSET S)
    OBVIOUS
  <2> HIDE DEF Bad
  <2> QED BY <2>1, SmallestSet
<1>2. m \in SUBSET S /\ IsFiniteSet(m) /\ ~ (sum(f, m) <= sum(g, m))
  BY FS_Subset
<1>3. m # {}
  BY <1>2, SumEmpty DEF sum
<1>4. PICK x \in m : TRUE
  BY <1>3
<1>5. sum(f, m \ {x}) <= sum(g, m \ {x})
  <2>1. m \ {x} \notin Bad
    BY <1>1, <1>4
  <2> QED BY <1>2, <2>1
<1>6. sum(f, m) = f[x] + sum(f, m \ {x}) /\ sum(g, m) = g[x] + sum(g, m \ {x})
  BY <1>2, <1>4, SumRemove DEF sum
<1>7. f[x] \in Int /\ g[x] \in Int /\ f[x] <= g[x]
  BY <1>2, <1>4
<1>8. sum(f, m \ {x}) \in Int /\ sum(g, m \ {x}) \in Int
  BY <1>2, FS_Subset, SumInt DEF sum
<1> QED BY <1>2, <1>5, <1>6, <1>7, <1>8

(* A common factor.                                                         *)
LEMMA SumScale ==
  ASSUME NEW f, NEW g, NEW S, IsFiniteSet(S), NEW n \in Int,
         \A x \in S : f[x] \in Int /\ g[x] = n * f[x]
  PROVE  SumFunctionOnSet(g, S) = n * SumFunctionOnSet(f, S)
<1> DEFINE sum(h, T) == SumFunctionOnSet(h, T)
           Bad == {T \in SUBSET S : ~ (sum(g, T) = n * sum(f, T))}
<1> HIDE DEF sum
<1> SUFFICES ASSUME Bad # {} PROVE FALSE
  BY DEF sum
<1>1. PICK m \in Bad : \A t \in Bad : t \subseteq m => t = m
  <2>1. Bad \in SUBSET (SUBSET S)
    OBVIOUS
  <2> HIDE DEF Bad
  <2> QED BY <2>1, SmallestSet
<1>2. m \in SUBSET S /\ IsFiniteSet(m) /\ ~ (sum(g, m) = n * sum(f, m))
  BY FS_Subset
<1>3. m # {}
  <2>1. sum(f, {}) = 0 /\ sum(g, {}) = 0
    BY SumEmpty DEF sum
  <2>2. n * 0 = 0
    OBVIOUS
  <2> QED BY <1>2, <2>1, <2>2
<1>4. PICK x \in m : TRUE
  BY <1>3
<1>5. sum(g, m \ {x}) = n * sum(f, m \ {x})
  <2>1. m \ {x} \notin Bad
    BY <1>1, <1>4
  <2> QED BY <1>2, <2>1
<1>6. \A y \in m : f[y] \in Int /\ g[y] = n * f[y] /\ g[y] \in Int
  BY <1>2
<1>7. sum(f, m) = f[x] + sum(f, m \ {x}) /\ sum(g, m) = g[x] + sum(g, m \ {x})
  BY <1>2, <1>4, <1>6, SumRemove DEF sum
<1>8. sum(f, m \ {x}) \in Int
  BY <1>2, FS_Subset, SumInt DEF sum
<1> QED BY <1>2, <1>4, <1>5, <1>6, <1>7, <1>8

(* The sum of a constant.                                                   *)
LEMMA SumConstant ==
  ASSUME NEW f, NEW S, IsFiniteSet(S), NEW c \in Int, \A x \in S : f[x] = c
  PROVE  SumFunctionOnSet(f, S) = Cardinality(S) * c
<1> DEFINE sum(T) == SumFunctionOnSet(f, T)
           Bad == {T \in SUBSET S : ~ (sum(T) = Cardinality(T) * c)}
<1> HIDE DEF sum
<1> SUFFICES ASSUME Bad # {} PROVE FALSE
  BY DEF sum
<1>1. PICK m \in Bad : \A t \in Bad : t \subseteq m => t = m
  <2>1. Bad \in SUBSET (SUBSET S)
    OBVIOUS
  <2> HIDE DEF Bad
  <2> QED BY <2>1, SmallestSet
<1>2. m \in SUBSET S /\ IsFiniteSet(m) /\ ~ (sum(m) = Cardinality(m) * c)
  BY FS_Subset
<1>3. m # {}
  BY <1>2, SumEmpty, FS_EmptySet DEF sum
<1>4. PICK x \in m : TRUE
  BY <1>3
<1>5. sum(m \ {x}) = Cardinality(m \ {x}) * c
  <2>1. m \ {x} \notin Bad
    BY <1>1, <1>4
  <2> QED BY <1>2, <2>1
<1>6. sum(m) = c + sum(m \ {x})
  BY <1>2, <1>4, SumRemove DEF sum
<1>7. Cardinality(m \ {x}) = Cardinality(m) - 1 /\ Cardinality(m) \in Nat
  BY <1>2, <1>4, FS_RemoveElement, FS_CardinalityType, Zenon
<1> QED BY <1>2, <1>5, <1>6, <1>7

(* What changes one value changes the sum by as much.                       *)
LEMMA SumUpdate ==
  ASSUME NEW f, NEW g, NEW S, IsFiniteSet(S), NEW x \in S,
         \A y \in S : f[y] \in Int /\ g[y] \in Int /\ (y # x => g[y] = f[y])
  PROVE  SumFunctionOnSet(g, S) - g[x] = SumFunctionOnSet(f, S) - f[x]
<1> DEFINE T == S \ {x}
<1>1. IsFiniteSet(T)
  BY FS_Subset
<1>2. \A y \in T : f[y] \in Int /\ g[y] \in Int /\ f[y] <= g[y] /\ g[y] <= f[y]
  OBVIOUS
<1>3. /\ SumFunctionOnSet(f, S) = f[x] + SumFunctionOnSet(f, T)
      /\ SumFunctionOnSet(g, S) = g[x] + SumFunctionOnSet(g, T)
  BY SumRemove
<1> HIDE DEF T
<1>4. /\ SumFunctionOnSet(f, T) <= SumFunctionOnSet(g, T)
      /\ SumFunctionOnSet(g, T) <= SumFunctionOnSet(f, T)
  BY <1>1, <1>2, SumMonotone
<1>5. SumFunctionOnSet(f, T) \in Int /\ SumFunctionOnSet(g, T) \in Int
  BY <1>1, <1>2, SumInt
<1> QED BY <1>3, <1>4, <1>5

(* The sum of sums.                                                         *)
LEMMA SumAdd ==
  ASSUME NEW f, NEW g, NEW h, NEW S, IsFiniteSet(S),
         \A x \in S : f[x] \in Int /\ g[x] \in Int /\ h[x] = f[x] + g[x]
  PROVE  SumFunctionOnSet(h, S) = SumFunctionOnSet(f, S) + SumFunctionOnSet(g, S)
<1> DEFINE sum(k, T) == SumFunctionOnSet(k, T)
           Bad == {T \in SUBSET S : sum(h, T) # sum(f, T) + sum(g, T)}
<1> HIDE DEF sum
<1> SUFFICES ASSUME Bad # {} PROVE FALSE
  BY DEF sum
<1>1. PICK m \in Bad : \A t \in Bad : t \subseteq m => t = m
  <2>1. Bad \in SUBSET (SUBSET S)
    OBVIOUS
  <2> HIDE DEF Bad
  <2> QED BY <2>1, SmallestSet
<1>2. m \in SUBSET S /\ IsFiniteSet(m) /\ sum(h, m) # sum(f, m) + sum(g, m)
  BY FS_Subset
<1>3. m # {}
  BY <1>2, SumEmpty DEF sum
<1>4. PICK x \in m : TRUE
  BY <1>3
<1>5. sum(h, m \ {x}) = sum(f, m \ {x}) + sum(g, m \ {x})
  <2>1. m \ {x} \notin Bad
    BY <1>1, <1>4
  <2> QED BY <1>2, <2>1
<1>6. \A y \in m : /\ f[y] \in Int /\ g[y] \in Int /\ h[y] \in Int
                   /\ h[y] = f[y] + g[y]
  BY <1>2
<1>7. /\ sum(f, m) = f[x] + sum(f, m \ {x}) /\ sum(g, m) = g[x] + sum(g, m \ {x})
      /\ sum(h, m) = h[x] + sum(h, m \ {x})
  BY <1>2, <1>4, <1>6, SumRemove DEF sum
<1>8. sum(f, m \ {x}) \in Int /\ sum(g, m \ {x}) \in Int
  BY <1>2, FS_Subset, SumInt DEF sum
<1> QED BY <1>2, <1>4, <1>5, <1>6, <1>7, <1>8

(* Sums of natural numbers are natural numbers.                             *)
LEMMA SumNat ==
  ASSUME NEW f, NEW S, IsFiniteSet(S), \A x \in S : f[x] \in Nat
  PROVE  SumFunctionOnSet(f, S) \in Nat
<1> DEFINE z == [x \in S |-> 0]
<1>1. \A x \in S : z[x] \in Int /\ f[x] \in Int /\ z[x] <= f[x]
  OBVIOUS
<1>2. \A x \in S : z[x] = 0
  OBVIOUS
<1> HIDE DEF z
<1>3. SumFunctionOnSet(z, S) = Cardinality(S) * 0 /\ Cardinality(S) \in Nat
  BY <1>2, SumConstant, FS_CardinalityType
<1>4. SumFunctionOnSet(z, S) <= SumFunctionOnSet(f, S)
  BY <1>1, SumMonotone
<1>5. SumFunctionOnSet(f, S) \in Int
  BY <1>1, SumInt
<1> QED BY <1>3, <1>4, <1>5

(* A term is no more than the sum of natural numbers.                       *)
LEMMA SumBounds ==
  ASSUME NEW f, NEW S, IsFiniteSet(S), \A x \in S : f[x] \in Nat, NEW z \in S
  PROVE  f[z] <= SumFunctionOnSet(f, S)
<1> DEFINE T == S \ {z}
<1>1. IsFiniteSet(T) /\ \A x \in T : f[x] \in Nat
  BY FS_Subset
<1>2. SumFunctionOnSet(f, S) = f[z] + SumFunctionOnSet(f, T)
  BY SumRemove
<1> HIDE DEF T
<1>3. SumFunctionOnSet(f, T) \in Nat
  BY <1>1, SumNat
<1> QED BY <1>2, <1>3
-----------------------------------------------------------------------------
Total(f) == SumFunctionOnSet(f, Ranks)

(* There are N ranks.                                                       *)
LEMMA RanksFinite == IsFiniteSet(Ranks) /\ Cardinality(Ranks) = N
<1>1. N \in Nat /\ N # 0
  BY MatchAssumption
<1> QED BY <1>1, FS_Interval DEF Ranks

(* What the loops keep: the ranks still to visit are of the right kind, and *)
(* nobody is matched beyond its bound.                                      *)
IInv ==
  /\ TypeOK
  /\ pc = "imports" => exs \subseteq exporters
  /\ pc = "pairs" => exs \subseteq exporters /\ ims \subseteq importers
  /\ NoOvershoot

(* try_match between an exporter and an importer that are within their      *)
(* bounds keeps both there and touches no one else.                         *)
LEMMA MatchKeepsBounds ==
  ASSUME IInv, pc # "idle", NEW ex \in exporters, NEW im \in importers,
         get_maxex(ex) >= 0, get_maxim(im) >= 0, try_match(ex, im),
         UNCHANGED <<mds_meta_load, target_load>>
  PROVE  /\ exported' \in [Ranks -> Nat] /\ imported' \in [Ranks -> Nat]
         /\ my_targets' \in [Ranks -> Nat]
         /\ \A r \in Ranks : exported'[r] <= Excess(r)' /\ imported'[r] <= Room(r)'
<1> DEFINE howmuch == Smaller(get_maxex(ex), get_maxim(im))
<1>1. /\ mds_meta_load \in [Ranks -> Nat] /\ target_load \in Nat
      /\ exported \in [Ranks -> Nat] /\ imported \in [Ranks -> Nat]
      /\ my_targets \in [Ranks -> Nat]
      /\ ex \in Ranks /\ im \in Ranks
  BY DEF IInv, TypeOK, exporters, importers
<1>2. \A r \in Ranks : exported[r] <= Excess(r) /\ imported[r] <= Room(r)
  BY DEF IInv, NoOvershoot
<1>3. /\ howmuch \in Nat
      /\ howmuch <= get_maxex(ex) /\ howmuch <= get_maxim(im)
  BY <1>1 DEF Smaller, get_maxex, get_maxim
<1>5. /\ exported' = [exported EXCEPT ![ex] = @ + howmuch]
      /\ imported' = [imported EXCEPT ![im] = @ + howmuch]
      /\ my_targets' = IF ex = whoami THEN [my_targets EXCEPT ![im] = @ + howmuch]
                       ELSE my_targets
  BY DEF try_match
<1> HIDE DEF howmuch
<1>6. \A r \in Ranks : Excess(r)' = Excess(r) /\ Room(r)' = Room(r)
  BY DEF Excess, Room, exporters, importers
<1>7. \A r \in Ranks : exported'[r] <= Excess(r)
  <2>1. TAKE r \in Ranks
  <2>2. CASE r = ex
    BY <1>1, <1>3, <1>5, <2>2 DEF Excess, get_maxex
  <2>3. CASE r # ex
    BY <1>1, <1>2, <1>5, <2>3
  <2> QED BY <2>2, <2>3
<1>8. \A r \in Ranks : imported'[r] <= Room(r)
  <2>1. TAKE r \in Ranks
  <2>2. CASE r = im
    BY <1>1, <1>3, <1>5, <2>2 DEF Room, get_maxim
  <2>3. CASE r # im
    BY <1>1, <1>2, <1>5, <2>3
  <2> QED BY <2>2, <2>3
<1>9. exported' \in [Ranks -> Nat] /\ imported' \in [Ranks -> Nat]
  BY <1>1, <1>3, <1>5
<1>10. my_targets' \in [Ranks -> Nat]
  BY <1>1, <1>3, <1>5
<1> QED BY <1>6, <1>7, <1>8, <1>9, <1>10

(* The loads of a call add up to a natural number.                          *)
LEMMA LoadsAddUp ==
  ASSUME NEW loads \in Loads
  PROVE  /\ loads \in [Ranks -> Nat] /\ N \in Nat /\ IsFiniteSet(Ranks)
         /\ SumFunction(loads) = SumFunctionOnSet(loads, Ranks)
         /\ SumFunction(loads) \in Nat
<1>1. loads \in [Ranks -> Nat] /\ N \in Nat
  BY MatchAssumption
<1>2. IsFiniteSet(Ranks)
  BY RanksFinite
<1>3. SumFunction(loads) = SumFunctionOnSet(loads, Ranks)
  BY <1>1 DEF SumFunction
<1>4. SumFunctionOnSet(loads, Ranks) \in Nat
  BY <1>1, <1>2, SumNat
<1> QED BY <1>1, <1>2, <1>3, <1>4

(* The initial state, before the first call of prep_rebalance.              *)
LEMMA InitEstablishes == Init => IInv
<1> SUFFICES ASSUME Init PROVE IInv
  OBVIOUS
<1>1. Zero \in [Ranks -> Nat] /\ [r \in Ranks |-> {}] \in [Ranks -> SUBSET Ranks]
  BY DEF Zero
<1>2. beat_odd \in BOOLEAN
  BY DEF Init
<1>3. TypeOK
  BY <1>1, <1>2 DEF Init, TypeOK
<1> QED BY <1>3 DEF Init, IInv, NoOvershoot

(* A call that takes up new loads; the loops find everything reset.         *)
LEMMA CallKeeps ==
  ASSUME IInv, NEW loads \in Loads, NEW imports \in ImportMaps, NEW odd \in BOOLEAN,
         NEW epoch \in Epochs, prep_rebalance(loads, imports, odd, epoch)
  PROVE  IInv'
<1>1. loads \in [Ranks -> Nat] /\ SumFunction(loads) \in Nat /\ N \in Nat
  BY LoadsAddUp
<1>2. mds_meta_load' \in [Ranks -> Nat] /\ target_load' \in Nat
  BY <1>1 DEF prep_rebalance, TakeLoads
<1>3. mds_import_map' \in [Ranks -> SUBSET Ranks] /\ beat_odd' \in BOOLEAN
  BY MatchAssumption DEF prep_rebalance, TakeLoads
<1>4. last_epoch_under' \in Nat
  BY MatchAssumption DEF prep_rebalance, Decide, IInv, TypeOK
<1>5. exporters' \subseteq Ranks
  BY DEF exporters
<1>6. /\ \/ pc' = "imports" /\ exs' = exporters'
         \/ pc' = "idle" /\ exs' = {}
      /\ left' = mds_import_map' /\ ims' = ims
  BY Zenon DEF prep_rebalance, Decide
<1>7. exported' = Zero /\ imported' = Zero /\ my_targets' = Zero
  BY DEF prep_rebalance
<1>8. TypeOK'
  BY <1>2, <1>3, <1>4, <1>5, <1>6, <1>7 DEF IInv, TypeOK, Zero
<1>9. NoOvershoot'
  BY <1>2, <1>7 DEF NoOvershoot, Zero, Excess, Room, exporters, importers
<1> QED BY <1>6, <1>8, <1>9 DEF IInv

(* Every step of the balancer keeps the invariant.                          *)
LEMMA NextKeeps == IInv /\ [Next]_vars => IInv'
<1> SUFFICES ASSUME IInv, [Next]_vars PROVE IInv'
  OBVIOUS
<1> USE DEF IInv
<1>1. CASE ThrashExports
  <2>1. my_targets' \in [Ranks -> Nat]
    BY <1>1 DEF ThrashExports, Zero
  <2> QED BY <1>1, <2>1 DEF ThrashExports, inputs, TypeOK, NoOvershoot
<1>2. ASSUME NEW loads \in Loads, NEW imports \in ImportMaps, NEW odd \in BOOLEAN,
             NEW epoch \in Epochs, prep_rebalance(loads, imports, odd, epoch)
      PROVE  IInv'
  BY <1>2, CallKeeps
<1>3. CASE MatchImportSource
  <2>1. PICK ex \in exs : /\ get_maxex(ex) > Tiny
                          /\ \E im \in left[ex] :
                               /\ left' = [left EXCEPT ![ex] = @ \ {im}]
                               /\ \/ get_maxim(im) > Tiny /\ try_match(ex, im)
                                  \/ UNCHANGED <<exported, imported, my_targets>>
    BY <1>3, Zenon DEF MatchImportSource
  <2>2. PICK im \in left[ex] :
          /\ left' = [left EXCEPT ![ex] = @ \ {im}]
          /\ \/ get_maxim(im) > Tiny /\ try_match(ex, im)
             \/ UNCHANGED <<exported, imported, my_targets>>
    BY <2>1, Zenon
  <2>3. /\ ex \in exporters /\ im \in Ranks
        /\ pc = "imports" /\ pc' = pc /\ exs' = exs /\ ims' = ims
        /\ UNCHANGED inputs
    BY <1>3 DEF MatchImportSource, TypeOK
  <2>4. exporters' = exporters
    BY <2>3 DEF inputs, exporters, importers
  <2>5. left' \in [Ranks -> SUBSET Ranks]
    BY <2>2 DEF TypeOK
  <2>6. CASE get_maxim(im) > Tiny /\ try_match(ex, im)
    <3>0. get_maxex(ex) >= 0 /\ get_maxim(im) >= 0 /\ im \in importers
      BY <2>1, <2>3, <2>6, MatchAssumption DEF TypeOK, get_maxex, get_maxim, importers, exporters
    <3>1. /\ exported' \in [Ranks -> Nat] /\ imported' \in [Ranks -> Nat]
          /\ my_targets' \in [Ranks -> Nat]
          /\ \A r \in Ranks : exported'[r] <= Excess(r)' /\ imported'[r] <= Room(r)'
      BY <2>3, <2>6, <3>0, MatchKeepsBounds DEF inputs
    <3> QED BY <2>3, <2>4, <2>5, <3>1 DEF TypeOK, NoOvershoot, inputs
  <2>7. CASE UNCHANGED <<exported, imported, my_targets>>
    BY <2>3, <2>4, <2>5, <2>7
    DEF TypeOK, NoOvershoot, inputs, Excess, Room, exporters, importers
  <2> QED BY <2>2, <2>6, <2>7
<1>4. CASE NextExporter
  <2>1. exs' \subseteq exs /\ pc' = "imports" /\ UNCHANGED inputs
    BY <1>4 DEF NextExporter
  <2> QED BY <1>4, <2>1 DEF NextExporter, TypeOK, NoOvershoot, inputs, Excess, Room,
                            exporters, importers
<1>5. CASE StartPairs
  BY <1>5 DEF StartPairs, TypeOK, NoOvershoot, inputs, Excess, Room, exporters, importers
<1>6. CASE MatchPair
  <2>1. PICK ex \in exs, im \in ims :
          /\ get_maxex(ex) >= Tiny /\ get_maxim(im) >= Tiny /\ try_match(ex, im)
          /\ exs' \subseteq exs /\ ims' \subseteq ims
    BY <1>6 DEF MatchPair
  <2>2. /\ ex \in exporters /\ im \in importers
        /\ pc = "pairs" /\ pc' = pc
        /\ UNCHANGED inputs /\ UNCHANGED left
    BY <1>6 DEF MatchPair
  <2>3. exporters' = exporters /\ importers' = importers
    BY <2>2 DEF inputs, exporters, importers
  <2>4. get_maxex(ex) >= 0 /\ get_maxim(im) >= 0
    BY <2>1, <2>2, MatchAssumption DEF TypeOK, get_maxex, get_maxim, importers, exporters
  <2>5. /\ exported' \in [Ranks -> Nat] /\ imported' \in [Ranks -> Nat]
        /\ my_targets' \in [Ranks -> Nat]
        /\ \A r \in Ranks : exported'[r] <= Excess(r)' /\ imported'[r] <= Room(r)'
    BY <2>1, <2>2, <2>4, MatchKeepsBounds DEF inputs
  <2> QED BY <2>1, <2>2, <2>3, <2>5 DEF TypeOK, NoOvershoot, inputs
<1>7. CASE PairsDone
  BY <1>7 DEF PairsDone, TypeOK, NoOvershoot, inputs
<1>8. CASE UNCHANGED vars
  BY <1>8 DEF vars, inputs, TypeOK, NoOvershoot, Excess, Room, exporters, importers
<1> QED BY <1>1, <1>2, <1>3, <1>4, <1>5, <1>6, <1>7, <1>8 DEF Next, Match

(* prep_rebalance keeps the balancer's state well formed, for every cluster *)
(* size, loads and import maps.                                             *)
THEOREM TypeCorrect == Spec => []TypeOK
<1>1. Init => IInv
  BY InitEstablishes
<1>2. IInv /\ [Next]_vars => IInv'
  BY NextKeeps
<1>3. IInv => TypeOK
  BY DEF IInv
<1> QED BY <1>1, <1>2, <1>3, PTL DEF Spec

(* prep_rebalance never plans to take an exporter below the target load, or *)
(* an importer above it.                                                    *)
THEOREM NoOvershootAlways == Spec => []NoOvershoot
<1>1. Init => IInv
  BY InitEstablishes
<1>2. IInv /\ [Next]_vars => IInv'
  BY NextKeeps
<1>3. IInv => NoOvershoot
  BY DEF IInv
<1> QED BY <1>1, <1>2, <1>3, PTL DEF Spec

-----------------------------------------------------------------------------
(* my_targets is this rank's share of the plan.                             *)
Share ==
  /\ Total(my_targets) <= Excess(whoami)
  /\ \A im \in Ranks : my_targets[im] <= Room(im)
  /\ pc # "idle" => /\ Total(my_targets) <= exported[whoami]
                    /\ \A im \in Ranks : my_targets[im] <= imported[im]

(* Nothing adds up to nothing.                                              *)
LEMMA TotalZero == Total(Zero) = 0
<1>1. \A r \in Ranks : Zero[r] = 0
  BY DEF Zero
<1>2. Total(Zero) = N * 0
  BY <1>1, RanksFinite, SumConstant DEF Total
<1> QED BY <1>2, MatchAssumption

(* A rank with nothing to send keeps to its share.                          *)
LEMMA NothingIsShared == TypeOK /\ my_targets = Zero => Share
<1> SUFFICES ASSUME TypeOK, my_targets = Zero PROVE Share
  OBVIOUS
<1>1. \A r \in Ranks : /\ Excess(r) \in Nat /\ Room(r) \in Nat
                       /\ exported[r] \in Nat /\ imported[r] \in Nat
  BY DEF TypeOK, Excess, Room, exporters, importers
<1>2. \A r \in Ranks : my_targets[r] = 0
  BY DEF Zero
<1>3. Total(my_targets) = 0
  BY TotalZero
<1>4. whoami \in Ranks
  BY MatchAssumption
<1> QED BY <1>1, <1>2, <1>3, <1>4 DEF Share

(* try_match adds to my_targets no more than to exported and imported.      *)
LEMMA MatchKeepsShare ==
  ASSUME IInv, Share, pc # "idle", pc' = pc, NEW ex \in exporters, NEW im \in importers,
         get_maxex(ex) >= 0, get_maxim(im) >= 0, try_match(ex, im),
         UNCHANGED <<mds_meta_load, target_load>>
  PROVE  Share'
<1> DEFINE howmuch == Smaller(get_maxex(ex), get_maxim(im))
<1>1. /\ exported \in [Ranks -> Nat] /\ imported \in [Ranks -> Nat]
      /\ my_targets \in [Ranks -> Nat]
      /\ ex \in Ranks /\ im \in Ranks /\ whoami \in Ranks
  BY MatchAssumption DEF IInv, TypeOK, exporters, importers
<1>2. /\ exported' \in [Ranks -> Nat] /\ imported' \in [Ranks -> Nat]
      /\ my_targets' \in [Ranks -> Nat]
      /\ \A r \in Ranks : exported'[r] <= Excess(r)' /\ imported'[r] <= Room(r)'
  BY MatchKeepsBounds
<1>3. howmuch \in Nat
  BY <1>1 DEF Smaller, get_maxex, get_maxim, IInv, TypeOK
<1>4. /\ exported' = [exported EXCEPT ![ex] = @ + howmuch]
      /\ imported' = [imported EXCEPT ![im] = @ + howmuch]
      /\ my_targets' = IF ex = whoami THEN [my_targets EXCEPT ![im] = @ + howmuch]
                       ELSE my_targets
  BY DEF try_match
<1> HIDE DEF howmuch
<1>5. Total(my_targets) \in Nat /\ Total(my_targets') \in Nat
  BY <1>1, <1>2, RanksFinite, SumNat DEF Total
<1>6. Total(my_targets) <= exported[whoami] /\ \A r \in Ranks : my_targets[r] <= imported[r]
  BY DEF Share
<1>7. \A r \in Ranks : my_targets'[r] <= imported'[r]
  BY <1>1, <1>3, <1>4, <1>6
<1>8. Total(my_targets') <= exported'[whoami]
  <2>1. CASE ex = whoami
    <3>1. \A y \in Ranks : /\ my_targets[y] \in Int /\ my_targets'[y] \in Int
                           /\ y # im => my_targets'[y] = my_targets[y]
      BY <1>1, <1>2, <1>4, <2>1
    <3>2. Total(my_targets') - my_targets'[im] = Total(my_targets) - my_targets[im]
      BY <1>1, <3>1, RanksFinite, SumUpdate DEF Total
    <3>3. /\ my_targets'[im] = my_targets[im] + howmuch /\ my_targets[im] \in Nat
          /\ exported'[whoami] = exported[whoami] + howmuch /\ exported[whoami] \in Nat
      BY <1>1, <1>4, <2>1
    <3> QED BY <1>3, <1>5, <1>6, <3>2, <3>3
  <2>2. CASE ex # whoami
    <3>1. my_targets' = my_targets /\ exported'[whoami] = exported[whoami]
      BY <1>1, <1>4, <2>2
    <3> QED BY <1>6, <3>1
  <2> QED BY <2>1, <2>2
<1>9. \A r \in Ranks : /\ exported'[r] \in Int /\ imported'[r] \in Int /\ my_targets'[r] \in Int
                       /\ Excess(r)' \in Int /\ Room(r)' \in Int
  BY <1>2 DEF Excess, Room, exporters, importers, IInv, TypeOK
<1>10. /\ Total(my_targets') <= Excess(whoami)'
       /\ \A r \in Ranks : my_targets'[r] <= Room(r)'
  BY <1>1, <1>2, <1>5, <1>7, <1>8, <1>9
<1>11. Total(my_targets)' = Total(my_targets')
  BY DEF Total
<1> QED BY <1>7, <1>8, <1>10, <1>11 DEF Share

(* Every step of the balancer keeps to the share.                           *)
LEMMA ShareKept == IInv /\ Share /\ [Next]_vars => Share'
<1> SUFFICES ASSUME IInv, Share, [Next]_vars PROVE Share'
  OBVIOUS
<1>0. TypeOK'
  BY NextKeeps DEF IInv
<1>1. CASE ThrashExports
  <2>1. my_targets' = Zero
    BY <1>1 DEF ThrashExports
  <2>2. (TypeOK /\ my_targets = Zero)'
    BY <1>0, <2>1 DEF Zero
  <2> QED BY <2>2, NothingIsShared, PTL
<1>2. ASSUME NEW loads \in Loads, NEW imports \in ImportMaps, NEW odd \in BOOLEAN,
             NEW epoch \in Epochs, prep_rebalance(loads, imports, odd, epoch)
      PROVE  Share'
  <2>1. my_targets' = Zero
    BY <1>2 DEF prep_rebalance
  <2>2. (TypeOK /\ my_targets = Zero)'
    BY <1>0, <2>1 DEF Zero
  <2> QED BY <2>2, NothingIsShared, PTL
<1>3. CASE MatchImportSource
  <2>1. PICK ex \in exs : /\ get_maxex(ex) > Tiny
                          /\ \E im \in left[ex] :
                               \/ get_maxim(im) > Tiny /\ try_match(ex, im)
                               \/ UNCHANGED <<exported, imported, my_targets>>
    BY <1>3 DEF MatchImportSource
  <2>2. PICK im \in left[ex] : \/ get_maxim(im) > Tiny /\ try_match(ex, im)
                               \/ UNCHANGED <<exported, imported, my_targets>>
    BY <2>1
  <2>3. /\ ex \in exporters /\ im \in Ranks /\ pc # "idle" /\ pc' = pc
        /\ UNCHANGED <<mds_meta_load, target_load>>
    BY <1>3 DEF MatchImportSource, IInv, TypeOK, inputs, exporters
  <2>4. CASE get_maxim(im) > Tiny /\ try_match(ex, im)
    <3>1. get_maxex(ex) >= 0 /\ get_maxim(im) >= 0 /\ im \in importers
      BY <2>1, <2>3, <2>4, MatchAssumption
      DEF IInv, TypeOK, get_maxex, get_maxim, importers, exporters
    <3> QED BY <2>3, <2>4, <3>1, MatchKeepsShare
  <2>5. CASE UNCHANGED <<exported, imported, my_targets>>
    BY <2>3, <2>5 DEF Share, Total, Excess, Room, exporters, importers
  <2> QED BY <2>2, <2>4, <2>5
<1>4. CASE MatchPair
  <2>1. PICK ex \in exs, im \in ims :
          get_maxex(ex) >= Tiny /\ get_maxim(im) >= Tiny /\ try_match(ex, im)
    BY <1>4 DEF MatchPair
  <2>2. /\ ex \in exporters /\ im \in importers /\ pc # "idle" /\ pc' = pc
        /\ UNCHANGED <<mds_meta_load, target_load>>
    BY <1>4 DEF MatchPair, IInv, inputs
  <2>3. get_maxex(ex) >= 0 /\ get_maxim(im) >= 0
    BY <2>1, <2>2, MatchAssumption DEF IInv, TypeOK, get_maxex, get_maxim, importers, exporters
  <2> QED BY <2>1, <2>2, <2>3, MatchKeepsShare
<1>5. CASE NextExporter \/ StartPairs \/ PairsDone \/ UNCHANGED vars
  BY <1>5 DEF NextExporter, StartPairs, PairsDone, vars, inputs, Share, Total, Excess, Room,
              exporters, importers
<1> QED BY <1>1, <1>2, <1>3, <1>4, <1>5 DEF Next, Match

(* Whatever path the calls of prep_rebalance take, what the rank is left to *)
(* send takes it no lower than the target and no importer higher.           *)
THEOREM SendsOnlyItsExcessAlways == Spec => []SendsOnlyItsExcess
<1>1. Init => IInv /\ Share
  BY InitEstablishes, NothingIsShared DEF Init, IInv
<1>2. IInv /\ Share /\ [Next]_vars => (IInv /\ Share)'
  BY NextKeeps, ShareKept
<1>3. IInv /\ Share => SendsOnlyItsExcess
  <2>1. TypeOK => SumFunction(my_targets) = Total(my_targets)
    BY DEF TypeOK, SumFunction, Total
  <2> QED BY <2>1 DEF IInv, Share, SendsOnlyItsExcess
<1> QED BY <1>1, <1>2, <1>3, PTL DEF Spec

-----------------------------------------------------------------------------
(* The plan balances the cluster.                                           *)

(* No rank imports from another and each is off the target.                 *)
Plain == \A r \in Ranks : mds_import_map[r] = {} /\ Excess(r) + Room(r) >= Tiny

(* What exporters give is what importers take, in total; in the second pass *)
(* a rank is still to be visited just as long as it has something left.     *)
Conserved ==
  /\ Total(mds_meta_load) = N * target_load
  /\ pc # "idle" => Total(exported) = Total(imported)

Progressing ==
  /\ pc = "imports" /\ Plain =>
       \A r \in Ranks : left[r] = {} /\ exported[r] = 0 /\ imported[r] = 0
  /\ pc = "pairs" /\ Plain =>
       /\ \A r \in exporters : IF r \in exs THEN Tiny <= Excess(r) - exported[r]
                                            ELSE Excess(r) - exported[r] <= Tiny
       /\ \A r \in importers : IF r \in ims THEN Tiny <= Room(r) - imported[r]
                                            ELSE Room(r) - imported[r] <= Tiny

(* The load above the average and the room below it are equal in total.     *)
LEMMA ExcessIsRoom ==
  ASSUME TypeOK, Total(mds_meta_load) = N * target_load
  PROVE  Total([r \in Ranks |-> Excess(r)]) = Total([r \in Ranks |-> Room(r)])
<1> DEFINE e == [r \in Ranks |-> Excess(r)]
           m == [r \in Ranks |-> Room(r)]
           c == [r \in Ranks |-> target_load]
           both == [r \in Ranks |-> mds_meta_load[r] + Room(r)]
<1>1. \A r \in Ranks : /\ mds_meta_load[r] \in Int /\ target_load \in Int
                       /\ Excess(r) \in Int /\ Room(r) \in Int
                       /\ mds_meta_load[r] + Room(r) = target_load + Excess(r)
  BY DEF TypeOK, Excess, Room, exporters, importers
<1>2. \A r \in Ranks : /\ mds_meta_load[r] \in Int /\ m[r] \in Int
                       /\ both[r] = mds_meta_load[r] + m[r]
  BY <1>1
<1>3. \A r \in Ranks : c[r] \in Int /\ e[r] \in Int /\ both[r] = c[r] + e[r]
  BY <1>1
<1>4. \A r \in Ranks : c[r] = target_load
  OBVIOUS
<1> HIDE DEF e, m, c, both
<1>5. Total(both) = Total(mds_meta_load) + Total(m)
  BY <1>2, RanksFinite, SumAdd DEF Total
<1>6. Total(both) = Total(c) + Total(e)
  BY <1>3, RanksFinite, SumAdd DEF Total
<1>7. Total(c) = N * target_load
  <2>1. target_load \in Int
    BY DEF TypeOK
  <2> QED BY <1>4, <2>1, RanksFinite, SumConstant DEF Total
<1>8. Total(m) \in Int /\ Total(e) \in Int
  BY <1>2, <1>3, RanksFinite, SumInt DEF Total
<1>9. N * target_load \in Int
  BY MatchAssumption DEF TypeOK
<1>10. Total(e) = Total(m)
  <2> DEFINE k == N * target_load
  <2>1. /\ k \in Int /\ Total(both) = k + Total(m) /\ Total(both) = k + Total(e)
    BY <1>5, <1>6, <1>7, <1>9
  <2> HIDE DEF k
  <2> QED BY <1>8, <2>1
<1> QED BY <1>10 DEF e, m

(* try_match gives as much as it takes.                                     *)
LEMMA MatchConserves ==
  ASSUME IInv, pc # "idle", NEW ex \in exporters, NEW im \in importers,
         get_maxex(ex) >= 0, get_maxim(im) >= 0, try_match(ex, im),
         UNCHANGED <<mds_meta_load, target_load>>, Total(exported) = Total(imported)
  PROVE  Total(exported') = Total(imported')
<1> DEFINE howmuch == Smaller(get_maxex(ex), get_maxim(im))
<1>1. /\ exported \in [Ranks -> Nat] /\ imported \in [Ranks -> Nat]
      /\ ex \in Ranks /\ im \in Ranks
      /\ exported' \in [Ranks -> Nat] /\ imported' \in [Ranks -> Nat]
  BY MatchKeepsBounds DEF IInv, TypeOK, exporters, importers
<1>2. /\ exported' = [exported EXCEPT ![ex] = @ + howmuch]
      /\ imported' = [imported EXCEPT ![im] = @ + howmuch]
  BY DEF try_match
<1>3. howmuch \in Int
  BY <1>1 DEF Smaller, get_maxex, get_maxim, IInv, TypeOK
<1> HIDE DEF howmuch
<1>4. Total(exported') - exported'[ex] = Total(exported) - exported[ex]
  <2>1. \A y \in Ranks : /\ exported[y] \in Int /\ exported'[y] \in Int
                         /\ y # ex => exported'[y] = exported[y]
    BY <1>1, <1>2
  <2> QED BY <1>1, <2>1, RanksFinite, SumUpdate DEF Total
<1>5. Total(imported') - imported'[im] = Total(imported) - imported[im]
  <2>1. \A y \in Ranks : /\ imported[y] \in Int /\ imported'[y] \in Int
                         /\ y # im => imported'[y] = imported[y]
    BY <1>1, <1>2
  <2> QED BY <1>1, <2>1, RanksFinite, SumUpdate DEF Total
<1>6. exported'[ex] = exported[ex] + howmuch /\ imported'[im] = imported[im] + howmuch
  BY <1>1, <1>2
<1>7. /\ Total(exported) \in Int /\ Total(imported) \in Int
      /\ Total(exported') \in Int /\ Total(imported') \in Int
  BY <1>1, RanksFinite, SumInt DEF Total
<1>8. exported[ex] \in Int /\ imported[im] \in Int
  BY <1>1
<1> QED BY <1>3, <1>4, <1>5, <1>6, <1>7, <1>8

(* The loads that TakeLoads scales by N have the target as their average.   *)
LEMMA GatherAverages ==
  ASSUME NEW loads \in Loads, NEW scaled, scaled = [r \in Ranks |-> N * loads[r]]
  PROVE  Total(scaled) = N * SumFunction(loads)
<1>1. /\ loads \in [Ranks -> Nat] /\ N \in Nat
      /\ SumFunction(loads) = Total(loads)
  BY LoadsAddUp DEF Total
<1>2. \A r \in Ranks : loads[r] \in Int /\ scaled[r] = N * loads[r]
  BY <1>1
<1>3. Total(scaled) = N * Total(loads)
  BY <1>1, <1>2, RanksFinite, SumScale DEF Total
<1> QED BY <1>1, <1>3

(* Every step of the balancer keeps the totals equal.                       *)
LEMMA ConservedKept == IInv /\ Conserved /\ [Next]_vars => Conserved'
<1> SUFFICES ASSUME IInv, Conserved, [Next]_vars PROVE Conserved'
  OBVIOUS
<1>a. ASSUME UNCHANGED <<mds_meta_load, target_load>>,
             pc' # "idle" => Total(exported') = Total(imported')
      PROVE  Conserved'
  BY <1>a DEF Conserved, Total
<1>1. ASSUME NEW loads \in Loads, NEW imports \in ImportMaps, NEW odd \in BOOLEAN,
             NEW epoch \in Epochs, prep_rebalance(loads, imports, odd, epoch)
      PROVE  Conserved'
  <2>1. Total(mds_meta_load') = N * target_load'
    BY <1>1, GatherAverages DEF prep_rebalance, TakeLoads
  <2>2. exported' = imported'
    BY <1>1 DEF prep_rebalance
  <2> QED BY <2>1, <2>2 DEF Conserved, Total
<1>3. CASE MatchImportSource
  <2>1. PICK ex \in exs : /\ get_maxex(ex) > Tiny
                          /\ \E im \in left[ex] :
                               \/ get_maxim(im) > Tiny /\ try_match(ex, im)
                               \/ UNCHANGED <<exported, imported, my_targets>>
    BY <1>3 DEF MatchImportSource
  <2>2. PICK im \in left[ex] :
             \/ get_maxim(im) > Tiny /\ try_match(ex, im)
             \/ UNCHANGED <<exported, imported, my_targets>>
    BY <2>1
  <2>3. /\ ex \in exporters /\ im \in Ranks /\ pc # "idle"
        /\ UNCHANGED <<mds_meta_load, target_load>>
        /\ Total(exported) = Total(imported)
    BY <1>3 DEF MatchImportSource, IInv, TypeOK, inputs, Conserved, exporters
  <2>4. CASE get_maxim(im) > Tiny /\ try_match(ex, im)
    <3>1. get_maxex(ex) >= 0 /\ get_maxim(im) >= 0 /\ im \in importers
      BY <2>1, <2>3, <2>4, MatchAssumption
      DEF IInv, TypeOK, get_maxex, get_maxim, importers, exporters
    <3>2. Total(exported') = Total(imported')
      BY <2>3, <2>4, <3>1, MatchConserves
    <3> QED BY <1>a, <2>3, <3>2
  <2>5. CASE UNCHANGED <<exported, imported, my_targets>>
    BY <1>a, <2>3, <2>5
  <2> QED BY <2>2, <2>4, <2>5
<1>4. CASE MatchPair
  <2>1. PICK ex \in exs, im \in ims :
          get_maxex(ex) >= Tiny /\ get_maxim(im) >= Tiny /\ try_match(ex, im)
    BY <1>4 DEF MatchPair
  <2>2. /\ ex \in exporters /\ im \in importers /\ pc # "idle"
        /\ UNCHANGED <<mds_meta_load, target_load>>
        /\ Total(exported) = Total(imported)
    BY <1>4 DEF MatchPair, IInv, inputs, Conserved
  <2>3. get_maxex(ex) >= 0 /\ get_maxim(im) >= 0
    BY <2>1, <2>2, MatchAssumption DEF IInv, TypeOK, get_maxex, get_maxim, importers, exporters
  <2>4. Total(exported') = Total(imported')
    BY <2>1, <2>2, <2>3, MatchConserves
  <2> QED BY <1>a, <2>2, <2>4
<1>5. CASE ThrashExports \/ NextExporter \/ StartPairs \/ PairsDone \/ UNCHANGED vars
  BY <1>5, <1>a DEF ThrashExports, NextExporter, StartPairs, PairsDone, vars, inputs, Conserved
<1> QED BY <1>1, <1>3, <1>4, <1>5 DEF Next, Match

(* What a step leaves of a bound: visited ranks have Tiny or less left.     *)
Kept(more, rest) == IF more THEN Tiny <= rest ELSE rest <= Tiny

(* Every step keeps what the passes know of the ranks still to visit.       *)
LEMMA ProgressingKept == IInv /\ Progressing /\ [Next]_vars => Progressing'
<1> SUFFICES ASSUME IInv, Progressing, [Next]_vars PROVE Progressing'
  OBVIOUS
<1>1. ASSUME NEW loads \in Loads, NEW imports \in ImportMaps, NEW odd \in BOOLEAN,
             NEW epoch \in Epochs, prep_rebalance(loads, imports, odd, epoch)
      PROVE  Progressing'
  <2>1. /\ left' = mds_import_map' /\ exported' = Zero /\ imported' = Zero
        /\ pc' \in {"imports", "idle"}
    BY <1>1 DEF prep_rebalance, Decide
  <2> QED BY <2>1 DEF Progressing, Plain, Zero
<1>3. CASE MatchImportSource
  <2>1. PICK ex \in exs : left[ex] # {}
    BY <1>3 DEF MatchImportSource
  <2>2. pc = "imports" /\ pc' = pc /\ Plain' = Plain /\ ex \in Ranks
    BY <1>3 DEF MatchImportSource, Plain, inputs, IInv, TypeOK, Excess, Room, exporters, importers
  <2> QED BY <2>1, <2>2 DEF Progressing
<1>4. CASE NextExporter
  <2>1. Plain' = Plain
    BY <1>4 DEF NextExporter, Plain, inputs, Excess, Room, exporters, importers
  <2> QED BY <1>4, <2>1 DEF NextExporter, Progressing
<1>5. CASE StartPairs
  <2>1. /\ pc = "imports" /\ pc' = "pairs" /\ exs' = exporters /\ ims' = importers
        /\ UNCHANGED <<mds_meta_load, target_load, exported, imported>>
        /\ Plain' = Plain
    BY <1>5 DEF StartPairs, inputs, Plain, Excess, Room, exporters, importers
  <2>2. /\ exporters' = exporters /\ importers' = importers
        /\ \A r \in Ranks : Excess(r)' = Excess(r) /\ Room(r)' = Room(r)
    BY <2>1 DEF Excess, Room, exporters, importers
  <2>3. /\ \A r \in exporters : r \in Ranks /\ Room(r) = 0 /\ Excess(r) \in Int
        /\ \A r \in importers : r \in Ranks /\ Excess(r) = 0 /\ Room(r) \in Int
    BY DEF Excess, Room, exporters, importers, IInv, TypeOK
  <2>4. ASSUME Plain, NEW r \in exporters PROVE Tiny <= Excess(r)' - exported'[r]
    <3>1. exported'[r] = 0
      BY <2>1, <2>3, <2>4 DEF Progressing
    <3>2. Excess(r) + Room(r) >= Tiny
      BY <2>3, <2>4 DEF Plain
    <3> QED BY <2>2, <2>3, <3>1, <3>2, MatchAssumption
  <2>5. ASSUME Plain, NEW r \in importers PROVE Tiny <= Room(r)' - imported'[r]
    <3>1. imported'[r] = 0
      BY <2>1, <2>3, <2>5 DEF Progressing
    <3>2. Excess(r) + Room(r) >= Tiny
      BY <2>3, <2>5 DEF Plain
    <3> QED BY <2>2, <2>3, <3>1, <3>2, MatchAssumption
  <2> QED BY <2>1, <2>2, <2>4, <2>5 DEF Progressing
<1>6. CASE MatchPair
  <2> SUFFICES ASSUME Plain
               PROVE  /\ \A r \in exporters : Kept(r \in exs', Excess(r) - exported'[r])
                      /\ \A r \in importers : Kept(r \in ims', Room(r) - imported'[r])
    BY <1>6 DEF MatchPair, inputs, Progressing, Plain, Excess, Room, exporters, importers, Kept
  <2>1. PICK ex \in exs, im \in ims :
          /\ get_maxex(ex) >= Tiny /\ get_maxim(im) >= Tiny
          /\ try_match(ex, im)
          /\ exs' = IF get_maxex(ex) - get_maxim(im) <= Tiny THEN exs \ {ex} ELSE exs
          /\ ims' = IF get_maxim(im) - get_maxex(ex) <= Tiny THEN ims \ {im} ELSE ims
    BY <1>6, Zenon DEF MatchPair
  <2> DEFINE a == get_maxex(ex)
             b == get_maxim(im)
  <2>2. /\ pc = "pairs" /\ ex \in exporters /\ im \in importers
        /\ ex \in Ranks /\ im \in Ranks
        /\ exported \in [Ranks -> Nat] /\ imported \in [Ranks -> Nat]
        /\ mds_meta_load \in [Ranks -> Nat] /\ target_load \in Nat
    BY <1>6 DEF MatchPair, IInv, TypeOK, exporters, importers
  <2>3. /\ a \in Int /\ b \in Int /\ a >= Tiny /\ b >= Tiny /\ Tiny \in Nat
        /\ a = Excess(ex) - exported[ex] /\ b = Room(im) - imported[im]
        /\ Excess(ex) \in Int /\ Room(im) \in Int
    BY <2>1, <2>2, MatchAssumption DEF get_maxex, get_maxim, Excess, Room
  <2>4. /\ exported' = [exported EXCEPT ![ex] = @ + Smaller(a, b)]
        /\ imported' = [imported EXCEPT ![im] = @ + Smaller(a, b)]
        /\ exs' = IF a - b <= Tiny THEN exs \ {ex} ELSE exs
        /\ ims' = IF b - a <= Tiny THEN ims \ {im} ELSE ims
    BY <2>1 DEF try_match
  <2>5. /\ \A r \in exporters : Kept(r \in exs, Excess(r) - exported[r])
        /\ \A r \in importers : Kept(r \in ims, Room(r) - imported[r])
    BY <2>2 DEF Progressing, Kept
  <2>6. exporters \subseteq Ranks /\ importers \subseteq Ranks
    BY DEF exporters, importers
  <2> HIDE DEF a, b
  <2>7. ASSUME NEW r \in exporters PROVE Kept(r \in exs', Excess(r) - exported'[r])
    <3>1. CASE r # ex
      <4>1. exported'[r] = exported[r] /\ (r \in exs' <=> r \in exs)
        BY <2>2, <2>4, <2>6, <3>1
      <4> QED BY <2>5, <4>1 DEF Kept
    <3>2. CASE r = ex
      <4>1. exported'[ex] = exported[ex] + Smaller(a, b)
        BY <2>2, <2>4
      <4>2. ex \in exs' <=> ~ (a - b <= Tiny)
        BY <2>1, <2>4
      <4>3. exported[ex] \in Int
        BY <2>2
      <4> QED BY <2>3, <3>2, <4>1, <4>2, <4>3 DEF Smaller, Kept
    <3> QED BY <3>1, <3>2
  <2>8. ASSUME NEW r \in importers PROVE Kept(r \in ims', Room(r) - imported'[r])
    <3>1. CASE r # im
      <4>1. imported'[r] = imported[r] /\ (r \in ims' <=> r \in ims)
        BY <2>2, <2>4, <2>6, <3>1
      <4> QED BY <2>5, <4>1 DEF Kept
    <3>2. CASE r = im
      <4>1. imported'[im] = imported[im] + Smaller(a, b)
        BY <2>2, <2>4
      <4>2. im \in ims' <=> ~ (b - a <= Tiny)
        BY <2>1, <2>4
      <4>3. imported[im] \in Int
        BY <2>2
      <4> QED BY <2>3, <3>2, <4>1, <4>2, <4>3 DEF Smaller, Kept
    <3> QED BY <3>1, <3>2
  <2> QED BY <2>7, <2>8
<1>7. CASE PairsDone
  BY <1>7 DEF PairsDone, Progressing
<1>8. CASE ThrashExports \/ UNCHANGED vars
  <2>1. /\ UNCHANGED <<mds_meta_load, target_load, mds_import_map, pc, exs, ims, left>>
        /\ UNCHANGED <<exported, imported>>
    BY <1>8 DEF ThrashExports, vars, inputs
  <2> QED BY <2>1 DEF Progressing, Plain, Excess, Room, exporters, importers
<1> QED BY <1>1, <1>3, <1>4, <1>5, <1>6, <1>7, <1>8 DEF Next, Match

(* If each rank has Tiny or less left on one side, no rank has more than N  *)
(* times as much left on either.                                            *)
LEMMA RestIsSmall ==
  ASSUME NEW u, NEW v, \A r \in Ranks : u[r] \in Nat /\ v[r] \in Nat /\ u[r] <= Tiny,
         Total(u) = Total(v)
  PROVE  \A r \in Ranks : u[r] <= N * Tiny /\ v[r] <= N * Tiny
<1> DEFINE c == [r \in Ranks |-> Tiny]
<1>1. Tiny \in Int /\ N * Tiny \in Int
  BY MatchAssumption
<1>2. \A r \in Ranks : u[r] \in Int /\ c[r] \in Int /\ u[r] <= c[r] /\ c[r] = Tiny
  BY <1>1
<1> HIDE DEF c
<1>3. Total(u) <= Total(c)
  BY <1>2, RanksFinite, SumMonotone DEF Total
<1>4. Total(c) = N * Tiny
  BY <1>1, <1>2, RanksFinite, SumConstant DEF Total
<1>5. \A r \in Ranks : u[r] <= Total(u) /\ v[r] <= Total(v)
  BY RanksFinite, SumBounds DEF Total
<1>6. Total(u) \in Nat
  BY RanksFinite, SumNat DEF Total
<1> DEFINE k == N * Tiny
<1>7. k \in Int /\ Total(u) <= k
  BY <1>1, <1>3, <1>4
<1> HIDE DEF k
<1>8. \A r \in Ranks : u[r] <= k /\ v[r] <= k
  BY <1>5, <1>6, <1>7
<1> QED BY <1>8 DEF k

(* The second pass ends with no exporter or no importer to visit, so with   *)
(* Tiny or less left on one side, and by the totals little on the other.    *)
LEMMA PairsDoneBalances ==
  ASSUME IInv, Conserved, Progressing, Plain, PairsDone
  PROVE  \A r \in Ranks : Excess(r) <= exported[r] + N * Tiny /\ Room(r) <= imported[r] + N * Tiny
<1> DEFINE e == [r \in Ranks |-> Excess(r)]
           m == [r \in Ranks |-> Room(r)]
           u == [r \in Ranks |-> Excess(r) - exported[r]]
           v == [r \in Ranks |-> Room(r) - imported[r]]
<1>1. /\ pc = "pairs" /\ pc # "idle"
      /\ exported \in [Ranks -> Nat] /\ imported \in [Ranks -> Nat]
      /\ mds_meta_load \in [Ranks -> Nat] /\ target_load \in Nat
      /\ exs \subseteq exporters /\ ims \subseteq importers /\ Tiny \in Nat
  BY MatchAssumption DEF PairsDone, IInv, TypeOK
<1>2. /\ \A r \in exporters : Kept(r \in exs, Excess(r) - exported[r])
      /\ \A r \in importers : Kept(r \in ims, Room(r) - imported[r])
  BY <1>1 DEF Progressing, Kept
<1>3. \A r \in Ranks : exported[r] <= Excess(r) /\ imported[r] <= Room(r)
  BY <1>1 DEF IInv, NoOvershoot
<1>4. \A r \in Ranks : /\ Excess(r) \in Nat /\ Room(r) \in Nat
                       /\ exported[r] \in Nat /\ imported[r] \in Nat
                       /\ r \notin exporters => Excess(r) = 0
                       /\ r \notin importers => Room(r) = 0
  BY <1>1 DEF Excess, Room, exporters, importers
<1>5. exs = {} \/ ims = {}
  <2>1. ASSUME NEW ex \in exs, NEW im \in ims
        PROVE  ~ (get_maxex(ex) < Tiny \/ get_maxim(im) < Tiny)
    <3>1. /\ ex \in exporters /\ im \in importers /\ ex \in Ranks /\ im \in Ranks
          /\ Tiny <= Excess(ex) - exported[ex] /\ Tiny <= Room(im) - imported[im]
      BY <1>1, <1>2 DEF exporters, importers, Kept
    <3> QED BY <1>1, <3>1 DEF get_maxex, get_maxim, Excess, Room
  <2> QED BY <2>1 DEF PairsDone
<1>6. \A r \in Ranks : /\ exported[r] \in Int /\ u[r] \in Int /\ e[r] = exported[r] + u[r]
                       /\ imported[r] \in Int /\ v[r] \in Int /\ m[r] = imported[r] + v[r]
                       /\ u[r] \in Nat /\ v[r] \in Nat
  BY <1>3, <1>4
<1>7. Total(e) = Total(m)
  BY ExcessIsRoom DEF IInv, Conserved
<1>8. Total(exported) = Total(imported)
  BY <1>1 DEF Conserved
<1>9. \A r \in Ranks : u[r] = Excess(r) - exported[r] /\ v[r] = Room(r) - imported[r]
  OBVIOUS
<1> HIDE DEF e, m, u, v
<1>10. Total(u) = Total(v)
  <2> DEFINE a == Total(exported)
             b == Total(u)
             c == Total(v)
  <2>1. Total(e) = a + b
    <3>1. \A r \in Ranks : exported[r] \in Int /\ u[r] \in Int /\ e[r] = exported[r] + u[r]
      BY <1>6
    <3> QED BY <3>1, RanksFinite, SumAdd DEF Total
  <2>2. Total(m) = Total(imported) + c
    <3>1. \A r \in Ranks : imported[r] \in Int /\ v[r] \in Int /\ m[r] = imported[r] + v[r]
      BY <1>6
    <3> QED BY <3>1, RanksFinite, SumAdd DEF Total
  <2>3. a \in Int /\ b \in Int /\ c \in Int
    BY <1>6, RanksFinite, SumInt DEF Total
  <2>4. a + b = a + c
    BY <1>7, <1>8, <2>1, <2>2, Zenon
  <2> HIDE DEF a, b, c
  <2>5. b = c
    BY ONLY <2>3, <2>4
  <2> QED BY <2>5 DEF b, c
<1>11. \A r \in Ranks : u[r] <= N * Tiny /\ v[r] <= N * Tiny
  <2>1. CASE exs = {}
    <3>1. \A r \in Ranks : u[r] <= Tiny
      BY <1>1, <1>2, <1>3, <1>4, <1>9, <2>1 DEF Kept
    <3> QED BY <1>6, <1>10, <3>1, RestIsSmall
  <2>2. CASE ims = {}
    <3>1. \A r \in Ranks : v[r] <= Tiny
      BY <1>1, <1>2, <1>3, <1>4, <1>9, <2>2 DEF Kept
    <3> QED BY <1>6, <1>10, <3>1, RestIsSmall
  <2> QED BY <1>5, <2>1, <2>2
<1> DEFINE k == N * Tiny
<1>12. k \in Int /\ \A r \in Ranks : u[r] <= k /\ v[r] <= k
  BY <1>11, MatchAssumption
<1> HIDE DEF k
<1>13. \A r \in Ranks : Excess(r) <= exported[r] + k /\ Room(r) <= imported[r] + k
  BY <1>4, <1>9, <1>12
<1> QED BY <1>13 DEF k

(* Only the end of the second pass goes back to idle.                       *)
LEMMA NextBalances == IInv /\ Conserved /\ Progressing /\ [Next]_vars => [PlanBalances]_vars
<1> SUFFICES ASSUME IInv, Conserved, Progressing, [Next]_vars,
                    pc = "pairs", pc' = "idle", Plain
             PROVE  \A r \in Ranks : /\ Excess(r) <= exported[r] + N * Tiny
                                     /\ Room(r) <= imported[r] + N * Tiny
  BY DEF PlanBalances, Plain
<1>1. PairsDone
  BY DEF Next, Match, ThrashExports, prep_rebalance, MatchImportSource, NextExporter,
         StartPairs, MatchPair, vars
<1> QED BY <1>1, PairsDoneBalances

(* The part of MatchingIsComplete about steps: where nobody imports and no  *)
(* rank is within .001 of the target, the matching that prep_rebalance ends *)
(* with takes every exporter down and every importer up to the target, but  *)
(* for .001 for each rank.                                                  *)
THEOREM PlanBalancesAlways == Spec => [][PlanBalances]_vars
<1>1. Init => IInv /\ Conserved /\ Progressing
  <2>1. ASSUME Init PROVE Conserved /\ Progressing
    <3>1. mds_meta_load = Zero /\ target_load = 0 /\ pc = "idle"
      BY <2>1 DEF Init
    <3>2. Total(mds_meta_load) = N * target_load
      BY <3>1, TotalZero, MatchAssumption
    <3> QED BY <3>1, <3>2 DEF Conserved, Progressing
  <2> QED BY <2>1, InitEstablishes
<1>2. IInv /\ Conserved /\ Progressing /\ [Next]_vars => (IInv /\ Conserved /\ Progressing)'
  BY NextKeeps, ConservedKept, ProgressingKept
<1>3. IInv /\ Conserved /\ Progressing /\ [Next]_vars => [PlanBalances]_vars
  BY NextBalances
<1> QED BY <1>1, <1>2, <1>3, PTL DEF Spec
=============================================================================
