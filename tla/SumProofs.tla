------------------------------ MODULE SumProofs ------------------------------
(***************************************************************************)
(* Sums over the values of a function, as Functions defines them: its      *)
(* SumFunctionOnSet takes one index after the other, whichever CHOOSE      *)
(* gives.  Here: the order does not matter, sums of disjoint sets add up,  *)
(* sums by group add up to the whole, and larger terms make larger sums.   *)
(*                                                                         *)
(* Each is proved by a least counterexample: the set Bad of all subsets    *)
(* the fact does not hold for would have a minimal one.                    *)
(***************************************************************************)
EXTENDS Integers, Functions, FiniteSets, FiniteSetTheorems, WellFoundedInduction, TLAPS

\* Induction over the subsets of a finite set, by way of a minimal counterexample.
LEMMA MinimalSubset ==
  ASSUME NEW S, IsFiniteSet(S), NEW Bad \in SUBSET SUBSET S, Bad # {}
  PROVE  \E U \in Bad : \A V \in SUBSET U : V \in Bad => V = U
<1>1. IsWellFoundedOn(StrictSubsetOrdering(S), SUBSET S)
  BY FS_StrictSubsetOrderingWellFounded, FS_FiniteSubsetsOfFinite
<1>2. PICK U \in Bad : \A V \in Bad : ~(<<V, U>> \in StrictSubsetOrdering(S))
  BY <1>1, WFMin
<1>3. ASSUME NEW V \in SUBSET U, V \in Bad, V # U PROVE FALSE
  BY <1>2, <1>3 DEF StrictSubsetOrdering
<1> QED
  BY <1>3

----------------------------------------------------------------------------
(* The definition has a solution, and only one.                            *)

\* The member that is taken first.
Chosen(T) == CHOOSE x \in T : TRUE

\* The sums of all subsets of S, each from a smaller one.
IsTable(f, S, g) ==
  g = [T \in SUBSET S |->
         IF T = {} THEN 0 ELSE f[Chosen(T)] + g[T \ {Chosen(T)}]]

Table(f, S) == CHOOSE g : IsTable(f, S, g)

\* The sum in Functions is what such a table holds,
LEMMA SumIsTable ==
  ASSUME NEW f, NEW S
  PROVE  SumFunctionOnSet(f, S) = Table(f, S)[S]
BY DEF SumFunctionOnSet, FoldFunctionOnSet, MapThenFoldSet, Table, IsTable, Chosen

\* A set that is not empty has a first member.
LEMMA ChosenIn == ASSUME NEW T, T # {} PROVE Chosen(T) \in T
BY DEF Chosen

\* of which there is but one,
LEMMA TablesAgree ==
  ASSUME NEW f, NEW S, NEW R, IsFiniteSet(S), NEW g, NEW h,
         IsTable(f, S, g), IsTable(f, R, h), NEW T, T \subseteq S, T \subseteq R
  PROVE  g[T] = h[T]
<1> DEFINE Bad == {V \in SUBSET T : g[V] # h[V]}
<1>1. SUFFICES ASSUME Bad # {} PROVE FALSE
  OBVIOUS
<1>2. IsFiniteSet(T)
  BY FS_Subset
<1>3. PICK U \in Bad : \A V \in SUBSET U : V \in Bad => V = U
  <2>1. Bad \in SUBSET SUBSET T
    OBVIOUS
  <2> HIDE DEF Bad
  <2> QED
    BY <1>1, <1>2, <2>1, MinimalSubset
<1>4. g[U] = IF U = {} THEN 0 ELSE f[Chosen(U)] + g[U \ {Chosen(U)}]
  BY DEF IsTable
<1>5. h[U] = IF U = {} THEN 0 ELSE f[Chosen(U)] + h[U \ {Chosen(U)}]
  BY DEF IsTable
<1>6. U # {}
  BY <1>4, <1>5
<1>7. U \ {Chosen(U)} \in SUBSET U /\ U \ {Chosen(U)} # U
  BY <1>6, ChosenIn
<1>8. g[U \ {Chosen(U)}] = h[U \ {Chosen(U)}]
  BY <1>3, <1>7
<1> QED
  BY <1>4, <1>5, <1>8

\* and one there is.
LEMMA TableExists ==
  ASSUME NEW f, NEW S, IsFiniteSet(S)
  PROVE  IsTable(f, S, Table(f, S))
<1> DEFINE Bad == {V \in SUBSET S : ~IsTable(f, V, Table(f, V))}
<1>1. SUFFICES ASSUME Bad # {} PROVE FALSE
  OBVIOUS
<1>2. PICK U \in Bad : \A V \in SUBSET U : V \in Bad => V = U
  <2>1. Bad \in SUBSET SUBSET S
    OBVIOUS
  <2> HIDE DEF Bad
  <2> QED
    BY <1>1, <2>1, MinimalSubset
<1>3. IsFiniteSet(U)
  BY FS_Subset
<1>4. ASSUME NEW V \in SUBSET U, V # U PROVE IsTable(f, V, Table(f, V)) /\ IsFiniteSet(V)
  BY <1>2, <1>3, <1>4, FS_Subset
<1> DEFINE Rest(T) == T \ {Chosen(T)}
           Value(V) == Table(f, V)[V]
           g == [T \in SUBSET U |-> IF T = {} THEN 0 ELSE f[Chosen(T)] + Value(Rest(T))]
<1>5. ASSUME NEW T \in SUBSET U, T # {} PROVE Rest(T) \in SUBSET U /\ Rest(T) # U /\ Rest(T) \subseteq T
  BY <1>5, ChosenIn
<1>6. ASSUME NEW V \in SUBSET U, V # U PROVE g[V] = Value(V)
  <2>1. IsTable(f, V, Table(f, V))
    BY <1>4, <1>6
  <2>2. Value(V) = IF V = {} THEN 0 ELSE f[Chosen(V)] + Table(f, V)[Rest(V)]
    BY <2>1 DEF IsTable
  <2>3. CASE V = {}
    BY <2>2, <2>3
  <2>4. CASE V # {}
    <3>1. Rest(V) \in SUBSET U /\ Rest(V) # U /\ Rest(V) \subseteq V
      BY <1>5, <2>4
    <3>2. Table(f, V)[Rest(V)] = Value(Rest(V))
      BY <1>4, <2>1, <3>1, <1>6, TablesAgree
    <3> QED
      BY <2>2, <2>4, <3>2
  <2> QED
    BY <2>3, <2>4
<1>7. IsTable(f, U, g)
  <2>1. ASSUME NEW T \in SUBSET U, T # {} PROVE g[T] = f[Chosen(T)] + g[Rest(T)]
    BY <1>5, <1>6, <2>1
  <2> QED
    BY <2>1 DEF IsTable
<1>8. IsTable(f, U, Table(f, U))
  BY <1>7 DEF Table
<1> QED
  BY <1>8

\* So a sum is its first term and the sum of the others.
LEMMA SumUnfolds ==
  ASSUME NEW f, NEW S, IsFiniteSet(S)
  PROVE  /\ SumFunctionOnSet(f, {}) = 0
         /\ S # {} => SumFunctionOnSet(f, S) = f[Chosen(S)] + SumFunctionOnSet(f, S \ {Chosen(S)})
<1>1. IsFiniteSet({}) /\ IsFiniteSet(S \ {Chosen(S)})
  BY FS_EmptySet, FS_Subset
<1>2. /\ IsTable(f, {}, Table(f, {}))
      /\ IsTable(f, S, Table(f, S))
      /\ IsTable(f, S \ {Chosen(S)}, Table(f, S \ {Chosen(S)}))
  BY <1>1, TableExists
<1>3. Table(f, {})[{}] = 0
  BY <1>2 DEF IsTable
<1>4. ASSUME S # {} PROVE Table(f, S)[S] = f[Chosen(S)] + Table(f, S)[S \ {Chosen(S)}]
  BY <1>2, <1>4 DEF IsTable
<1>5. Table(f, S)[S \ {Chosen(S)}] = Table(f, S \ {Chosen(S)})[S \ {Chosen(S)}]
  BY <1>1, <1>2, TablesAgree
<1> QED
  BY <1>3, <1>4, <1>5, SumIsTable

----------------------------------------------------------------------------
(* The algebra of sums of natural numbers.                                 *)

\* No terms, no sum.
LEMMA SumEmpty == ASSUME NEW f PROVE SumFunctionOnSet(f, {}) = 0
BY FS_EmptySet, SumUnfolds

\* Sums of natural numbers are natural numbers.
LEMMA SumIsNat ==
  ASSUME NEW f, NEW S, IsFiniteSet(S), \A x \in S : f[x] \in Nat
  PROVE  SumFunctionOnSet(f, S) \in Nat
<1> DEFINE Bad == {V \in SUBSET S : SumFunctionOnSet(f, V) \notin Nat}
<1>1. SUFFICES ASSUME Bad # {} PROVE FALSE
  OBVIOUS
<1>2. PICK U \in Bad : \A V \in SUBSET U : V \in Bad => V = U
  <2>1. Bad \in SUBSET SUBSET S
    OBVIOUS
  <2> HIDE DEF Bad
  <2> QED
    BY <1>1, <2>1, MinimalSubset
<1>3. U # {} /\ IsFiniteSet(U)
  <2>1. ASSUME U = {} PROVE FALSE
    BY <2>1, SumEmpty
  <2>2. U \in SUBSET S
    OBVIOUS
  <2> QED
    BY <2>1, <2>2, FS_Subset
<1> DEFINE V == U \ {Chosen(U)}
<1>4. Chosen(U) \in U
  BY <1>3, ChosenIn
<1>5. SumFunctionOnSet(f, U) = f[Chosen(U)] + SumFunctionOnSet(f, V)
  BY <1>3, SumUnfolds
<1>6. SumFunctionOnSet(f, V) \in Nat
  BY <1>2, <1>4
<1> QED
  BY <1>4, <1>5, <1>6

\* Whichever index is taken first.
LEMMA SumRemove ==
  ASSUME NEW f, NEW S, IsFiniteSet(S), \A x \in S : f[x] \in Nat, NEW y \in S
  PROVE  SumFunctionOnSet(f, S) = f[y] + SumFunctionOnSet(f, S \ {y})
<1> DEFINE Sum(T) == SumFunctionOnSet(f, T)
<1> DEFINE Bad == {T \in SUBSET S : \E z \in T : Sum(T) # f[z] + Sum(T \ {z})}
<1>1. SUFFICES ASSUME Bad # {} PROVE FALSE
  OBVIOUS
<1>2. PICK U \in Bad : \A V \in SUBSET U : V \in Bad => V = U
  <2>1. Bad \in SUBSET SUBSET S
    OBVIOUS
  <2> HIDE DEF Bad
  <2> QED
    BY <1>1, <2>1, MinimalSubset
<1>3. PICK z \in U : Sum(U) # f[z] + Sum(U \ {z})
  OBVIOUS
<1>4. IsFiniteSet(U)
  BY FS_Subset
<1> DEFINE p == Chosen(U)
           V == U \ {p}
           W == U \ {z}
           X == (U \ {p}) \ {z}
<1>5. p \in U /\ Sum(U) = f[p] + Sum(V)
  BY <1>3, <1>4, ChosenIn, SumUnfolds
<1>6. p # z
  BY <1>3, <1>5
<1>7. Sum(V) = f[z] + Sum(X)
  <2>0. z \in V /\ V \in SUBSET U /\ V # U /\ V \in SUBSET S
    BY <1>5, <1>6
  <2>1. V \notin Bad /\ z \in V /\ V \in SUBSET S
    <3> HIDE DEF Bad, V
    <3> QED
      BY <1>2, <2>0
  <2>2. \A v \in V : Sum(V) = f[v] + Sum(V \ {v})
    BY <2>1
  <2> HIDE DEF p, Sum
  <2> QED
    BY <2>1, <2>2
<1>8. Sum(W) = f[p] + Sum(X)
  <2>1. W \notin Bad /\ p \in W /\ W \in SUBSET S
    BY <1>2, <1>5, <1>6
  <2>2. W \ {p} = X
    OBVIOUS
  <2> QED
    BY <2>1, <2>2
<1>9. f[p] \in Nat /\ f[z] \in Nat /\ Sum(X) \in Nat
  <2>1. X \subseteq S /\ IsFiniteSet(X)
    BY FS_Subset
  <2> QED
    BY <1>5, <2>1, SumIsNat
<1> HIDE DEF p, V, W, X, Sum
<1> QED
  BY <1>3, <1>5, <1>7, <1>8, <1>9 DEF V, W

\* Only the values at the indices matter, and larger ones make a larger sum.
LEMMA SumMonotone ==
  ASSUME NEW f, NEW h, NEW S, IsFiniteSet(S),
         \A x \in S : f[x] \in Nat /\ h[x] \in Nat /\ f[x] <= h[x]
  PROVE  SumFunctionOnSet(f, S) <= SumFunctionOnSet(h, S)
<1> DEFINE Bad == {V \in SUBSET S : ~(SumFunctionOnSet(f, V) <= SumFunctionOnSet(h, V))}
<1>1. SUFFICES ASSUME Bad # {} PROVE FALSE
  OBVIOUS
<1>2. PICK U \in Bad : \A V \in SUBSET U : V \in Bad => V = U
  <2>1. Bad \in SUBSET SUBSET S
    OBVIOUS
  <2> HIDE DEF Bad
  <2> QED
    BY <1>1, <2>1, MinimalSubset
<1>3. U # {} /\ IsFiniteSet(U)
  <2>1. ASSUME U = {} PROVE FALSE
    BY <2>1, SumEmpty
  <2>2. U \in SUBSET S
    OBVIOUS
  <2> QED
    BY <2>1, <2>2, FS_Subset
<1> DEFINE p == Chosen(U)
           V == U \ {p}
<1>4. p \in U
  BY <1>3, ChosenIn
<1>5. /\ SumFunctionOnSet(f, U) = f[p] + SumFunctionOnSet(f, V)
      /\ SumFunctionOnSet(h, U) = h[p] + SumFunctionOnSet(h, V)
  BY <1>3, SumUnfolds
<1>6. SumFunctionOnSet(f, V) <= SumFunctionOnSet(h, V)
  BY <1>2, <1>4
<1>7. SumFunctionOnSet(f, V) \in Nat /\ SumFunctionOnSet(h, V) \in Nat
  <2>1. V \subseteq S /\ IsFiniteSet(V)
    BY FS_Subset
  <2> QED
    BY <2>1, SumIsNat
<1>8. f[p] \in Nat /\ h[p] \in Nat /\ f[p] <= h[p]
  BY <1>4
<1> HIDE DEF p, V
<1> QED
  BY <1>5, <1>6, <1>7, <1>8

\* The same values at the same indices make the same sum.
LEMMA SumSame ==
  ASSUME NEW f, NEW h, NEW S, IsFiniteSet(S),
         \A x \in S : f[x] \in Nat /\ h[x] = f[x]
  PROVE  SumFunctionOnSet(f, S) = SumFunctionOnSet(h, S)
<1>1. /\ SumFunctionOnSet(f, S) <= SumFunctionOnSet(h, S)
      /\ SumFunctionOnSet(h, S) <= SumFunctionOnSet(f, S)
  BY SumMonotone
<1>2. SumFunctionOnSet(f, S) \in Nat /\ SumFunctionOnSet(h, S) \in Nat
  BY SumIsNat
<1> QED
  BY <1>1, <1>2

\* One larger value, and no smaller one, make a larger sum.
LEMMA SumStrict ==
  ASSUME NEW f, NEW h, NEW S, IsFiniteSet(S),
         \A x \in S : f[x] \in Nat /\ h[x] \in Nat /\ f[x] <= h[x],
         NEW y \in S, f[y] < h[y]
  PROVE  SumFunctionOnSet(f, S) < SumFunctionOnSet(h, S)
<1> DEFINE V == S \ {y}
<1>1. V \subseteq S /\ IsFiniteSet(V)
  BY FS_Subset
<1>2. SumFunctionOnSet(f, V) <= SumFunctionOnSet(h, V)
  BY <1>1, SumMonotone
<1>3. SumFunctionOnSet(f, V) \in Nat /\ SumFunctionOnSet(h, V) \in Nat
  BY <1>1, SumIsNat
<1>4. /\ SumFunctionOnSet(f, S) = f[y] + SumFunctionOnSet(f, V)
      /\ SumFunctionOnSet(h, S) = h[y] + SumFunctionOnSet(h, V)
  BY SumRemove
<1> HIDE DEF V
<1> QED
  BY <1>2, <1>3, <1>4

\* A common factor can be taken out.
LEMMA SumScaled ==
  ASSUME NEW f, NEW h, NEW c \in Nat, NEW S, IsFiniteSet(S),
         \A x \in S : f[x] \in Nat /\ h[x] = c * f[x]
  PROVE  SumFunctionOnSet(h, S) = c * SumFunctionOnSet(f, S)
<1> DEFINE Bad == {V \in SUBSET S : SumFunctionOnSet(h, V) # c * SumFunctionOnSet(f, V)}
<1>1. SUFFICES ASSUME Bad # {} PROVE FALSE
  OBVIOUS
<1>2. PICK U \in Bad : \A V \in SUBSET U : V \in Bad => V = U
  <2>1. Bad \in SUBSET SUBSET S
    OBVIOUS
  <2> HIDE DEF Bad
  <2> QED
    BY <1>1, <2>1, MinimalSubset
<1>3. U # {} /\ IsFiniteSet(U)
  <2>1. ASSUME U = {} PROVE FALSE
    BY <2>1, SumEmpty
  <2>2. U \in SUBSET S
    OBVIOUS
  <2> QED
    BY <2>1, <2>2, FS_Subset
<1> DEFINE p == Chosen(U)
           V == U \ {p}
<1>4. p \in U
  BY <1>3, ChosenIn
<1>5. /\ SumFunctionOnSet(f, U) = f[p] + SumFunctionOnSet(f, V)
      /\ SumFunctionOnSet(h, U) = h[p] + SumFunctionOnSet(h, V)
  BY <1>3, SumUnfolds
<1>6. SumFunctionOnSet(h, V) = c * SumFunctionOnSet(f, V)
  BY <1>2, <1>4
<1>7. SumFunctionOnSet(f, V) \in Nat
  <2>1. V \subseteq S /\ IsFiniteSet(V)
    BY FS_Subset
  <2> QED
    BY <2>1, SumIsNat
<1>8. f[p] \in Nat /\ h[p] = c * f[p]
  BY <1>4
<1>9. \A a, b \in Nat : c * (a + b) = c * a + c * b
  OBVIOUS
<1>10. SumFunctionOnSet(h, U) # c * SumFunctionOnSet(f, U)
  OBVIOUS
<1> HIDE DEF p, V, Bad
<1> QED
  BY <1>5, <1>6, <1>7, <1>8, <1>9, <1>10

----------------------------------------------------------------------------
(* Disjoint sets, and groups.                                              *)

\* The sum over two disjoint sets is the sum over one and over the other.
LEMMA SumDisjoint ==
  ASSUME NEW f, NEW S, NEW T, IsFiniteSet(S), IsFiniteSet(T), S \intersect T = {},
         \A x \in S \union T : f[x] \in Nat
  PROVE  SumFunctionOnSet(f, S \union T) = SumFunctionOnSet(f, S) + SumFunctionOnSet(f, T)
<1> DEFINE Sum(V) == SumFunctionOnSet(f, V)
<1> DEFINE Bad == {V \in SUBSET S : Sum(V \union T) # Sum(V) + Sum(T)}
<1>1. SUFFICES ASSUME Bad # {} PROVE FALSE
  OBVIOUS
<1>2. PICK U \in Bad : \A V \in SUBSET U : V \in Bad => V = U
  <2>1. Bad \in SUBSET SUBSET S
    OBVIOUS
  <2> HIDE DEF Bad
  <2> QED
    BY <1>1, <2>1, MinimalSubset
<1>3. IsFiniteSet(U) /\ IsFiniteSet(U \union T) /\ Sum(T) \in Nat
  BY FS_Subset, FS_Union, SumIsNat
<1>4. PICK x : x \in U
  <2>1. CASE U = {}
    BY <1>3, <2>1, SumEmpty
  <2> QED
    BY <2>1
<1> DEFINE V == U \ {x}
<1>5. (U \union T) \ {x} = V \union T
  BY <1>4
<1>6. Sum(U) = f[x] + Sum(V)
  BY <1>3, <1>4, SumRemove
<1>7. Sum(U \union T) = f[x] + Sum(V \union T)
  BY <1>3, <1>4, <1>5, SumRemove
<1>8. Sum(V \union T) = Sum(V) + Sum(T)
  BY <1>2, <1>4
<1>9. Sum(V) \in Nat /\ f[x] \in Nat
  <2>1. V \subseteq S /\ IsFiniteSet(V)
    BY <1>3, FS_Subset
  <2> QED
    BY <1>4, <2>1, SumIsNat
<1>10. Sum(U \union T) # Sum(U) + Sum(T)
  OBVIOUS
<1> HIDE DEF V, Bad, Sum
<1> QED
  BY <1>3, <1>6, <1>7, <1>8, <1>9, <1>10

\* A part of the terms makes no larger sum.
LEMMA SumOfPart ==
  ASSUME NEW f, NEW S, IsFiniteSet(S), NEW T \in SUBSET S, \A x \in S : f[x] \in Nat
  PROVE  SumFunctionOnSet(f, T) <= SumFunctionOnSet(f, S)
<1> DEFINE V == S \ T
<1>1. IsFiniteSet(T) /\ IsFiniteSet(V)
  BY FS_Subset
<1>2. S = T \union V /\ T \intersect V = {}
  OBVIOUS
<1>3. SumFunctionOnSet(f, T) \in Nat /\ SumFunctionOnSet(f, V) \in Nat
  BY <1>1, SumIsNat
<1>4. \A x \in T \union V : f[x] \in Nat
  OBVIOUS
<1> HIDE DEF V
<1>5. SumFunctionOnSet(f, T \union V) = SumFunctionOnSet(f, T) + SumFunctionOnSet(f, V)
  BY <1>1, <1>2, <1>4, SumDisjoint
<1> QED
  BY <1>2, <1>3, <1>5

\* Members of S, each in a group: the sums of the groups add up to the whole.
LEMMA SumByGroup ==
  ASSUME NEW f, NEW S, IsFiniteSet(S), \A x \in S : f[x] \in Nat,
         NEW Groups, IsFiniteSet(Groups), NEW group \in [S -> Groups],
         NEW members \in [Groups -> SUBSET S],
         \A k \in Groups, x \in S : x \in members[k] <=> group[x] = k,
         NEW total, \A k \in Groups : total[k] = SumFunctionOnSet(f, members[k])
  PROVE  SumFunctionOnSet(total, Groups) = SumFunctionOnSet(f, S)
<1> DEFINE In(K) == {x \in S : group[x] \in K}
           Of(k) == members[k]
<1> DEFINE Bad == {K \in SUBSET Groups : SumFunctionOnSet(total, K) # SumFunctionOnSet(f, In(K))}
<1>0. /\ \A V \in SUBSET S : IsFiniteSet(V) /\ SumFunctionOnSet(f, V) \in Nat
      /\ \A k \in Groups : total[k] \in Nat
  <2>1. \A V \in SUBSET S : IsFiniteSet(V) /\ SumFunctionOnSet(f, V) \in Nat
    BY FS_Subset, SumIsNat
  <2> QED
    BY <2>1
<1>1. SUFFICES ASSUME Bad # {} PROVE FALSE
  <2>1. In(Groups) = S
    OBVIOUS
  <2> QED
    BY <2>1
<1>2. PICK U \in Bad : \A V \in SUBSET U : V \in Bad => V = U
  <2>1. Bad \in SUBSET SUBSET Groups
    OBVIOUS
  <2> HIDE DEF Bad
  <2> QED
    BY <1>1, <2>1, MinimalSubset
<1>3. IsFiniteSet(U)
  BY FS_Subset
<1>4. PICK k : k \in U
  <2>1. CASE U = {}
    <3>1. In({}) = {}
      OBVIOUS
    <3> QED
      BY <2>1, <3>1, SumEmpty
  <2> QED
    BY <2>1
<1> DEFINE V == U \ {k}
<1>5. SumFunctionOnSet(total, U) = total[k] + SumFunctionOnSet(total, V)
  BY <1>0, <1>3, <1>4, SumRemove
<1>6. SumFunctionOnSet(total, V) = SumFunctionOnSet(f, In(V))
  BY <1>2, <1>4
<1>7. SumFunctionOnSet(f, In(U)) = SumFunctionOnSet(f, Of(k)) + SumFunctionOnSet(f, In(V))
  <2>0. Of(k) \in SUBSET S /\ \A x \in S : x \in Of(k) <=> group[x] = k
    BY <1>4
  <2>1. In(U) = Of(k) \union In(V) /\ Of(k) \intersect In(V) = {}
    <3> HIDE DEF Of
    <3> QED
      BY <1>4, <2>0
  <2>2. In(V) \in SUBSET S
    OBVIOUS
  <2>3. \A A, B \in SUBSET S : A \intersect B = {} =>
          SumFunctionOnSet(f, A \union B) = SumFunctionOnSet(f, A) + SumFunctionOnSet(f, B)
    <3> TAKE A, B \in SUBSET S
    <3> HAVE A \intersect B = {}
    <3>1. IsFiniteSet(A) /\ IsFiniteSet(B) /\ \A x \in A \union B : f[x] \in Nat
      BY <1>0
    <3> QED
      BY <3>1, SumDisjoint
  <2>4. Of(k) \in SUBSET S
    BY <2>0
  <2> HIDE DEF Of, In, V
  <2>5. SumFunctionOnSet(f, Of(k) \union In(V)) =
          SumFunctionOnSet(f, Of(k)) + SumFunctionOnSet(f, In(V))
    BY <2>1, <2>2, <2>3, <2>4
  <2> QED
    BY <2>1, <2>5
<1>8. total[k] = SumFunctionOnSet(f, Of(k))
  BY <1>4
<1>9. SumFunctionOnSet(total, U) # SumFunctionOnSet(f, In(U))
  OBVIOUS
<1> HIDE DEF V, Bad, In, Of
<1> QED
  BY <1>5, <1>6, <1>7, <1>8, <1>9
=============================================================================
