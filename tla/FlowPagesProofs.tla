-------------------------- MODULE FlowPagesProofs --------------------------
(***************************************************************************)
(* The numbers and the links of the traffic page, for any flows, any       *)
(* length of the list and of the table, and any layers.  PagesInv says     *)
(* that a page shows what its address says of the list at hand, and is     *)
(* inductive.  What is left is about summarize: flows add up by verdict    *)
(* and by connection; the table is the connections that fewer than TopN    *)
(* are ahead of; and on a page with fewer flows a connection all of whose  *)
(* flows are still there stands no lower.  And about _assign_layers: the   *)
(* loops are read as tables of what they have done so far; a node that no  *)
(* cycle leads to never gets further than its longest way, and each round  *)
(* takes all nodes of so many hops where they belong.                      *)
(***************************************************************************)
EXTENDS FlowPages, SumProofs, FiniteSetTheorems, TLAPS

----------------------------------------------------------------------------
(* Counting                                                                *)

\* The number of members is a sum of ones.
LEMMA CardinalityIsSum ==
  ASSUME NEW S, IsFiniteSet(S), NEW f, \A x \in S : f[x] = 1
  PROVE  SumFunctionOnSet(f, S) = Cardinality(S)
<1> DEFINE Bad == {V \in SUBSET S : SumFunctionOnSet(f, V) # Cardinality(V)}
<1>1. SUFFICES ASSUME Bad # {} PROVE FALSE
  OBVIOUS
<1>2. PICK U \in Bad : \A V \in SUBSET U : V \in Bad => V = U
  <2>1. Bad \in SUBSET SUBSET S
    OBVIOUS
  <2> HIDE DEF Bad
  <2> QED
    BY <1>1, <2>1, MinimalSubset
<1>3. U # {} /\ IsFiniteSet(U)
  <2>1. ASSUME U = {} PROVE FALSE
    BY <2>1, SumEmpty, FS_EmptySet
  <2>2. U \in SUBSET S
    OBVIOUS
  <2> QED
    BY <2>1, <2>2, FS_Subset
<1> DEFINE p == Chosen(U)
           V == U \ {p}
<1>4. p \in U /\ f[p] = 1
  BY <1>3, ChosenIn
<1>5. SumFunctionOnSet(f, U) = f[p] + SumFunctionOnSet(f, V)
  BY <1>3, SumUnfolds
<1>6. SumFunctionOnSet(f, V) = Cardinality(V)
  BY <1>2, <1>4
<1>7. Cardinality(V) = Cardinality(U) - 1 /\ Cardinality(U) \in Nat
  BY <1>3, <1>4, FS_RemoveElement, FS_CardinalityType
<1>8. SumFunctionOnSet(f, U) # Cardinality(U)
  OBVIOUS
<1> HIDE DEF p, V, Bad
<1> QED
  BY <1>4, <1>5, <1>6, <1>7, <1>8

\* The sizes of the groups add up to the whole.
LEMMA GroupsAddUp ==
  ASSUME NEW S, IsFiniteSet(S), NEW Groups, IsFiniteSet(Groups),
         NEW group \in [S -> Groups],
         NEW size, \A k \in Groups : size[k] = Cardinality({x \in S : group[x] = k})
  PROVE  SumFunctionOnSet(size, Groups) = Cardinality(S)
<1> DEFINE one == [x \in S |-> 1]
           members == [k \in Groups |-> {x \in S : group[x] = k}]
<1>1. /\ \A x \in S : one[x] \in Nat /\ one[x] = 1
      /\ members \in [Groups -> SUBSET S]
      /\ \A k \in Groups, x \in S : x \in members[k] <=> group[x] = k
  OBVIOUS
<1>2. \A k \in Groups : size[k] = Cardinality(members[k])
  OBVIOUS
<1> HIDE DEF one, members
<1>3. \A k \in Groups : size[k] = SumFunctionOnSet(one, members[k])
  <2> TAKE k \in Groups
  <2>1. members[k] \in SUBSET S
    BY <1>1
  <2>2. IsFiniteSet(members[k])
    BY <2>1, FS_Subset
  <2>3. \A x \in members[k] : one[x] = 1
    BY <1>1, <2>1
  <2> QED
    BY <1>2, <2>2, <2>3, CardinalityIsSum
<1>4. SumFunctionOnSet(size, Groups) = SumFunctionOnSet(one, S)
  BY <1>1, <1>3, SumByGroup
<1> QED
  BY <1>1, <1>4, CardinalityIsSum

\* Places counted by key add up to all places.
LEMMA KeysAddUp ==
  ASSUME NEW key, IsFiniteSet(DOMAIN key)
  PROVE  SumFunction(Counter(key)) = Cardinality(DOMAIN key)
<1> DEFINE group == [i \in DOMAIN key |-> key[i]]
<1>1. group \in [DOMAIN key -> Range(key)]
  BY DEF Range
<1>2. IsFiniteSet(Range(key))
  <2>1. group \in Surjection(DOMAIN key, Range(key))
    BY DEF Surjection, Range
  <2> QED
    BY <2>1, FS_Surjection
<1>3. \A k \in Range(key) : Counter(key)[k] = Cardinality({i \in DOMAIN key : group[i] = k})
  <2> TAKE k \in Range(key)
  <2>1. {i \in DOMAIN key : group[i] = k} = Occurrences(key, k)
    BY DEF Occurrences
  <2> QED
    BY <2>1 DEF Counter
<1>4. DOMAIN Counter(key) = Range(key)
  BY DEF Counter
<1> HIDE DEF group
<1> QED
  BY <1>1, <1>2, <1>3, <1>4, GroupsAddUp DEF SumFunction

----------------------------------------------------------------------------
(* Orders                                                                  *)

\* ahead[k] are the members of S that come before k, each of two different
\* ones or the other.
StrictOrder(S, ahead) ==
  /\ \A k \in S : ahead[k] \in SUBSET S /\ k \notin ahead[k]
  /\ \A k, l \in S : l \in ahead[k] => ahead[l] \subseteq ahead[k]
  /\ \A k, l \in S : k # l => k \in ahead[l] \/ l \in ahead[k]

\* Who comes before another has the smaller rank, and the ranks are 0..|S|-1.
LEMMA Ranks ==
  ASSUME NEW S, IsFiniteSet(S), NEW ahead, StrictOrder(S, ahead)
  PROVE  /\ \A k \in S : Cardinality(ahead[k]) \in 0..(Cardinality(S) - 1)
         /\ \A k, l \in S : k \in ahead[l] <=> Cardinality(ahead[k]) < Cardinality(ahead[l])
         /\ \A k, l \in S : Cardinality(ahead[k]) = Cardinality(ahead[l]) => k = l
         /\ \A n \in 0..(Cardinality(S) - 1) : \E k \in S : Cardinality(ahead[k]) = n
<1> DEFINE P(k) == ahead[k]
           r(k) == Cardinality(ahead[k])
           N == Cardinality(S)
<1>0. N \in Nat
  BY FS_CardinalityType
<1>1. ASSUME NEW T \in SUBSET S PROVE IsFiniteSet(T) /\ Cardinality(T) \in Nat
  BY FS_Subset, FS_CardinalityType
<1>2. ASSUME NEW T \in SUBSET S, NEW U \in SUBSET T, NEW x \in T \ U
      PROVE  Cardinality(U) < Cardinality(T)
  <2>1. IsFiniteSet(T) /\ Cardinality(T) \in Nat /\ Cardinality(U) \in Nat
    BY <1>1
  <2>2. Cardinality(U) <= Cardinality(T) /\ (Cardinality(T) = Cardinality(U) => T = U)
    BY <2>1, FS_Subset
  <2> QED
    BY <2>1, <2>2
<1>3. \A k \in S : P(k) \in SUBSET S /\ k \notin P(k) /\ r(k) \in Nat
  BY <1>1 DEF StrictOrder
<1>4. \A k \in S : r(k) \in 0..(N - 1)
  <2> TAKE k \in S
  <2>1. k \in S \ P(k) /\ P(k) \in SUBSET S /\ S \in SUBSET S
    BY <1>3
  <2>2. r(k) < N
    BY <1>2, <2>1
  <2> HIDE DEF r, N
  <2> QED
    BY <1>0, <1>3, <2>2
<1>5. \A k, l \in S : k \in ahead[l] => r(k) < r(l)
  <2> SUFFICES ASSUME NEW k \in S, NEW l \in S, k \in ahead[l] PROVE r(k) < r(l)
    OBVIOUS
  <2>1. P(k) \in SUBSET P(l) /\ P(l) \in SUBSET S /\ k \in P(l) \ P(k)
    BY DEF StrictOrder
  <2> QED
    BY <1>2, <2>1
<1>6. \A k, l \in S : k # l => r(k) < r(l) \/ r(l) < r(k)
  BY <1>5 DEF StrictOrder
<1>7. \A k, l \in S : r(k) = r(l) => k = l
  <2> HIDE DEF r
  <2> QED
    BY <1>3, <1>6
<1>8. \A k, l \in S : r(k) < r(l) => k \in ahead[l]
  <2> SUFFICES ASSUME NEW k \in S, NEW l \in S, r(k) < r(l), k \notin ahead[l] PROVE FALSE
    OBVIOUS
  <2>1. k # l
    <3> HIDE DEF r
    <3> QED
      BY <1>3
  <2>2. l \in ahead[k]
    BY <2>1 DEF StrictOrder
  <2>3. r(l) < r(k)
    BY <1>5, <2>2
  <2> HIDE DEF r
  <2> QED
    BY <1>3, <2>3
<1>9. \A n \in 0..(N - 1) : \E k \in S : r(k) = n
  <2> DEFINE f == [k \in S |-> r(k)]
             I == 0..(N - 1)
  <2>1. f \in Injection(S, I)
    <3>1. f \in [S -> I]
      BY <1>4
    <3>2. \A k, l \in S : f[k] = f[l] => k = l
      BY <1>7
    <3> QED
      BY <3>1, <3>2 DEF Injection, IsInjective
  <2>2. IsFiniteSet(I) /\ Cardinality(I) = N
    <3>1. N - 1 \in Int
      BY <1>0
    <3> HIDE DEF N
    <3> QED
      BY <1>0, <3>1, FS_Interval
  <2>3. f \in Surjection(S, I)
    <3> HIDE DEF f, I
    <3> QED
      BY <2>1, <2>2, FS_Injection
  <2> QED
    BY <2>3 DEF Surjection
<1> QED
  BY <1>4, <1>5, <1>7, <1>8, <1>9

\* InOrder gives each member the place its rank says.
LEMMA InOrderByRank ==
  ASSUME NEW S, IsFiniteSet(S), NEW ahead, StrictOrder(S, ahead)
  PROVE  /\ Cardinality(S) \in Nat
         /\ InOrder(S, ahead) \in [1..Cardinality(S) -> S]
         /\ \A n \in 1..Cardinality(S) : Cardinality(ahead[InOrder(S, ahead)[n]]) = n - 1
         /\ \A k \in S : /\ Cardinality(ahead[k]) + 1 \in 1..Cardinality(S)
                         /\ InOrder(S, ahead)[Cardinality(ahead[k]) + 1] = k
<1> DEFINE r(k) == Cardinality(ahead[k])
           N == Cardinality(S)
           s == InOrder(S, ahead)
<1>0. N \in Nat
  BY FS_CardinalityType
<1>1. \A n \in 1..N : s[n] = CHOOSE k \in S : r(k) = n - 1
  BY DEF InOrder
<1>2. s = [n \in 1..N |-> s[n]]
  BY DEF InOrder
<1>3. \A n \in 1..N : \E k \in S : r(k) = n - 1
  <2> TAKE n \in 1..N
  <2>1. n - 1 \in 0..(N - 1)
    <3> HIDE DEF N
    <3> QED
      BY <1>0
  <2> QED
    BY <2>1, Ranks
<1>4. \A n \in 1..N : s[n] \in S /\ r(s[n]) = n - 1
  <2> HIDE DEF s, r, N
  <2> QED
    BY <1>1, <1>3
<1>5. \A k \in S : r(k) \in 0..(N - 1)
  BY Ranks
<1>6. \A k, l \in S : r(k) = r(l) => k = l
  BY Ranks
<1> HIDE DEF s, r, N
<1>7. \A k \in S : r(k) + 1 \in 1..N /\ s[r(k) + 1] = k
  <2> TAKE k \in S
  <2>1. r(k) + 1 \in 1..N /\ (r(k) + 1) - 1 = r(k)
    BY <1>0, <1>5
  <2> QED
    BY <1>4, <1>6, <2>1
<1>8. s \in [1..N -> S]
  BY <1>2, <1>4
<1> QED
  BY <1>0, <1>4, <1>7, <1>8 DEF s, r, N

----------------------------------------------------------------------------
(* Counter.most_common                                                     *)

\* A finite set of natural numbers that is not empty has a least member.
LEMMA MinIsLeast ==
  ASSUME NEW S, IsFiniteSet(S), \A x \in S : x \in Nat, S # {}
  PROVE  Min(S) \in S /\ \A x \in S : Min(S) <= x
<1> DEFINE upTo == [x \in S |-> {y \in S : y <= x}]
           Bad == {upTo[x] : x \in S}
<1>1. /\ Bad \in SUBSET SUBSET S
      /\ Bad # {}
  OBVIOUS
<1>2. PICK U \in Bad : \A V \in SUBSET U : V \in Bad => V = U
  <2> HIDE DEF Bad
  <2> QED
    BY <1>1, MinimalSubset
<1>3. PICK x \in S : U = upTo[x]
  OBVIOUS
<1>4. \A y \in S : y \in Nat
  OBVIOUS
<1>5. \A y, z \in S : z \in upTo[y] <=> z <= y
  OBVIOUS
<1>6. \A y \in S : upTo[y] \in Bad /\ upTo[y] \in SUBSET S
  OBVIOUS
<1> HIDE DEF upTo, Bad
<1>7. ASSUME NEW y \in S, ~(x <= y) PROVE FALSE
  <2>1. x \in U /\ x \notin upTo[y]
    <3>1. x <= x
      BY <1>4
    <3> QED
      BY <1>3, <1>5, <1>7, <3>1
  <2>2. ASSUME NEW z \in upTo[y] PROVE z \in U
    <3>1. z \in S /\ z <= y
      BY <1>5, <1>6
    <3>2. x \in Nat /\ y \in Nat /\ z \in Nat
      BY <1>4, <3>1
    <3>3. z <= x
      BY <1>7, <3>1, <3>2
    <3> QED
      BY <1>3, <1>5, <3>1, <3>3
  <2> QED
    BY <1>2, <1>6, <2>1, <2>2
<1>8. \A y \in S : x <= y
  BY <1>7
<1> QED
  BY <1>8 DEF Min

\* A selection of places, with what each is counted under.
Places(key) == IsFiniteSet(DOMAIN key) /\ DOMAIN key \subseteq Nat

First(key, k) == Min(Occurrences(key, k))

\* Who is ahead of whom.
Ahead(key) ==
  [k \in Range(key) |->
     {l \in Range(key) :
        \/ Counter(key)[l] > Counter(key)[k]
        \/ Counter(key)[l] = Counter(key)[k] /\ First(key, l) < First(key, k)}]

\* most_common is the order in which those with fewer ahead come first.
LEMMA MostCommonIsInOrder == ASSUME NEW key PROVE MostCommon(key) = InOrder(Range(key), Ahead(key))
<1> DEFINE count == Counter(key)
           first == [k \in Range(key) |-> Min(Occurrences(key, k))]
           ahead == [k \in Range(key) |->
                       {l \in Range(key) : \/ count[l] > count[k]
                                           \/ count[l] = count[k] /\ first[l] < first[k]}]
<1>1. MostCommon(key) = InOrder(Range(key), ahead)
  BY DEF MostCommon
<1>2. ahead = Ahead(key)
  BY DEF Ahead, First
<1> QED
  BY <1>1, <1>2

\* What is counted is there, and its first place is its own.
LEMMA CountsOfKeys ==
  ASSUME NEW key, Places(key)
  PROVE  /\ IsFiniteSet(Range(key))
         /\ \A k \in Range(key) : /\ Occurrences(key, k) # {}
                                  /\ Occurrences(key, k) \in SUBSET DOMAIN key
                                  /\ IsFiniteSet(Occurrences(key, k))
                                  /\ Counter(key)[k] \in Nat
                                  /\ Counter(key)[k] = Cardinality(Occurrences(key, k))
                                  /\ First(key, k) \in Nat
                                  /\ First(key, k) \in Occurrences(key, k)
                                  /\ \A i \in Occurrences(key, k) : First(key, k) <= i
<1> DEFINE D == DOMAIN key
           R == Range(key)
           f == [i \in D |-> key[i]]
<1>1. IsFiniteSet(R)
  <2>1. f \in Surjection(D, R)
    BY DEF Surjection, Range
  <2> QED
    BY <2>1, FS_Surjection DEF Places
<1>2. ASSUME NEW k \in R
      PROVE  /\ Occurrences(key, k) # {}
             /\ Occurrences(key, k) \in SUBSET D
             /\ IsFiniteSet(Occurrences(key, k))
             /\ Counter(key)[k] \in Nat
             /\ Counter(key)[k] = Cardinality(Occurrences(key, k))
             /\ First(key, k) \in Nat
             /\ First(key, k) \in Occurrences(key, k)
             /\ \A i \in Occurrences(key, k) : First(key, k) <= i
  <2>1. Occurrences(key, k) # {} /\ Occurrences(key, k) \in SUBSET D
    BY <1>2 DEF Occurrences, Range
  <2>2. IsFiniteSet(Occurrences(key, k)) /\ Cardinality(Occurrences(key, k)) \in Nat
    BY <2>1, FS_Subset, FS_CardinalityType DEF Places
  <2>3. Counter(key)[k] = Cardinality(Occurrences(key, k))
    BY <1>2 DEF Counter
  <2>4. \A i \in Occurrences(key, k) : i \in Nat
    BY <2>1 DEF Places
  <2>5. /\ First(key, k) \in Occurrences(key, k)
        /\ \A i \in Occurrences(key, k) : First(key, k) <= i
    BY <2>1, <2>2, <2>4, MinIsLeast DEF First
  <2> QED
    BY <2>1, <2>2, <2>3, <2>4, <2>5
<1> QED
  BY <1>1, <1>2

\* No two are ahead of each other, and of two different ones one is ahead.
LEMMA AheadIsStrict ==
  ASSUME NEW key, Places(key)
  PROVE  StrictOrder(Range(key), Ahead(key))
<1> DEFINE R == Range(key)
           c(k) == Counter(key)[k]
           f(k) == First(key, k)
<1>1. \A k \in R : c(k) \in Nat /\ f(k) \in Nat
  BY CountsOfKeys
<1>2. \A k, l \in R : k # l => f(k) # f(l)
  <2>1. \A k \in R : key[f(k)] = k
    BY CountsOfKeys DEF Occurrences
  <2> QED
    BY <2>1
<1>3. \A k \in R : Ahead(key)[k] \in SUBSET R
  BY DEF Ahead
<1>4. \A k, l \in R : l \in Ahead(key)[k] <=> c(l) > c(k) \/ (c(l) = c(k) /\ f(l) < f(k))
  BY DEF Ahead
<1> HIDE DEF R, c, f
<1>5. \A k \in R : k \notin Ahead(key)[k]
  BY <1>1, <1>4
<1>6. \A k, l \in R : l \in Ahead(key)[k] => Ahead(key)[l] \subseteq Ahead(key)[k]
  <2> SUFFICES ASSUME NEW k \in R, NEW l \in R, NEW m \in R,
                      l \in Ahead(key)[k], m \in Ahead(key)[l]
               PROVE  m \in Ahead(key)[k]
    BY <1>3
  <2> QED
    BY <1>1, <1>4
<1>7. \A k, l \in R : k # l => k \in Ahead(key)[l] \/ l \in Ahead(key)[k]
  BY <1>1, <1>2, <1>4
<1> QED
  BY <1>3, <1>5, <1>6, <1>7 DEF StrictOrder, R

----------------------------------------------------------------------------
(* The table                                                               *)

\* How many are ahead.
Standing(key, k) == Cardinality(Ahead(key)[k])

\* The first n of the most common, by their standing.
LEMMA TheFirst ==
  ASSUME NEW key, Places(key), NEW n \in Nat
  PROVE  LET top == UpTo(n, MostCommon(key))
             N   == Cardinality(Range(key))
         IN  /\ N \in Nat
             /\ \A k \in Range(key) : Standing(key, k) \in 0..(N - 1)
             /\ Len(top) = IF N <= n THEN N ELSE n
             /\ top \in [1..Len(top) -> Range(key)]
             /\ \A i \in 1..Len(top) : Standing(key, top[i]) = i - 1
             /\ \A k \in Range(key) : Standing(key, k) < n =>
                   /\ Standing(key, k) + 1 \in 1..Len(top)
                   /\ top[Standing(key, k) + 1] = k
<1> DEFINE R == Range(key)
           N == Cardinality(R)
           s == MostCommon(key)
           top == UpTo(n, s)
           m == IF N <= n THEN N ELSE n
           d(k) == Standing(key, k)
<1>1. /\ N \in Nat
      /\ s \in [1..N -> R]
      /\ \A i \in 1..N : d(s[i]) = i - 1
      /\ \A k \in R : d(k) + 1 \in 1..N /\ s[d(k) + 1] = k
  <2>1. IsFiniteSet(R) /\ StrictOrder(R, Ahead(key))
    BY CountsOfKeys, AheadIsStrict
  <2>2. s = InOrder(R, Ahead(key)) /\ \A k : d(k) = Cardinality(Ahead(key)[k])
    BY MostCommonIsInOrder DEF Standing
  <2> HIDE DEF R, s, d
  <2> QED
    BY <2>1, <2>2, InOrderByRank
<1>2. \A k \in R : d(k) \in 0..(N - 1)
  BY CountsOfKeys, AheadIsStrict, Ranks DEF Standing
<1> HIDE DEF R, N, s, d
<1>3. s \in Seq(R) /\ Len(s) = N
  BY <1>1
<1>4. m \in Nat /\ m <= N /\ m <= n
  BY <1>1
<1>5. Len(top) = m /\ top \in [1..m -> R] /\ \A i \in 1..m : top[i] = s[i]
  <2>1. CASE N <= n
    BY <1>1, <1>3, <2>1 DEF UpTo
  <2>2. CASE ~(N <= n)
    <3>1. top = SubSeq(s, 1, n) /\ n \in Nat /\ n <= N
      BY <1>1, <1>3, <2>2 DEF UpTo
    <3>2. Len(top) = n /\ \A i \in 1..n : top[i] = s[i] /\ s[i] \in R
      BY <1>1, <1>3, <3>1
    <3>3. top \in Seq(R)
      BY <1>3, <3>1
    <3>4. m = n
      BY <2>2
    <3> QED
      BY <3>2, <3>3, <3>4
  <2> QED
    BY <2>1, <2>2
<1> HIDE DEF top
<1>6. \A i \in 1..m : d(top[i]) = i - 1
  BY <1>1, <1>4, <1>5
<1>7. \A k \in R : d(k) < n => d(k) + 1 \in 1..m /\ top[d(k) + 1] = k
  <2> SUFFICES ASSUME NEW k \in R, d(k) < n PROVE d(k) + 1 \in 1..m /\ top[d(k) + 1] = k
    OBVIOUS
  <2>1. d(k) \in Nat /\ d(k) + 1 \in 1..N /\ s[d(k) + 1] = k
    BY <1>1, <1>2
  <2>2. d(k) + 1 \in 1..m
    BY <1>1, <2>1
  <2> QED
    BY <1>5, <2>1, <2>2
<1> QED
  BY <1>1, <1>2, <1>5, <1>6, <1>7 DEF R, N, s, d, top

\* The rows of the table are the connections whose standing is below TopN.
LEMMA TableRows ==
  ASSUME NEW list, NEW selected, IsFiniteSet(selected), selected \subseteq Nat
  PROVE  LET pairs == PairsOf(list, selected)
             rows  == TopPairs(list, selected)
             N     == Cardinality(Range(pairs))
         IN  /\ Places(pairs)
             /\ DOMAIN pairs = selected
             /\ N \in Nat
             /\ \A k \in Range(pairs) : Standing(pairs, k) \in 0..(N - 1)
             /\ Len(rows) = IF N <= TopN THEN N ELSE TopN
             /\ DOMAIN rows = 1..Len(rows)
             /\ \A i \in 1..Len(rows) : \E k \in Range(pairs) :
                  Standing(pairs, k) = i - 1 /\ rows[i] = PairRow(list, pairs, k)
             /\ \A k \in Range(pairs) : Standing(pairs, k) < TopN =>
                  /\ Standing(pairs, k) + 1 \in 1..Len(rows)
                  /\ PairRow(list, pairs, k) \in Range(rows)
<1> DEFINE pairs == PairsOf(list, selected)
           rows == TopPairs(list, selected)
           top == UpTo(TopN, MostCommon(pairs))
           R == Range(pairs)
           N == Cardinality(R)
           m == Len(top)
           row(k) == PairRow(list, pairs, k)
<1>1. Places(pairs) /\ DOMAIN pairs = selected
  BY DEF Places, PairsOf
<1>2. TopN \in Nat
  BY FlowSummaryAssumption
<1>3. rows = [i \in DOMAIN top |-> row(top[i])]
  BY DEF TopPairs
<1> HIDE DEF pairs, rows, row
<1>4. /\ N \in Nat
      /\ \A k \in R : Standing(pairs, k) \in 0..(N - 1)
      /\ m = IF N <= TopN THEN N ELSE TopN
      /\ top \in [1..m -> R]
      /\ \A i \in 1..m : Standing(pairs, top[i]) = i - 1
      /\ \A k \in R : Standing(pairs, k) < TopN =>
           Standing(pairs, k) + 1 \in 1..m /\ top[Standing(pairs, k) + 1] = k
  BY <1>1, <1>2, TheFirst
<1> HIDE DEF top, R, N, m
<1>5. m \in Nat
  BY <1>2, <1>4
<1>6. DOMAIN rows = 1..m /\ \A i \in 1..m : rows[i] = row(top[i])
  BY <1>3, <1>4
<1>7. Len(rows) = m
  <2>1. rows \in Seq({rows[i] : i \in 1..m})
    <3>1. rows = [i \in 1..m |-> rows[i]]
      BY <1>3, <1>4
    <3> QED
      BY <1>5, <3>1
  <2> QED
    BY <1>5, <1>6, <2>1
<1>8. \A i \in 1..m : \E k \in R : Standing(pairs, k) = i - 1 /\ rows[i] = row(k)
  BY <1>4, <1>6
<1>9. \A k \in R : Standing(pairs, k) < TopN =>
        Standing(pairs, k) + 1 \in 1..m /\ row(k) \in Range(rows)
  BY <1>4, <1>6 DEF Range
<1> QED
  BY <1>1, <1>4, <1>6, <1>7, <1>8, <1>9 DEF pairs, rows, R, N, row

\* Who is no row has a standing of TopN or more, and no row is rarer.
LEMMA RowsAreNoRarer ==
  ASSUME NEW list, NEW selected, IsFiniteSet(selected), selected \subseteq Nat,
         NEW k \in Range(PairsOf(list, selected)),
         PairRow(list, PairsOf(list, selected), k) \notin Range(TopPairs(list, selected))
  PROVE  /\ Len(TopPairs(list, selected)) = TopN
         /\ Standing(PairsOf(list, selected), k) >= TopN
         /\ \A row \in Range(TopPairs(list, selected)) :
              row.count >= PairRow(list, PairsOf(list, selected), k).count
<1> DEFINE pairs == PairsOf(list, selected)
           rows == TopPairs(list, selected)
           R == Range(pairs)
           N == Cardinality(R)
<1>0. TopN \in Nat
  BY FlowSummaryAssumption
<1>1. /\ Places(pairs)
      /\ N \in Nat
      /\ \A l \in R : Standing(pairs, l) \in 0..(N - 1)
      /\ Len(rows) = IF N <= TopN THEN N ELSE TopN
      /\ DOMAIN rows = 1..Len(rows)
      /\ \A i \in 1..Len(rows) : \E l \in R :
           Standing(pairs, l) = i - 1 /\ rows[i] = PairRow(list, pairs, l)
  BY TableRows
<1>2. Standing(pairs, k) < TopN => PairRow(list, pairs, k) \in Range(rows)
  BY TableRows
<1>3. \A l \in R : PairRow(list, pairs, l).count = Counter(pairs)[l] /\ Counter(pairs)[l] \in Nat
  BY <1>1, CountsOfKeys DEF PairRow
<1>4. k \in R /\ PairRow(list, pairs, k) \notin Range(rows)
  OBVIOUS
<1> HIDE DEF pairs, rows, R, N
<1>5. ~(Standing(pairs, k) < TopN)
  BY <1>2, <1>4
<1>6. Standing(pairs, k) \in Nat /\ Standing(pairs, k) < N
  BY <1>1, <1>4
<1>7. Len(rows) = TopN
  BY <1>0, <1>1, <1>5, <1>6
<1>8. ASSUME NEW row \in Range(rows) PROVE row.count >= PairRow(list, pairs, k).count
  <2>1. PICK i \in 1..Len(rows) : row = rows[i]
    BY <1>1 DEF Range
  <2>2. PICK l \in R : Standing(pairs, l) = i - 1 /\ row = PairRow(list, pairs, l)
    BY <1>1, <2>1
  <2>3. Standing(pairs, l) < Standing(pairs, k)
    BY <1>0, <1>5, <1>6, <1>7, <2>2
  <2>4. l \in Ahead(pairs)[k]
    BY <1>1, <1>4, <2>3, CountsOfKeys, AheadIsStrict, Ranks DEF Standing, R
  <2>5. Counter(pairs)[l] >= Counter(pairs)[k]
    BY <1>3, <1>4, <2>4 DEF Ahead, R
  <2> QED
    BY <1>3, <1>4, <2>2, <2>5
<1> QED
  BY <1>0, <1>5, <1>6, <1>7, <1>8 DEF pairs, rows

\* Each counted flow is in one row, unless its row was cut.
LEMMA TableAddsUp ==
  ASSUME NEW list, NEW selected, IsFiniteSet(selected), selected \subseteq Nat
  PROVE  LET rows    == TopPairs(list, selected)
             inTable == SumFunction([i \in DOMAIN rows |-> rows[i].count])
         IN  /\ inTable <= Cardinality(selected)
             /\ inTable < Cardinality(selected) => Len(rows) = TopN
<1> DEFINE pairs == PairsOf(list, selected)
           rows == TopPairs(list, selected)
           R == Range(pairs)
           N == Cardinality(R)
           d(k) == Standing(pairs, k)
           m == Len(rows)
           counts == [i \in DOMAIN rows |-> rows[i].count]
           covered == {x \in selected : d(pairs[x]) < TopN}
           group == [x \in covered |-> d(pairs[x]) + 1]
<1>0. TopN \in Nat
  BY FlowSummaryAssumption
<1>1. /\ Places(pairs)
      /\ DOMAIN pairs = selected
      /\ N \in Nat
      /\ \A k \in R : d(k) \in 0..(N - 1)
      /\ m = IF N <= TopN THEN N ELSE TopN
      /\ DOMAIN rows = 1..m
      /\ \A i \in 1..m : \E k \in R : d(k) = i - 1 /\ rows[i] = PairRow(list, pairs, k)
      /\ \A k \in R : d(k) < TopN => d(k) + 1 \in 1..m
  BY TableRows
<1>2. \A x \in selected : pairs[x] \in R
  BY <1>1 DEF Range
<1>3. \A k, l \in R : d(k) = d(l) => k = l
  BY <1>1, CountsOfKeys, AheadIsStrict, Ranks DEF Standing
<1>4. IsFiniteSet(covered) /\ covered \subseteq selected
      /\ Cardinality(covered) <= Cardinality(selected)
      /\ (Cardinality(covered) = Cardinality(selected) => covered = selected)
  <2>1. covered \in SUBSET selected
    OBVIOUS
  <2> HIDE DEF covered
  <2> QED
    BY <2>1, FS_Subset
<1>5. m \in Nat /\ IsFiniteSet(1..m)
  <2>1. m \in Nat
    <3> HIDE DEF m, N
    <3> QED
      BY <1>0, <1>1
  <2> HIDE DEF m
  <2> QED
    BY <2>1, FS_Interval
<1>6. \A x \in covered : d(pairs[x]) + 1 \in 1..m
  BY <1>1, <1>2
<1>7. group \in [covered -> 1..m]
  BY <1>6
<1>8. \A i \in 1..m : counts[i] = Cardinality({x \in covered : group[x] = i})
  <2> TAKE i \in 1..m
  <2>1. PICK k \in R : d(k) = i - 1 /\ rows[i] = PairRow(list, pairs, k)
    BY <1>1
  <2> DEFINE mine == {x \in covered : group[x] = i}
  <2>2. mine = Occurrences(pairs, k)
    <3>1. \A x : x \in Occurrences(pairs, k) <=> x \in selected /\ pairs[x] = k
      BY <1>1 DEF Occurrences
    <3>2. d(k) \in Nat /\ d(k) + 1 = i /\ d(k) < TopN
      BY <1>0, <1>1, <2>1
    <3>3. \A x \in selected : d(pairs[x]) + 1 = i => pairs[x] = k
      BY <1>1, <1>2, <1>3, <3>2
    <3>4. \A x : x \in mine <=> x \in selected /\ d(pairs[x]) < TopN /\ d(pairs[x]) + 1 = i
      OBVIOUS
    <3> HIDE DEF pairs, d, mine
    <3> QED
      BY <3>1, <3>2, <3>3, <3>4
  <2>3. counts[i] = Cardinality(Occurrences(pairs, k))
    BY <1>1, <2>1 DEF PairRow
  <2> QED
    BY <2>2, <2>3
<1>10. SumFunction(counts) = Cardinality(covered)
  <2>1. DOMAIN counts = 1..m
    BY <1>1
  <2> DEFINE I == 1..m
  <2>2. /\ IsFiniteSet(I)
        /\ group \in [covered -> I]
        /\ \A i \in I : counts[i] = Cardinality({x \in covered : group[x] = i})
    BY <1>5, <1>7, <1>8
  <2>3. IsFiniteSet(covered)
    BY <1>4
  <2> HIDE DEF covered, group, counts, m, I
  <2>4. SumFunctionOnSet(counts, I) = Cardinality(covered)
    BY <2>2, <2>3, GroupsAddUp
  <2> QED
    BY <2>1, <2>4 DEF SumFunction, I
<1>11. m # TopN => covered = selected
  <2>1. ASSUME m # TopN, NEW x \in selected PROVE d(pairs[x]) < TopN
    BY <1>0, <1>1, <1>2, <2>1
  <2> QED
    BY <2>1
<1> HIDE DEF covered, counts, rows, m
<1>12. SumFunction(counts) < Cardinality(selected) => m = TopN
  <2>1. Cardinality(selected) \in Nat
    BY FS_CardinalityType
  <2> QED
    BY <1>10, <1>11, <2>1
<1> QED
  BY <1>4, <1>10, <1>12 DEF counts, rows, m

----------------------------------------------------------------------------
(* What a link promises                                                    *)

\* A selection is a finite set of places.
LEMMA SelectedPlaces ==
  ASSUME NEW list \in Seq(Kinds), NEW view
  PROVE  /\ Selected(list, view) \subseteq Scoped(list, view.scope)
         /\ Scoped(list, view.scope) \subseteq DOMAIN list
         /\ IsFiniteSet(Scoped(list, view.scope))
         /\ IsFiniteSet(Selected(list, view))
         /\ Selected(list, view) \subseteq Nat
         /\ \A i \in DOMAIN list : list[i] \in Kinds
<1>1. /\ Selected(list, view) \in SUBSET Scoped(list, view.scope)
      /\ Scoped(list, view.scope) \in SUBSET DOMAIN list
  BY DEF Selected, Scoped
<1>2. DOMAIN list = 1..Len(list) /\ Len(list) \in Nat /\ DOMAIN list \subseteq Nat
  OBVIOUS
<1>3. IsFiniteSet(DOMAIN list)
  BY <1>2, FS_Interval
<1>4. IsFiniteSet(Scoped(list, view.scope))
  BY <1>1, <1>3, FS_Subset
<1>5. IsFiniteSet(Selected(list, view))
  BY <1>1, <1>4, FS_Subset
<1> QED
  BY <1>1, <1>2, <1>4, <1>5

\* The number beside a namespace is how many flows its link selects.
LEMMA NamespaceCounted ==
  ASSUME NEW list, NEW scope, NEW namespace \in DOMAIN NamespaceCounts(list, scope)
  PROVE  Cardinality(Selected(list, [scope |-> scope, namespace |-> namespace, focus |-> None]))
           = NamespaceCounts(list, scope)[namespace]
<1> DEFINE scoped == Scoped(list, scope)
           view == [scope |-> scope, namespace |-> namespace, focus |-> None]
<1>1. PICK j \in scoped : namespace \in FlowNamespaces(list[j])
  BY DEF NamespaceCounts
<1>2. namespace # None
  BY <1>1 DEF FlowNamespaces
<1>3. NamespaceCounts(list, scope)[namespace] =
        Cardinality({i \in scoped : namespace \in FlowNamespaces(list[i])})
  BY DEF NamespaceCounts
<1>4. \A i \in scoped : namespace \in FlowNamespaces(list[i]) <=> FlowInNamespace(list[i], namespace)
  BY <1>2 DEF FlowNamespaces, FlowInNamespace
<1>5. Selected(list, view) = {i \in scoped : FlowInNamespace(list[i], namespace)}
  BY <1>2 DEF Selected
<1> QED
  BY <1>3, <1>4, <1>5

\* What has the label is selected as a whole or not at all.
LEMMA WholePairs ==
  ASSUME NEW list \in Seq(Kinds), NEW view, NEW pair \in Range(PairsOf(list, Selected(list, view))),
         NEW label \in {pair.src, pair.dst}, NEW other,
         other.scope = view.scope, other.namespace = view.namespace, other.focus = label
  PROVE  Occurrences(PairsOf(list, Selected(list, other)), pair) =
           Occurrences(PairsOf(list, Selected(list, view)), pair)
<1> DEFINE P == PairsOf(list, Selected(list, view))
           Q == PairsOf(list, Selected(list, other))
<1>1. PICK j \in Selected(list, view) : pair = PairOf(list[j])
  BY DEF PairsOf, Range
<1>2. ASSUME NEW i, PairOf(list[i]) = pair
      PROVE  /\ FlowTouches(list[i], label)
             /\ \A l : FlowTouches(list[i], l) <=> FlowTouches(list[j], l)
  BY <1>1, <1>2 DEF FlowTouches, PairOf
<1>3. ASSUME NEW i \in Scoped(list, view.scope), PairOf(list[i]) = pair
      PROVE  i \in Selected(list, view) <=> i \in Selected(list, other)
  <2>1. view.focus # None => FlowTouches(list[i], view.focus)
    BY <1>1, <1>2, <1>3 DEF Selected
  <2> QED
    BY <1>2, <1>3, <2>1 DEF Selected
<1>4. Selected(list, view) \subseteq Scoped(list, view.scope)
      /\ Selected(list, other) \subseteq Scoped(list, view.scope)
  BY DEF Selected
<1>5. \A i : /\ i \in Occurrences(P, pair) <=> i \in Selected(list, view) /\ PairOf(list[i]) = pair
             /\ i \in Occurrences(Q, pair) <=> i \in Selected(list, other) /\ PairOf(list[i]) = pair
  BY DEF Occurrences, PairsOf
<1> QED
  BY <1>3, <1>4, <1>5

\* The row a resource was picked from is there again, unless another focus is
\* given up and rows no rarer take the table.
LEMMA RowPicked ==
  ASSUME NEW list \in Seq(Kinds), NEW view, NEW row \in Range(TopPairs(list, Selected(list, view))),
         NEW label \in {row.pair.src, row.pair.dst}, NEW other,
         other.scope = view.scope, other.namespace = view.namespace, other.focus = label
  PROVE  LET rows == TopPairs(list, Selected(list, other))
         IN  \/ row \in Range(rows)
             \/ /\ view.focus \notin {None, label}
                /\ Len(rows) = TopN
                /\ \A r \in Range(rows) : r.count >= row.count
<1> DEFINE sel == Selected(list, view)
           sel2 == Selected(list, other)
           P == PairsOf(list, sel)
           Q == PairsOf(list, sel2)
<1>0. TopN \in Nat
  BY FlowSummaryAssumption
<1>1. /\ IsFiniteSet(sel) /\ sel \subseteq Nat
      /\ IsFiniteSet(sel2) /\ sel2 \subseteq Nat
      /\ sel \subseteq DOMAIN list
      /\ \A i \in DOMAIN list : list[i] \in Kinds
  BY SelectedPlaces
<1>2. PICK k \in Range(P) : row = PairRow(list, P, k) /\ Standing(P, k) < TopN
  <2>1. /\ DOMAIN TopPairs(list, sel) = 1..Len(TopPairs(list, sel))
        /\ Len(TopPairs(list, sel)) <= TopN
        /\ \A i \in 1..Len(TopPairs(list, sel)) : \E l \in Range(P) :
             Standing(P, l) = i - 1 /\ TopPairs(list, sel)[i] = PairRow(list, P, l)
    BY <1>0, <1>1, TableRows
  <2>2. PICK i \in 1..Len(TopPairs(list, sel)) : row = TopPairs(list, sel)[i]
    BY <2>1 DEF Range
  <2>3. Len(TopPairs(list, sel)) \in Nat
    BY <1>0, <1>1, TableRows
  <2> HIDE DEF P, sel
  <2>4. PICK l \in Range(P) : Standing(P, l) = i - 1 /\ row = PairRow(list, P, l)
    BY <2>1, <2>2
  <2>5. i - 1 < TopN
    BY <1>0, <2>1, <2>3
  <2> QED
    BY <2>4, <2>5
<1>3. row.pair = k /\ label \in {k.src, k.dst}
  BY <1>2 DEF PairRow
<1>4. Occurrences(Q, k) = Occurrences(P, k)
  BY <1>3, WholePairs
<1>5. Places(P) /\ Places(Q)
  BY <1>1, TableRows
<1>6. k \in Range(Q)
  <2>1. Occurrences(Q, k) # {}
    BY <1>4, <1>5, CountsOfKeys
  <2> QED
    BY <2>1 DEF Occurrences, Range
<1>7. row = PairRow(list, Q, k)
  BY <1>2, <1>4 DEF PairRow
<1>8. ASSUME row \notin Range(TopPairs(list, sel2)), view.focus \in {None, label} PROVE FALSE
  <2>1. Standing(Q, k) >= TopN
    BY <1>1, <1>6, <1>7, <1>8, RowsAreNoRarer
  <2>2. label # None
    <3>1. PICK j \in sel : k = PairOf(list[j])
      BY DEF PairsOf, Range
    <3>2. list[j] \in Kinds
      BY <1>1
    <3> QED
      BY <1>3, <3>1, <3>2, FlowPagesAssumption DEF PairOf
  <2>3. sel2 \subseteq sel
    BY <1>8, <2>2 DEF Selected
  <2>4. ASSUME NEW q \in Range(Q)
        PROVE  q \in Range(P) /\ Occurrences(P, q) = Occurrences(Q, q)
    <3>1. PICK i \in sel2 : q = PairOf(list[i])
      BY DEF PairsOf, Range
    <3>2. i \in sel /\ q \in Range(P)
      BY <2>3, <3>1 DEF PairsOf, Range
    <3>3. FlowTouches(list[i], label)
      BY <2>2, <3>1 DEF Selected
    <3>4. label \in {q.src, q.dst}
      BY <3>1, <3>3 DEF FlowTouches, PairOf
    <3> QED
      BY <3>2, <3>4, WholePairs
  <2>5. \A q \in Range(Q) : Counter(P)[q] = Counter(Q)[q] /\ First(P, q) = First(Q, q)
    BY <2>4 DEF Counter, First
  <2>6. Ahead(Q)[k] \subseteq Ahead(P)[k]
    <3> HIDE DEF P, Q
    <3> QED
      BY <1>2, <1>6, <2>4, <2>5 DEF Ahead
  <2>7. Standing(Q, k) <= Standing(P, k) /\ Standing(P, k) \in Nat /\ Standing(Q, k) \in Nat
    <3>1. IsFiniteSet(Range(P)) /\ Ahead(P)[k] \in SUBSET Range(P)
      BY <1>2, <1>5, CountsOfKeys, AheadIsStrict DEF StrictOrder
    <3>2. IsFiniteSet(Ahead(P)[k])
      BY <3>1, FS_Subset
    <3>3. IsFiniteSet(Ahead(Q)[k])
      BY <2>6, <3>2, FS_Subset
    <3> HIDE DEF P, Q
    <3> QED
      BY <2>6, <3>2, <3>3, FS_Subset, FS_CardinalityType DEF Standing
  <2> HIDE DEF P, Q
  <2> QED
    BY <1>0, <1>2, <2>1, <2>7
<1>9. ASSUME row \notin Range(TopPairs(list, sel2))
      PROVE  /\ Len(TopPairs(list, sel2)) = TopN
             /\ \A r \in Range(TopPairs(list, sel2)) : r.count >= row.count
  BY <1>1, <1>6, <1>7, <1>9, RowsAreNoRarer
<1> QED
  BY <1>8, <1>9

----------------------------------------------------------------------------
(* The pages                                                               *)

\* The places that a flow may have, and the addresses made of them.
Known(label, namespace) ==
  /\ label = None \/ \E kind \in Kinds : label \in {kind.src.label, kind.dst.label}
  /\ namespace = None \/ \E kind \in Kinds : namespace \in FlowNamespaces(kind)

IsView(view) ==
  /\ view = [scope |-> view.scope, namespace |-> view.namespace, focus |-> view.focus]
  /\ view.scope \in {"app", "all"}
  /\ Known(view.focus, view.namespace)

\* A page shows what its address says of the list at hand, unless it shows an error.
PagesInv ==
  /\ flows \in Seq(Kinds)
  /\ IsView(page.view)
  /\ \/ page.summary = Summarize(flows, page.view)
     \/ page.summary = Summarize(<<>>, page.view) /\ page.shows = "fetch error"

\* Every page that is put together is one of its address.
LEMMA PagesOfView ==
  ASSUME NEW list, NEW view, NEW p \in PagesOf(list, view)
  PROVE  /\ p.view = view
         /\ p.summary = Summarize(list, view)
         /\ p.shows # "fetch error"
<1> DEFINE summary == Summarize(list, view)
           shows(layers) == Shows(summary, view, layers)
<1>1. \A layers : shows(layers) # "fetch error"
  BY DEF Shows
<1>2. PICK layers \in Layouts[Edges(summary.top_pairs)] :
        p = [view |-> view, summary |-> summary, layers |-> layers, shows |-> shows(layers)]
  BY DEF PagesOf
<1> HIDE DEF summary, shows
<1>3. p.view = view /\ p.summary = summary /\ p.shows = shows(layers)
  BY <1>2
<1> QED
  BY <1>1, <1>3 DEF summary

\* The namespaces beside a list are those of its flows.
LEMMA NamespacesKnown ==
  ASSUME NEW list \in Seq(Kinds), NEW scope, NEW namespace \in DOMAIN NamespaceCounts(list, scope)
  PROVE  \E kind \in Kinds : namespace \in FlowNamespaces(kind)
<1>1. PICK i \in Scoped(list, scope) : namespace \in FlowNamespaces(list[i])
  BY DEF NamespaceCounts
<1>2. i \in DOMAIN list
  BY DEF Scoped
<1>3. list[i] \in Kinds
  BY <1>2
<1> QED
  BY <1>1, <1>3

\* A label in the table is one of a row's, which is one of a flow's.
LEMMA LabelsKnown ==
  ASSUME NEW list \in Seq(Kinds), NEW view,
         NEW label \in Labels(Edges(TopPairs(list, Selected(list, view))))
  PROVE  \E kind \in Kinds : label \in {kind.src.label, kind.dst.label}
<1> DEFINE sel == Selected(list, view)
           rows == TopPairs(list, sel)
           P == PairsOf(list, sel)
<1>1. /\ IsFiniteSet(sel) /\ sel \subseteq Nat /\ sel \subseteq DOMAIN list
      /\ \A i \in DOMAIN list : list[i] \in Kinds
  BY SelectedPlaces
<1>2. PICK i \in DOMAIN rows : label \in {rows[i].pair.src, rows[i].pair.dst}
  BY DEF Labels, Edges
<1>3. \A n \in DOMAIN rows : \E k \in Range(P) : rows[n] = PairRow(list, P, k)
  <2>1. /\ DOMAIN rows = 1..Len(rows)
        /\ \A n \in 1..Len(rows) : \E k \in Range(P) :
             Standing(P, k) = n - 1 /\ rows[n] = PairRow(list, P, k)
    BY <1>1, TableRows
  <2> HIDE DEF rows, P
  <2> QED
    BY <2>1
<1>4. PICK k \in Range(P) : rows[i] = PairRow(list, P, k)
  BY <1>3
<1>5. rows[i].pair = k
  BY <1>4 DEF PairRow
<1>6. PICK j \in sel : k = PairOf(list[j])
  BY DEF PairsOf, Range
<1>7. list[j] \in Kinds
  BY <1>1
<1> QED
  BY <1>2, <1>5, <1>6, <1>7 DEF PairOf

\* Every link of a page leads to an address.
LEMMA LinksAreViews ==
  ASSUME PagesInv, NEW view \in Links
  PROVE  IsView(view)
<1>1. flows \in Seq(Kinds) /\ <<>> \in Seq(Kinds)
  <2>1. flows \in Seq(Kinds)
    BY DEF PagesInv
  <2>2. <<>> \in Seq(Kinds)
    OBVIOUS
  <2> QED
    BY <2>1, <2>2
<1>2. PICK list \in Seq(Kinds) : page.summary = Summarize(list, page.view)
  BY <1>1 DEF PagesInv
<1>3. /\ page.summary.namespaces = NamespaceCounts(list, page.view.scope)
      /\ page.summary.top_pairs = TopPairs(list, Selected(list, page.view))
  BY <1>2 DEF Summarize
<1>4. IsView(page.view)
  BY DEF PagesInv
<1> DEFINE old == page.view
<1>5. /\ old = [scope |-> old.scope, namespace |-> old.namespace, focus |-> old.focus]
      /\ old.scope \in {"app", "all"}
      /\ Known(old.focus, old.namespace)
  BY <1>4 DEF IsView
<1>6. \/ view \in NamespaceLinks
      \/ view = [old EXCEPT !.namespace = None]
      \/ view \in ResourceLinks
      \/ view \in ScopeLinks
      \/ view = [old EXCEPT !.focus = None]
  BY DEF Links, AllNamespacesLink, ClearFocusLink
<1>7. CASE view \in NamespaceLinks
  <2>1. PICK namespace \in DOMAIN page.summary.namespaces : view = NamespaceLink(namespace)
    BY <1>7 DEF NamespaceLinks
  <2>2. \E kind \in Kinds : namespace \in FlowNamespaces(kind)
    BY <1>2, <1>3, <2>1, NamespacesKnown
  <2>3. view = [scope |-> old.scope, namespace |-> namespace, focus |-> None]
    BY <2>1 DEF NamespaceLink
  <2> QED
    BY <1>5, <2>2, <2>3 DEF IsView, Known
<1>8. CASE view \in ResourceLinks
  <2>1. PICK label \in Labels(Edges(page.summary.top_pairs)) : view = ResourceLink(label)
    BY <1>8 DEF ResourceLinks
  <2>2. \E kind \in Kinds : label \in {kind.src.label, kind.dst.label}
    BY <1>2, <1>3, <2>1, LabelsKnown
  <2>3. view = [scope |-> old.scope, namespace |-> old.namespace, focus |-> label]
    BY <1>5, <2>1 DEF ResourceLink
  <2> QED
    BY <1>5, <2>2, <2>3 DEF IsView, Known
<1>9. CASE view = [old EXCEPT !.namespace = None]
  <2>1. view = [scope |-> old.scope, namespace |-> None, focus |-> old.focus]
    BY <1>5, <1>9
  <2> QED
    BY <1>5, <2>1 DEF IsView, Known
<1>10. CASE view = [old EXCEPT !.focus = None]
  <2>1. view = [scope |-> old.scope, namespace |-> old.namespace, focus |-> None]
    BY <1>5, <1>10
  <2> QED
    BY <1>5, <2>1 DEF IsView, Known
<1>11. CASE view \in ScopeLinks
  <2>1. PICK scope \in {"app", "all"} : view = [old EXCEPT !.scope = scope]
    BY <1>11 DEF ScopeLinks
  <2>2. view = [scope |-> scope, namespace |-> old.namespace, focus |-> old.focus]
    BY <1>5, <2>1
  <2> QED
    BY <1>5, <2>2 DEF IsView, Known
<1> QED
  BY <1>6, <1>7, <1>8, <1>9, <1>10, <1>11

\* The front page is one,
LEMMA PagesInit ==
  ASSUME Init
  PROVE  PagesInv
<1>1. flows = <<>> /\ page \in PagesOf(flows, FrontPage)
  BY DEF Init, Page
<1>2. page.view = FrontPage /\ page.summary = Summarize(flows, FrontPage)
  BY <1>1, PagesOfView
<1>3. IsView(FrontPage)
  BY DEF IsView, Known, FrontPage
<1> QED
  BY <1>1, <1>2, <1>3 DEF PagesInv

\* and so is whatever follows it.
LEMMA PagesStep ==
  ASSUME PagesInv, [Next]_vars
  PROVE  PagesInv'
<1>1. ASSUME NEW view, IsView(view), page' \in Page(view), UNCHANGED flows PROVE PagesInv'
  <2>1. page'.view = view /\ page'.summary = Summarize(flows, view)
    BY <1>1, PagesOfView DEF Page
  <2> QED
    BY <1>1, <2>1 DEF PagesInv
<1>2. IsView(page.view)
  BY DEF PagesInv
<1>3. CASE Follow
  BY <1>1, <1>3, LinksAreViews DEF Follow
<1>4. CASE Home
  <2>1. IsView(FrontPage)
    BY DEF IsView, Known, FrontPage
  <2> QED
    BY <1>1, <1>4, <2>1 DEF Home
<1>5. CASE Refresh
  BY <1>1, <1>2, <1>5 DEF Refresh
<1>6. CASE Renew
  <2>1. PICK kind \in Kinds :
          LET longer == Append(flows, kind)
              list   == IF Len(longer) > HubbleLast THEN Tail(longer) ELSE longer
          IN  flows' = list /\ page' \in PagesOf(list, page.view)
    BY <1>6 DEF Renew
  <2>2. flows \in Seq(Kinds)
    BY DEF PagesInv
  <2>3. Append(flows, kind) \in Seq(Kinds) /\ Append(flows, kind) # <<>>
    <3>1. Append(flows, kind) \in Seq(Kinds)
      BY <2>2
    <3>2. Len(Append(flows, kind)) = Len(flows) + 1 /\ Len(flows) \in Nat
      BY <2>2
    <3>3. Len(<<>>) = 0
      OBVIOUS
    <3> QED
      BY <3>1, <3>2, <3>3
  <2>4. flows' \in Seq(Kinds)
    BY <2>1, <2>3
  <2>5. page'.view = page.view /\ page'.summary = Summarize(flows', page.view)
    BY <2>1, PagesOfView
  <2> QED
    BY <1>2, <2>4, <2>5 DEF PagesInv
<1>7. CASE Unavailable
  <2>1. /\ page'.view = page.view
        /\ page'.summary = Summarize(<<>>, page.view)
        /\ page'.shows = "fetch error"
        /\ flows' = flows
    BY <1>7 DEF Unavailable, ErrorPage
  <2> QED
    BY <1>2, <2>1 DEF PagesInv
<1>8. CASE UNCHANGED vars
  BY <1>8 DEF vars, PagesInv
<1> QED
  BY <1>3, <1>4, <1>5, <1>6, <1>7, <1>8 DEF Next

\* Whatever is clicked while flows arrive and Hubble comes and goes, a page that
\* is no error is the summary of the present list under the filters of its
\* address (_render_flows).
THEOREM PagesAsAddressed == Spec => []PagesInv
<1>1. Init => PagesInv
  BY PagesInit
<1>2. PagesInv /\ [Next]_vars => PagesInv'
  BY PagesStep
<1> QED
  BY <1>1, <1>2, PTL DEF Spec

\* The sums of a page that is as it is addressed.
LEMMA RowsAddUpHolds ==
  ASSUME PagesInv
  PROVE  RowsAddUp
<1> SUFFICES ASSUME HasRows PROVE RowsAddUp
  BY DEF RowsAddUp
<1> DEFINE sel == Selected(flows, page.view)
           pairs == PairsOf(flows, sel)
           rows == page.summary.top_pairs
           inTable == SumFunction([i \in DOMAIN rows |-> rows[i].count])
           shown == page.summary.shown
<1>1. page.summary = Summarize(flows, page.view) /\ flows \in Seq(Kinds)
  BY DEF PagesInv, HasRows
<1>2. /\ rows = TopPairs(flows, sel)
      /\ shown = Cardinality(sel)
      /\ page.summary.verdicts = Verdicts(flows, sel)
  BY <1>1 DEF Summarize
<1>3. IsFiniteSet(sel) /\ sel \subseteq Nat
  BY <1>1, SelectedPlaces
<1>4. SumFunction(page.summary.verdicts) = shown
  <2> DEFINE key == [i \in sel |-> flows[i].verdict]
  <2>1. Verdicts(flows, sel) = Counter(key)
    BY DEF Verdicts
  <2>2. DOMAIN key = sel
    OBVIOUS
  <2> HIDE DEF key, sel
  <2>3. SumFunction(Counter(key)) = Cardinality(sel)
    BY <1>3, <2>2, KeysAddUp
  <2> QED
    BY <1>2, <2>1, <2>3
<1>5. inTable <= shown /\ (inTable < shown => Len(rows) = TopN)
  BY <1>2, <1>3, TableAddsUp
<1>6. ASSUME NEW pair \in Range(pairs) \ {row.pair : row \in Range(rows)},
             NEW row \in Range(rows)
      PROVE  PairRow(flows, pairs, pair).count <= row.count
  <2>1. PairRow(flows, pairs, pair).pair = pair
    BY DEF PairRow
  <2>2. PairRow(flows, pairs, pair) \notin Range(rows)
    BY <2>1
  <2>3. row.count >= PairRow(flows, pairs, pair).count
    BY <1>2, <1>3, <2>2, RowsAreNoRarer
  <2>4. PairRow(flows, pairs, pair).count \in Nat /\ row.count \in Nat
    <3>1. Places(pairs) /\ DOMAIN rows = 1..Len(rows)
          /\ \A i \in 1..Len(rows) : \E k \in Range(pairs) :
               Standing(pairs, k) = i - 1 /\ rows[i] = PairRow(flows, pairs, k)
      BY <1>2, <1>3, TableRows
    <3>2. \A k \in Range(pairs) : PairRow(flows, pairs, k).count \in Nat
      BY <3>1, CountsOfKeys DEF PairRow
    <3>3. PICK i \in 1..Len(rows) : row = rows[i]
      BY <3>1 DEF Range
    <3> QED
      BY <3>1, <3>2, <3>3
  <2> QED
    BY <2>3, <2>4
<1> QED
  BY <1>4, <1>5, <1>6 DEF RowsAddUp

\* Every flow that passes the filters is counted in one badge and in one row,
\* unless its row was cut, and then none in the table is rarer (summarize).
THEOREM PagesAddUp == Spec => []RowsAddUp
<1>1. PagesInv => RowsAddUp
  BY RowsAddUpHolds
<1> QED
  BY <1>1, PagesAsAddressed, PTL

\* What the links speak of.
LEMMA SummaryParts ==
  ASSUME NEW list, NEW view
  PROVE  /\ Summarize(list, view).shown = Cardinality(Selected(list, view))
         /\ Summarize(list, view).namespaces = NamespaceCounts(list, view.scope)
         /\ Summarize(list, view).top_pairs = TopPairs(list, Selected(list, view))
BY DEF Summarize

\* What a link promises, from one address and its summary to the next.
NamespaceWord(view, summary, next, after) ==
  \A namespace \in DOMAIN summary.namespaces :
    next = [scope |-> view.scope, namespace |-> namespace, focus |-> None] =>
      after.shown = summary.namespaces[namespace]

RowWord(view, summary, next, after) ==
  \A row \in Range(summary.top_pairs) : \A label \in {row.pair.src, row.pair.dst} :
    next = [view EXCEPT !.focus = label] =>
      \/ row \in Range(after.top_pairs)
      \/ /\ view.focus \notin {None, label}
         /\ Len(after.top_pairs) = TopN
         /\ \A other \in Range(after.top_pairs) : other.count >= row.count

\* Over the same list it is kept.
LEMMA WordKept ==
  ASSUME NEW list \in Seq(Kinds), NEW view, IsView(view), NEW next
  PROVE  /\ NamespaceWord(view, Summarize(list, view), next, Summarize(list, next))
         /\ RowWord(view, Summarize(list, view), next, Summarize(list, next))
<1>1. ASSUME NEW namespace \in DOMAIN NamespaceCounts(list, view.scope),
             next = [scope |-> view.scope, namespace |-> namespace, focus |-> None]
      PROVE  Cardinality(Selected(list, next)) = NamespaceCounts(list, view.scope)[namespace]
  BY <1>1, NamespaceCounted
<1>2. ASSUME NEW row \in Range(TopPairs(list, Selected(list, view))),
             NEW label \in {row.pair.src, row.pair.dst},
             next = [view EXCEPT !.focus = label]
      PROVE  LET rows == TopPairs(list, Selected(list, next))
             IN  \/ row \in Range(rows)
                 \/ /\ view.focus \notin {None, label}
                    /\ Len(rows) = TopN
                    /\ \A other \in Range(rows) : other.count >= row.count
  <2>1. view = [scope |-> view.scope, namespace |-> view.namespace, focus |-> view.focus]
    BY DEF IsView
  <2>2. next.scope = view.scope /\ next.namespace = view.namespace /\ next.focus = label
    BY <1>2, <2>1
  <2> QED
    BY <2>2, RowPicked
<1> QED
  BY <1>1, <1>2, SummaryParts DEF NamespaceWord, RowWord

\* A page without flows has no such links.
LEMMA NoWord ==
  ASSUME NEW view
  PROVE  /\ DOMAIN Summarize(<<>>, view).namespaces = {}
         /\ Range(Summarize(<<>>, view).top_pairs) = {}
<1> DEFINE none == <<>>
<1>1. DOMAIN none = {} /\ none \in Seq(Kinds)
  OBVIOUS
<1> HIDE DEF none
<1>2. Scoped(none, view.scope) = {} /\ Selected(none, view) = {}
  BY <1>1, SelectedPlaces
<1>3. DOMAIN NamespaceCounts(none, view.scope) = {}
  BY <1>2 DEF NamespaceCounts
<1>4. Range(TopPairs(none, {})) = {}
  <2>1. Range(PairsOf(none, {})) = {}
    BY DEF PairsOf, Range
  <2>2. IsFiniteSet({}) /\ {} \subseteq Nat
    BY FS_EmptySet
  <2>3. /\ DOMAIN TopPairs(none, {}) = 1..Len(TopPairs(none, {}))
        /\ \A i \in 1..Len(TopPairs(none, {})) : \E k \in Range(PairsOf(none, {})) :
             Standing(PairsOf(none, {}), k) = i - 1 /\ TopPairs(none, {})[i] = PairRow(none, PairsOf(none, {}), k)
    BY <2>2, TableRows
  <2> QED
    BY <2>1, <2>3 DEF Range
<1>5. /\ Summarize(none, view).namespaces = NamespaceCounts(none, view.scope)
      /\ Summarize(none, view).top_pairs = TopPairs(none, {})
  BY <1>2, SummaryParts
<1> QED
  BY <1>3, <1>4, <1>5 DEF none

\* Both words, for two pages that are as they are addressed.
LEMMA LinksKept ==
  ASSUME PagesInv, PagesInv', flows' = flows, page'.shows # "fetch error"
  PROVE  NumberKept /\ RowKept
<1>1. page'.summary = Summarize(flows, page'.view) /\ flows \in Seq(Kinds) /\ IsView(page.view)
  BY DEF PagesInv
<1>2. NamespaceWord(page.view, page.summary, page'.view, page'.summary)
      /\ RowWord(page.view, page.summary, page'.view, page'.summary)
  <2>1. CASE page.summary = Summarize(flows, page.view)
    BY <1>1, <2>1, WordKept
  <2>2. CASE page.summary = Summarize(<<>>, page.view)
    BY <2>2, NoWord DEF NamespaceWord, RowWord
  <2> QED
    BY <2>1, <2>2 DEF PagesInv
<1> QED
  BY <1>2 DEF NamespaceWord, RowWord, NamespaceLink, ResourceLink, NumberKept, RowKept

\* As long as the list stays the same, a namespace shows as many flows as the
\* number beside it, and the row a resource was picked from is there again
\* (_namespace_filter_html, _flow_pair_row_html).
THEOREM LinksAreKept == Spec => LinksKeepWord
<1>1. PagesInv /\ PagesInv' /\ [Next]_vars =>
        [flows' = flows /\ page'.shows # "fetch error" => NumberKept /\ RowKept]_vars
  BY LinksKept
<1> QED
  BY <1>1, PagesAsAddressed, PTL DEF Spec, LinksKeepWord

----------------------------------------------------------------------------
(* The rounds of _assign_layers                                            *)

\* What comes next in a fold: a round over all nodes, or one node's turn.
Turn(step, edges, order, layer, i) ==
  IF step = "round" THEN RelaxAll(edges, layer, order) ELSE Relax(edges, layer, order[i])

\* The fold over the places of a list, as Folds defines it: the results for all
\* sets of places, each from a smaller one.
IsRun(step, edges, order, base, S, g) ==
  g = [T \in SUBSET S |->
         IF T = {} THEN base ELSE Turn(step, edges, order, g[T \ {Max(T)}], Max(T))]

Run(step, edges, order, base, S) == CHOOSE g : IsRun(step, edges, order, base, S, g)

\* The fold is what such a table holds,
LEMMA FoldsAreRuns ==
  ASSUME NEW edges, NEW order, NEW layer
  PROVE  /\ RelaxAll(edges, layer, order) =
              Run("node", edges, order, layer, DOMAIN order)[DOMAIN order]
         /\ AssignLayers(edges, order) =
              Rank(Run("round", edges, order, [n \in Labels(edges) |-> 0], DOMAIN order)[DOMAIN order])
<1>1. RelaxAll(edges, layer, order) =
        Run("node", edges, order, layer, DOMAIN order)[DOMAIN order]
  BY DEF RelaxAll, FoldLeft, MapThenFoldSet, Run, IsRun, Turn
<1>2. AssignLayers(edges, order) =
        Rank(Run("round", edges, order, [n \in Labels(edges) |-> 0], DOMAIN order)[DOMAIN order])
  BY DEF AssignLayers, FoldLeft, MapThenFoldSet, Run, IsRun, Turn
<1> QED
  BY <1>1, <1>2

\* A finite set of natural numbers that is not empty has a largest member.
LEMMA MaxIsLargest ==
  ASSUME NEW S, IsFiniteSet(S), \A x \in S : x \in Nat, S # {}
  PROVE  Max(S) \in S /\ \A x \in S : Max(S) >= x
<1> DEFINE above == [x \in S |-> {y \in S : y >= x}]
           Bad == {above[x] : x \in S}
<1>1. /\ Bad \in SUBSET SUBSET S
      /\ Bad # {}
  OBVIOUS
<1>2. PICK U \in Bad : \A V \in SUBSET U : V \in Bad => V = U
  <2> HIDE DEF Bad
  <2> QED
    BY <1>1, MinimalSubset
<1>3. PICK x \in S : U = above[x]
  OBVIOUS
<1>4. \A y \in S : y \in Nat
  OBVIOUS
<1>5. \A y, z \in S : z \in above[y] <=> z >= y
  OBVIOUS
<1>6. \A y \in S : above[y] \in Bad /\ above[y] \in SUBSET S
  OBVIOUS
<1> HIDE DEF above, Bad
<1>7. ASSUME NEW y \in S, ~(x >= y) PROVE FALSE
  <2>1. x \in U /\ x \notin above[y]
    <3>1. x >= x
      BY <1>4
    <3> QED
      BY <1>3, <1>5, <1>7, <3>1
  <2>2. ASSUME NEW z \in above[y] PROVE z \in U
    <3>1. z \in S /\ z >= y
      BY <1>5, <1>6
    <3>2. x \in Nat /\ y \in Nat /\ z \in Nat
      BY <1>4, <3>1
    <3>3. z >= x
      BY <1>7, <3>1, <3>2
    <3> QED
      BY <1>3, <1>5, <3>1, <3>3
  <2> QED
    BY <1>2, <1>6, <2>1, <2>2
<1>8. \A y \in S : x >= y
  BY <1>7
<1> QED
  BY <1>8 DEF Max

\* of which there is but one,
LEMMA RunsAgree ==
  ASSUME NEW step, NEW edges, NEW order, NEW base, NEW S, NEW R, NEW g, NEW h,
         IsRun(step, edges, order, base, S, g), IsRun(step, edges, order, base, R, h),
         NEW T, IsFiniteSet(T), \A x \in T : x \in Nat, T \subseteq S, T \subseteq R
  PROVE  g[T] = h[T]
<1> DEFINE Bad == {V \in SUBSET T : g[V] # h[V]}
<1>1. SUFFICES ASSUME Bad # {} PROVE FALSE
  OBVIOUS
<1>2. PICK U \in Bad : \A V \in SUBSET U : V \in Bad => V = U
  <2>1. Bad \in SUBSET SUBSET T
    OBVIOUS
  <2> HIDE DEF Bad
  <2> QED
    BY <1>1, <2>1, MinimalSubset
<1> DEFINE V == U \ {Max(U)}
<1>3. g[U] = IF U = {} THEN base ELSE Turn(step, edges, order, g[V], Max(U))
  BY DEF IsRun
<1>4. h[U] = IF U = {} THEN base ELSE Turn(step, edges, order, h[V], Max(U))
  BY DEF IsRun
<1>5. U # {}
  BY <1>3, <1>4
<1>6. V \in SUBSET U /\ V # U
  <2>1. IsFiniteSet(U) /\ \A x \in U : x \in Nat
    BY FS_Subset
  <2> QED
    BY <1>5, <2>1, MaxIsLargest
<1>7. g[V] = h[V]
  BY <1>2, <1>6
<1> QED
  BY <1>3, <1>4, <1>5, <1>7

\* and one there is.
LEMMA RunExists ==
  ASSUME NEW step, NEW edges, NEW order, NEW base, NEW S, IsFiniteSet(S),
         \A x \in S : x \in Nat
  PROVE  IsRun(step, edges, order, base, S, Run(step, edges, order, base, S))
<1> DEFINE R(V) == Run(step, edges, order, base, V)
           Is(V, g) == IsRun(step, edges, order, base, V, g)
           Turned(layer, i) == Turn(step, edges, order, layer, i)
           Bad == {V \in SUBSET S : ~Is(V, R(V))}
<1>1. SUFFICES ASSUME Bad # {} PROVE FALSE
  OBVIOUS
<1>2. PICK U \in Bad : \A V \in SUBSET U : V \in Bad => V = U
  <2>1. Bad \in SUBSET SUBSET S
    OBVIOUS
  <2> HIDE DEF Bad
  <2> QED
    BY <1>1, <2>1, MinimalSubset
<1>3. \A V \in SUBSET U : IsFiniteSet(V) /\ \A x \in V : x \in Nat
  <2>1. \A V \in SUBSET S : IsFiniteSet(V)
    BY FS_Subset
  <2> QED
    BY <2>1
<1>4. ASSUME NEW V \in SUBSET U, V # U PROVE Is(V, R(V))
  BY <1>2, <1>4
<1> DEFINE Rest(T) == T \ {Max(T)}
           Value(V) == R(V)[V]
           g == [T \in SUBSET U |-> IF T = {} THEN base ELSE Turned(Value(Rest(T)), Max(T))]
<1>5. ASSUME NEW T \in SUBSET U, T # {} PROVE Rest(T) \in SUBSET U /\ Rest(T) # U /\ Rest(T) \subseteq T
  <2>1. Max(T) \in T
    BY <1>3, <1>5, MaxIsLargest
  <2> QED
    BY <2>1
<1>6. ASSUME NEW V \in SUBSET U, V # U PROVE g[V] = Value(V)
  <2>1. Is(V, R(V))
    BY <1>4, <1>6
  <2>2. Value(V) = IF V = {} THEN base ELSE Turned(R(V)[Rest(V)], Max(V))
    BY <2>1 DEF IsRun
  <2>3. CASE V = {}
    BY <2>2, <2>3
  <2>4. CASE V # {}
    <3>1. Rest(V) \in SUBSET U /\ Rest(V) # U /\ Rest(V) \subseteq V
      BY <1>5, <2>4
    <3>2. R(V)[Rest(V)] = Value(Rest(V))
      <4>1. Is(Rest(V), R(Rest(V)))
        BY <1>4, <3>1
      <4>2. IsFiniteSet(Rest(V)) /\ \A x \in Rest(V) : x \in Nat
        BY <1>3, <3>1
      <4> HIDE DEF Rest, R
      <4> QED
        BY <2>1, <3>1, <4>1, <4>2, RunsAgree
    <3> QED
      BY <2>2, <2>4, <3>2
  <2> QED
    BY <2>3, <2>4
<1>7. Is(U, g)
  <2>1. ASSUME NEW T \in SUBSET U, T # {} PROVE g[T] = Turned(g[Rest(T)], Max(T))
    BY <1>5, <1>6, <2>1
  <2> QED
    BY <2>1 DEF IsRun
<1>8. Is(U, R(U))
  BY <1>7 DEF Run
<1> QED
  BY <1>8

\* What holds at the start and is handed on from each number to the next.
LEMMA Climb ==
  ASSUME NEW N \in Nat, NEW Good, 0 \in Good, \A i \in 0..(N - 1) : i \in Good => i + 1 \in Good
  PROVE  \A i \in 0..N : i \in Good
<1> DEFINE Bad == {i \in 0..N : i \notin Good}
<1>1. SUFFICES ASSUME Bad # {} PROVE FALSE
  OBVIOUS
<1>2. IsFiniteSet(Bad) /\ \A i \in Bad : i \in Nat
  <2>1. IsFiniteSet(0..N)
    BY FS_Interval
  <2>2. Bad \in SUBSET (0..N)
    OBVIOUS
  <2>3. IsFiniteSet(Bad)
    <3> HIDE DEF Bad
    <3> QED
      BY <2>1, <2>2, FS_Subset
  <2> QED
    BY <2>3
<1>3. PICK m \in Bad : \A i \in Bad : m <= i
  <2> HIDE DEF Bad
  <2> QED
    BY <1>1, <1>2, MinIsLeast
<1>4. m \in 0..N /\ m \notin Good /\ m # 0
  OBVIOUS
<1>5. m - 1 \in 0..(N - 1) /\ m - 1 \in 0..N /\ ~(m <= m - 1)
  BY <1>4
<1>6. m - 1 \in Good
  BY <1>3, <1>5
<1>7. (m - 1) + 1 \in Good
  BY <1>5, <1>6
<1> QED
  BY <1>4, <1>7

\* The result after the first n places.
After(step, edges, order, base, n) == Run(step, edges, order, base, 1..n)[1..n]

\* Before the first place that is what the fold starts from,
LEMMA RunsBegin ==
  ASSUME NEW step, NEW edges, NEW order, NEW base
  PROVE  After(step, edges, order, base, 0) = base
<1> DEFINE R(V) == Run(step, edges, order, base, V)
<1>1. 1..0 = {} /\ IsFiniteSet({})
  BY FS_EmptySet
<1>2. IsRun(step, edges, order, base, {}, R({}))
  BY <1>1, RunExists
<1>3. R({})[{}] = base
  BY <1>2 DEF IsRun
<1> QED
  BY <1>1, <1>3 DEF After

\* and at every place comes one more turn.
LEMMA RunsGoOn ==
  ASSUME NEW step, NEW edges, NEW order, NEW base
  PROVE  \A n, m : n \in Nat /\ m = n + 1 =>
           After(step, edges, order, base, m) =
             Turn(step, edges, order, After(step, edges, order, base, n), m)
<1> DEFINE R(V) == Run(step, edges, order, base, V)
           Is(V) == IsRun(step, edges, order, base, V, R(V))
<1>1. ASSUME NEW n \in Nat PROVE Is(1..n) /\ IsFiniteSet(1..n) /\ \A x \in 1..n : x \in Nat
  <2>1. IsFiniteSet(1..n) /\ \A x \in 1..n : x \in Nat
    BY FS_Interval
  <2> QED
    BY <2>1, RunExists
<1>2. ASSUME NEW n \in Nat
      PROVE  R(1..(n + 1))[1..(n + 1)] = Turn(step, edges, order, R(1..n)[1..n], n + 1)
  <2> DEFINE S == 1..(n + 1)
             T == 1..n
  <2>1. S # {} /\ n + 1 \in S /\ \A x \in S : x <= n + 1
    OBVIOUS
  <2>2. Max(S) = n + 1
    <3>1. Max(S) \in S /\ Max(S) >= n + 1
      <4>1. IsFiniteSet(S) /\ \A x \in S : x \in Nat
        BY <1>1
      <4> HIDE DEF S
      <4> QED
        BY <2>1, <4>1, MaxIsLargest
    <3> QED
      BY <3>1
  <2>3. S \ {n + 1} = T /\ T \subseteq S
    OBVIOUS
  <2>4. Is(S) /\ Is(T)
    BY <1>1
  <2>5. R(S)[S] = Turn(step, edges, order, R(S)[S \ {Max(S)}], Max(S))
    <3> HIDE DEF S
    <3> QED
      BY <2>1, <2>4 DEF IsRun
  <2>6. R(S)[T] = R(T)[T]
    <3>1. IsFiniteSet(T) /\ \A x \in T : x \in Nat
      BY <1>1
    <3> HIDE DEF S, T, R
    <3> QED
      BY <2>3, <2>4, <3>1, RunsAgree
  <2> QED
    BY <2>2, <2>3, <2>5, <2>6
<1> QED
  BY <1>2 DEF After

\* So a round goes node by node,
LEMMA NodesInTurn ==
  ASSUME NEW edges, NEW order, NEW layer, NEW i \in Nat
  PROVE  After("node", edges, order, layer, i + 1) =
           Relax(edges, After("node", edges, order, layer, i), order[i + 1])
BY RunsGoOn DEF Turn

\* and the layers are made round by round.
LEMMA RoundsInTurn ==
  ASSUME NEW edges, NEW order, NEW layer, NEW i \in Nat
  PROVE  After("round", edges, order, layer, i + 1) =
           RelaxAll(edges, After("round", edges, order, layer, i), order)
BY RunsGoOn DEF Turn

----------------------------------------------------------------------------
(* One round                                                               *)

\* One node's turn.
LEMMA RelaxRaises ==
  ASSUME NEW L, NEW layer \in [L -> Nat], NEW edges, NEW src \in L
  PROVE  LET next == Relax(edges, layer, src)
         IN  /\ next \in [L -> Nat]
             /\ \A n \in L : next[n] >= layer[n]
             /\ \A n \in L : n # src /\ <<src, n>> \in edges => next[n] >= layer[src] + 1
BY DEF Relax

\* A round reaches from each node it visits to all its targets.
LEMMA RoundReaches ==
  ASSUME NEW L, NEW layer \in [L -> Nat], NEW edges, NEW N \in Nat, NEW order \in [1..N -> L]
  PROVE  LET next == RelaxAll(edges, layer, order)
         IN  /\ next \in [L -> Nat]
             /\ \A n \in L : next[n] >= layer[n]
             /\ \A i \in 1..N : \A n \in L :
                  n # order[i] /\ <<order[i], n>> \in edges => next[n] >= layer[order[i]] + 1
<1> DEFINE A(i) == After("node", edges, order, layer, i)
           Reached(i, l) ==
             /\ l \in [L -> Nat]
             /\ \A n \in L : l[n] >= layer[n]
             /\ \A j \in 1..i : \A n \in L :
                  n # order[j] /\ <<order[j], n>> \in edges => l[n] >= layer[order[j]] + 1
           Good == {i \in 0..N : Reached(i, A(i))}
<1>1. RelaxAll(edges, layer, order) = A(N)
  <2>1. DOMAIN order = 1..N
    OBVIOUS
  <2> QED
    BY <2>1, FoldsAreRuns DEF After
<1>2. A(0) = layer
  BY RunsBegin
<1>3. \A i \in Nat : A(i + 1) = Relax(edges, A(i), order[i + 1])
  BY NodesInTurn
<1> HIDE DEF A
<1>4. 0 \in Good
  <2>1. \A n \in L : layer[n] \in Nat
    OBVIOUS
  <2>2. Reached(0, layer)
    BY <2>1
  <2> QED
    BY <1>2, <2>2
<1>5. ASSUME NEW i \in 0..(N - 1), i \in Good PROVE i + 1 \in Good
  <2>1. i \in Nat /\ i + 1 \in 1..N /\ i + 1 \in 0..N
    OBVIOUS
  <2> DEFINE old == A(i)
             next == A(i + 1)
             src == order[i + 1]
  <2>2. Reached(i, old)
    BY <1>5
  <2>3. old \in [L -> Nat] /\ src \in L
    BY <2>1, <2>2
  <2>4. next = Relax(edges, old, src)
    BY <1>3, <2>1
  <2> HIDE DEF old, next, src
  <2>5. /\ next \in [L -> Nat]
        /\ \A n \in L : next[n] >= old[n]
        /\ \A n \in L : n # src /\ <<src, n>> \in edges => next[n] >= old[src] + 1
    BY <2>3, <2>4, RelaxRaises
  <2>6. \A n \in L : old[n] >= layer[n] /\ old[n] \in Nat /\ layer[n] \in Nat /\ next[n] \in Nat
    BY <2>2, <2>3, <2>5
  <2>7. \A n \in L : next[n] >= layer[n]
    BY <2>5, <2>6
  <2>8. ASSUME NEW j \in 1..(i + 1), NEW n \in L, n # order[j], <<order[j], n>> \in edges
        PROVE  next[n] >= layer[order[j]] + 1
    <3>1. order[j] \in L
      BY <2>1
    <3>2. CASE j = i + 1
      <4>1. order[j] = src
        BY <3>2 DEF src
      <4>2. next[n] >= old[src] + 1
        BY <2>5, <2>8, <4>1
      <4> QED
        BY <2>3, <2>6, <4>1, <4>2
    <3>3. CASE j # i + 1
      <4>1. j \in 1..i
        BY <2>1, <3>3
      <4>2. old[n] >= layer[order[j]] + 1
        BY <2>2, <2>8, <4>1
      <4> QED
        BY <2>5, <2>6, <3>1, <4>2
    <3> QED
      BY <3>2, <3>3
  <2>9. Reached(i + 1, next)
    BY <2>5, <2>7, <2>8
  <2> QED
    BY <2>1, <2>9 DEF next
<1>6. N \in Good
  <2>1. \A i \in 0..(N - 1) : i \in Good => i + 1 \in Good
    BY <1>5
  <2>2. N \in 0..N
    OBVIOUS
  <2> HIDE DEF Good
  <2> QED
    BY <1>4, <2>1, <2>2, Climb
<1>7. Reached(N, A(N))
  BY <1>6
<1> QED
  BY <1>1, <1>7

----------------------------------------------------------------------------
(* All rounds                                                              *)

\* Heights of some nodes, with each all those it can be reached from: an edge
\* goes up by one at least, and some edge by no more.
IsHeight(edges, P, height) ==
  /\ P \in SUBSET Labels(edges)
  /\ height \in [P -> Nat]
  /\ \A n \in P, m \in Labels(edges) :
       m # n /\ <<m, n>> \in edges => m \in P /\ height[n] >= height[m] + 1
  /\ \A n \in P : height[n] # 0 =>
       \E m \in P : m # n /\ <<m, n>> \in edges /\ height[n] = height[m] + 1

\* A node's turn takes nobody above his height,
LEMMA RelaxStaysBelow ==
  ASSUME NEW edges, NEW P, NEW height, IsHeight(edges, P, height),
         NEW layer \in [Labels(edges) -> Nat], \A n \in P : layer[n] <= height[n],
         NEW src \in Labels(edges)
  PROVE  \A n \in P : Relax(edges, layer, src)[n] <= height[n]
<1> TAKE n \in P
<1>1. n \in Labels(edges) /\ height[n] \in Nat /\ layer[n] \in Nat /\ layer[src] \in Nat
  BY DEF IsHeight
<1>2. Relax(edges, layer, src)[n] =
        IF n # src /\ <<src, n>> \in edges /\ layer[n] <= layer[src] THEN layer[src] + 1 ELSE layer[n]
  BY <1>1 DEF Relax
<1>3. CASE n # src /\ <<src, n>> \in edges
  <2>1. src \in P /\ height[n] >= height[src] + 1 /\ height[src] \in Nat
    BY <1>3 DEF IsHeight
  <2>2. layer[src] <= height[src]
    BY <2>1
  <2> QED
    BY <1>1, <1>2, <2>1, <2>2
<1>4. CASE ~(n # src /\ <<src, n>> \in edges)
  BY <1>2, <1>4
<1> QED
  BY <1>3, <1>4

\* nor does a round.
LEMMA RoundStaysBelow ==
  ASSUME NEW edges, NEW P, NEW height, IsHeight(edges, P, height),
         NEW layer \in [Labels(edges) -> Nat], \A n \in P : layer[n] <= height[n],
         NEW N \in Nat, NEW order \in [1..N -> Labels(edges)]
  PROVE  \A n \in P : RelaxAll(edges, layer, order)[n] <= height[n]
<1> DEFINE A(i) == After("node", edges, order, layer, i)
           Below(l) == l \in [Labels(edges) -> Nat] /\ \A n \in P : l[n] <= height[n]
           Good == {i \in 0..N : Below(A(i))}
<1>1. RelaxAll(edges, layer, order) = A(N)
  <2>1. DOMAIN order = 1..N
    OBVIOUS
  <2> QED
    BY <2>1, FoldsAreRuns DEF After
<1>2. A(0) = layer
  BY RunsBegin
<1>3. \A i \in Nat : A(i + 1) = Relax(edges, A(i), order[i + 1])
  BY NodesInTurn
<1> HIDE DEF A
<1>4. 0 \in Good
  BY <1>2
<1>5. ASSUME NEW i \in 0..(N - 1), i \in Good PROVE i + 1 \in Good
  <2>1. i \in Nat /\ i + 1 \in 1..N /\ i + 1 \in 0..N
    OBVIOUS
  <2> DEFINE old == A(i)
             src == order[i + 1]
  <2>2. Below(old) /\ src \in Labels(edges)
    BY <1>5, <2>1
  <2>3. A(i + 1) = Relax(edges, old, src)
    BY <1>3, <2>1
  <2> HIDE DEF old, src
  <2>4. Below(Relax(edges, old, src))
    BY <2>2, RelaxStaysBelow, RelaxRaises
  <2> QED
    BY <2>1, <2>3, <2>4
<1>6. N \in Good
  <2>1. \A i \in 0..(N - 1) : i \in Good => i + 1 \in Good
    BY <1>5
  <2>2. N \in 0..N
    OBVIOUS
  <2> HIDE DEF Good
  <2> QED
    BY <1>4, <2>1, <2>2, Climb
<1> QED
  BY <1>1, <1>6

\* The layers after so many rounds.
Layers(edges, order, r) == After("round", edges, order, [n \in Labels(edges) |-> 0], r)

\* An order that leaves nobody out.
Visits(edges, order, N) ==
  /\ order \in [1..N -> Labels(edges)]
  /\ \A n \in Labels(edges) : \E i \in 1..N : order[i] = n

\* After r rounds the nodes at less than r hops are where they belong, and the
\* others are not yet further than that.
LEMMA RoundsApproach ==
  ASSUME NEW edges, NEW P, NEW height, IsHeight(edges, P, height),
         NEW N \in Nat, NEW order, Visits(edges, order, N)
  PROVE  \A r \in 0..N :
           /\ Layers(edges, order, r) \in [Labels(edges) -> Nat]
           /\ \A n \in P : /\ Layers(edges, order, r)[n] <= height[n]
                           /\ \/ Layers(edges, order, r)[n] = height[n]
                              \/ Layers(edges, order, r)[n] >= r
<1> DEFINE L == Labels(edges)
           A(r) == Layers(edges, order, r)
           Near(r, l) ==
             /\ l \in [L -> Nat]
             /\ \A n \in P : l[n] <= height[n] /\ (l[n] = height[n] \/ l[n] >= r)
           Good == {r \in 0..N : Near(r, A(r))}
<1>1. \A n \in P : n \in L /\ height[n] \in Nat
  BY DEF IsHeight
<1>2. A(0) = [n \in L |-> 0]
  BY RunsBegin DEF Layers
<1>3. \A r \in Nat : A(r + 1) = RelaxAll(edges, A(r), order)
  BY RoundsInTurn DEF Layers
<1> HIDE DEF A
<1>4. 0 \in Good
  BY <1>1, <1>2
<1>5. ASSUME NEW r \in 0..(N - 1), r \in Good PROVE r + 1 \in Good
  <2>1. r \in Nat /\ r + 1 \in 0..N
    OBVIOUS
  <2> DEFINE old == A(r)
             next == A(r + 1)
  <2>2. Near(r, old)
    BY <1>5
  <2>3. next = RelaxAll(edges, old, order)
    BY <1>3, <2>1
  <2> HIDE DEF old, next
  <2>4. order \in [1..N -> L]
    BY DEF Visits
  <2>5. /\ next \in [L -> Nat]
        /\ \A n \in L : next[n] >= old[n]
        /\ \A i \in 1..N : \A n \in L :
             n # order[i] /\ <<order[i], n>> \in edges => next[n] >= old[order[i]] + 1
    BY <2>2, <2>3, <2>4, RoundReaches
  <2>6. \A n \in P : next[n] <= height[n]
    BY <2>2, <2>3, <2>4, RoundStaysBelow
  <2>7. \A n \in L : old[n] \in Nat /\ next[n] \in Nat
    BY <2>2, <2>5
  <2>8. ASSUME NEW n \in P, next[n] # height[n] PROVE next[n] >= r + 1
    <3>1. n \in L /\ height[n] \in Nat /\ height[n] # 0
      BY <1>1, <2>6, <2>7, <2>8
    <3>2. PICK m \in P : m # n /\ <<m, n>> \in edges /\ height[n] = height[m] + 1
      BY <3>1 DEF IsHeight
    <3>3. m \in L /\ height[m] \in Nat
      BY <1>1
    <3>4. PICK i \in 1..N : order[i] = m
      BY <3>3 DEF Visits
    <3>5. next[n] >= old[m] + 1
      BY <2>5, <3>1, <3>2, <3>4
    <3>6. old[m] # height[m]
      BY <2>6, <2>7, <2>8, <3>1, <3>2, <3>3, <3>5
    <3>7. old[m] >= r
      BY <2>2, <3>6
    <3> QED
      BY <2>1, <2>7, <3>1, <3>3, <3>5, <3>7
  <2>9. Near(r + 1, next)
    BY <2>5, <2>6, <2>8
  <2> QED
    BY <2>1, <2>9 DEF next
<1>6. \A r \in 0..N : r \in Good
  <2>1. \A i \in 0..(N - 1) : i \in Good => i + 1 \in Good
    BY <1>5
  <2> HIDE DEF Good
  <2> QED
    BY <1>4, <2>1, Climb
<1> QED
  BY <1>6 DEF A

\* When there are more rounds than hops the heights are reached, and every
\* target of such a node is above it.
LEMMA RoundsSuffice ==
  ASSUME NEW edges, NEW P, NEW height, IsHeight(edges, P, height),
         NEW N \in Nat, NEW order, Visits(edges, order, N),
         \A n \in P : height[n] < N
  PROVE  /\ Layers(edges, order, N) \in [Labels(edges) -> Nat]
         /\ \A n \in P : Layers(edges, order, N)[n] = height[n]
         /\ \A m \in P, n \in Labels(edges) :
              m # n /\ <<m, n>> \in edges =>
                Layers(edges, order, N)[m] < Layers(edges, order, N)[n]
<1> DEFINE L == Labels(edges)
           A(r) == Layers(edges, order, r)
<1>1. \A n \in P : n \in L /\ height[n] \in Nat
  BY DEF IsHeight
<1>2. \A r \in 0..N :
        /\ A(r) \in [L -> Nat]
        /\ \A n \in P : A(r)[n] <= height[n] /\ (A(r)[n] = height[n] \/ A(r)[n] >= r)
  BY RoundsApproach
<1>3. \A r \in Nat : A(r + 1) = RelaxAll(edges, A(r), order)
  BY RoundsInTurn DEF Layers
<1> HIDE DEF A
<1>4. A(N) \in [L -> Nat] /\ \A n \in P : A(N)[n] = height[n]
  <2>1. N \in 0..N
    OBVIOUS
  <2>2. A(N) \in [L -> Nat] /\ \A n \in P : A(N)[n] <= height[n] /\ (A(N)[n] = height[n] \/ A(N)[n] >= N)
    BY <1>2, <2>1
  <2> QED
    BY <1>1, <2>2
<1>5. ASSUME NEW m \in P, NEW n \in L, m # n, <<m, n>> \in edges PROVE A(N)[m] < A(N)[n]
  <2>1. N - 1 \in Nat /\ N - 1 \in 0..N /\ (N - 1) + 1 = N
    BY <1>1
  <2> DEFINE old == A(N - 1)
             next == A(N)
  <2>2. next = RelaxAll(edges, old, order)
    BY <1>3, <2>1
  <2>3. old \in [L -> Nat] /\ old[m] <= height[m] /\ (old[m] = height[m] \/ old[m] >= N - 1)
    BY <1>2, <2>1
  <2>4. old[m] = height[m]
    BY <1>1, <2>1, <2>3
  <2> HIDE DEF old, next
  <2>5. order \in [1..N -> L]
    BY DEF Visits
  <2>6. PICK i \in 1..N : order[i] = m
    BY <1>1 DEF Visits
  <2>7. next[n] >= old[m] + 1 /\ next \in [L -> Nat]
    BY <1>5, <2>2, <2>3, <2>5, <2>6, RoundReaches
  <2>8. next[m] = height[m]
    BY <1>4 DEF next
  <2>9. next[n] \in Nat /\ height[m] \in Nat
    BY <1>1, <2>7
  <2>10. next[m] < next[n]
    BY <2>4, <2>7, <2>8, <2>9
  <2> QED
    BY <2>10 DEF next
<1> QED
  BY <1>4, <1>5 DEF A

----------------------------------------------------------------------------
(* Renumbering                                                             *)

\* The values in use.
Used(layer) == {layer[m] : m \in DOMAIN layer}

\* Rank leaves no gap and keeps the order.
LEMMA RankHasNoGap ==
  ASSUME NEW L, IsFiniteSet(L), NEW layer \in [L -> Nat]
  PROVE  /\ DOMAIN Rank(layer) = L
         /\ Used(Rank(layer)) = 0..(Cardinality(Used(Rank(layer))) - 1)
         /\ \A m, n \in L : layer[m] < layer[n] => Rank(layer)[m] < Rank(layer)[n]
<1> DEFINE V == Used(layer)
           below == [v \in V |-> {u \in V : u < v}]
           rank == Rank(layer)
           N == Cardinality(V)
<1>1. \A v \in V : v \in Nat
  BY DEF Used
<1>2. IsFiniteSet(V) /\ N \in Nat
  <2>1. layer \in Surjection(L, V)
    BY DEF Surjection, Used
  <2> QED
    BY <2>1, FS_Surjection, FS_CardinalityType
<1>3. \A v, u \in V : u \in below[v] <=> u < v
  OBVIOUS
<1>4. StrictOrder(V, below)
  <2>1. \A v \in V : below[v] \in SUBSET V
    OBVIOUS
  <2> HIDE DEF below, V
  <2>2. \A v \in V : v \notin below[v]
    BY <1>1, <1>3
  <2>3. \A k, l \in V : k # l => k \in below[l] \/ l \in below[k]
    BY <1>1, <1>3
  <2>4. \A k, l \in V : l \in below[k] => below[l] \subseteq below[k]
    BY <1>1, <1>3, <2>1
  <2> QED
    BY <2>1, <2>2, <2>3, <2>4 DEF StrictOrder
<1>5. \A n \in L : layer[n] \in V
  BY DEF Used
<1>6. DOMAIN rank = L /\ \A n \in L : rank[n] = Cardinality(below[layer[n]])
  BY DEF Rank, Used
<1>7. /\ \A k \in V : Cardinality(below[k]) \in 0..(N - 1)
      /\ \A k, l \in V : k \in below[l] <=> Cardinality(below[k]) < Cardinality(below[l])
      /\ \A n \in 0..(N - 1) : \E k \in V : Cardinality(below[k]) = n
  <2> HIDE DEF below, V
  <2> QED
    BY <1>2, <1>4, Ranks
<1>8. \A v \in V : \E n \in L : layer[n] = v
  BY DEF Used
<1>9. Used(rank) = {rank[n] : n \in L}
  BY <1>6 DEF Used
<1> HIDE DEF below, V, rank, N
<1>10. Used(rank) = 0..(N - 1)
  <2>1. \A n \in L : rank[n] \in 0..(N - 1)
    BY <1>5, <1>6, <1>7
  <2>2. ASSUME NEW i \in 0..(N - 1) PROVE \E n \in L : rank[n] = i
    <3>1. PICK v \in V : Cardinality(below[v]) = i
      BY <1>7
    <3>2. PICK n \in L : layer[n] = v
      BY <1>8
    <3> QED
      BY <1>6, <3>1, <3>2
  <2> QED
    BY <1>9, <2>1, <2>2
<1>11. Cardinality(0..(N - 1)) = N
  BY <1>2, FS_Interval
<1>12. \A m, n \in L : layer[m] < layer[n] => rank[m] < rank[n]
  <2> SUFFICES ASSUME NEW m \in L, NEW n \in L, layer[m] < layer[n] PROVE rank[m] < rank[n]
    OBVIOUS
  <2>1. layer[m] \in V /\ layer[n] \in V /\ layer[m] \in below[layer[n]]
    BY <1>3, <1>5
  <2> QED
    BY <1>6, <1>7, <2>1
<1> QED
  BY <1>6, <1>10, <1>11, <1>12 DEF rank

\* Where there is no gap it changes nothing.
LEMMA RankKeeps ==
  ASSUME NEW L, NEW layer \in [L -> Nat],
         \A v \in Used(layer) : v # 0 => v - 1 \in Used(layer)
  PROVE  Rank(layer) = layer
<1> DEFINE V == Used(layer)
<1>1. \A v \in V : v \in Nat
  BY DEF Used
<1>2. \A n \in L : layer[n] \in V
  BY DEF Used
<1> HIDE DEF V
<1>3. ASSUME NEW v \in V PROVE {u \in V : u < v} = 0..(v - 1)
  <2> DEFINE Good == {i \in Nat : v - i \in V}
  <2>1. v \in Nat /\ 0 \in Good
    BY <1>1, <1>3
  <2>2. ASSUME NEW i \in 0..(v - 1), i \in Good PROVE i + 1 \in Good
    <3>1. i \in Nat /\ v - i \in V /\ v - i # 0 /\ v - (i + 1) = (v - i) - 1 /\ i + 1 \in Nat
      BY <2>1, <2>2
    <3>2. (v - i) - 1 \in V
      BY <3>1 DEF V
    <3> QED
      BY <3>1, <3>2
  <2>3. \A i \in 0..v : i \in Good
    <3>1. \A i \in 0..(v - 1) : i \in Good => i + 1 \in Good
      BY <2>2
    <3> HIDE DEF Good
    <3> QED
      BY <2>1, <3>1, Climb
  <2>4. ASSUME NEW u \in 0..(v - 1) PROVE u \in V /\ u < v
    <3>1. v - u \in 0..v /\ v - (v - u) = u
      BY <2>1, <2>4
    <3>2. v - (v - u) \in V
      BY <2>3, <3>1
    <3> QED
      BY <2>1, <2>4, <3>1, <3>2
  <2>5. ASSUME NEW u \in V, u < v PROVE u \in 0..(v - 1)
    BY <1>1, <2>1, <2>5
  <2> QED
    BY <2>4, <2>5
<1>4. ASSUME NEW n \in L PROVE Rank(layer)[n] = layer[n]
  <2>1. layer[n] \in V /\ layer[n] \in Nat
    BY <1>2
  <2>2. Rank(layer)[n] = Cardinality({u \in V : u < layer[n]})
    BY DEF Rank, V, Used
  <2>3. Rank(layer)[n] = Cardinality(0..(layer[n] - 1))
    BY <1>3, <2>1, <2>2
  <2>4. Cardinality(0..(layer[n] - 1)) = layer[n]
    <3>1. ASSUME NEW k \in Nat PROVE Cardinality(0..(k - 1)) = k
      BY FS_Interval
    <3> QED
      BY <2>1, <3>1
  <2> QED
    BY <2>3, <2>4
<1>5. Rank(layer) = [n \in L |-> Rank(layer)[n]]
  BY DEF Rank
<1>6. layer = [n \in L |-> layer[n]]
  OBVIOUS
<1> QED
  BY <1>4, <1>5, <1>6

----------------------------------------------------------------------------
(* Paths                                                                   *)

\* A path of k different nodes.
IsPath(edges, k, path) ==
  /\ k \in Nat \ {0}
  /\ path \in [1..k -> Labels(edges)]
  /\ \A i, j \in 1..k : i # j => path[i] # path[j]
  /\ \A i \in 1..(k - 1) : <<path[i], path[i + 1]>> \in edges

\* A graph that is considered.
Proper(edges) == edges \in Graphs /\ IsFiniteSet(Labels(edges))

\* Paths has these and no other ones.
LEMMA PathsArePaths ==
  ASSUME NEW edges, Proper(edges)
  PROVE  /\ \A path \in Paths[edges] : IsPath(edges, Len(path), path)
         /\ \A k, path : IsPath(edges, k, path) => path \in Paths[edges] /\ Len(path) = k
<1> DEFINE L == Labels(edges)
           Sets == (SUBSET L) \ {{}}
           Linked(path) == \A i \in 1..(Len(path) - 1) : <<path[i], path[i + 1]>> \in edges
<1>1. Paths[edges] = {path \in UNION {SetToSeqs(S) : S \in Sets} : Linked(path)}
  BY DEF Paths, Proper
<1>2. ASSUME NEW path \in Paths[edges] PROVE IsPath(edges, Len(path), path)
  <2>1. PICK S \in Sets : path \in SetToSeqs(S)
    BY <1>1
  <2> DEFINE k == Cardinality(S)
  <2>2. IsFiniteSet(S) /\ k \in Nat /\ k # 0
    <3>1. IsFiniteSet(S)
      BY FS_Subset DEF Proper
    <3> QED
      BY <3>1, FS_CardinalityType, FS_EmptySet
  <2>3. path \in [1..k -> S] /\ \A i, j \in 1..k : i # j => path[i] # path[j]
    BY <2>1 DEF SetToSeqs
  <2>4. Linked(path)
    BY <1>1
  <2> HIDE DEF k
  <2>5. Len(path) = k /\ path \in [1..k -> L]
    BY <2>2, <2>3
  <2> QED
    BY <2>2, <2>3, <2>4, <2>5 DEF IsPath
<1>3. ASSUME NEW k, NEW path, IsPath(edges, k, path) PROVE path \in Paths[edges] /\ Len(path) = k
  <2> DEFINE S == {path[i] : i \in 1..k}
  <2>1. /\ k \in Nat \ {0}
        /\ path \in [1..k -> L]
        /\ \A i, j \in 1..k : i # j => path[i] # path[j]
        /\ \A i \in 1..(k - 1) : <<path[i], path[i + 1]>> \in edges
    BY <1>3 DEF IsPath
  <2>2. Len(path) = k
    BY <2>1
  <2>3. S \in SUBSET L /\ path[1] \in S
    BY <2>1
  <2>4. path \in [1..k -> S]
    BY <2>1
  <2>5. path \in Surjection(1..k, S) /\ path \in Injection(1..k, S)
    BY <2>1, <2>4 DEF Surjection, Injection, IsInjective
  <2>6. IsFiniteSet(1..k) /\ Cardinality(1..k) = k
    BY <2>1, FS_Interval
  <2> HIDE DEF S
  <2>7. Cardinality(S) = k
    BY <2>5, <2>6, FS_Surjection
  <2>8. path \in SetToSeqs(S)
    BY <2>1, <2>4, <2>7 DEF SetToSeqs
  <2>9. S \in Sets
    BY <2>3
  <2> QED
    BY <1>1, <2>1, <2>2, <2>8, <2>9
<1> QED
  BY <1>2, <1>3

\* A node alone,
LEMMA PathOfOne ==
  ASSUME NEW edges, NEW n \in Labels(edges)
  PROVE  \E path : IsPath(edges, 1, path) /\ path[1] = n
<1> DEFINE path == [i \in 1..1 |-> n]
<1>1. IsPath(edges, 1, path) /\ path[1] = n
  BY DEF IsPath
<1> HIDE DEF path
<1> QED
  BY <1>1

\* a path that goes on to a node that is not on it,
LEMMA PathGoesOn ==
  ASSUME NEW edges, NEW k, NEW path, IsPath(edges, k, path),
         NEW n \in Labels(edges), <<path[k], n>> \in edges, \A i \in 1..k : path[i] # n
  PROVE  \E longer : IsPath(edges, k + 1, longer) /\ longer[1] = path[1] /\ longer[k + 1] = n
<1> DEFINE longer == [i \in 1..(k + 1) |-> IF i = k + 1 THEN n ELSE path[i]]
<1>1. /\ k \in Nat \ {0}
      /\ path \in [1..k -> Labels(edges)]
      /\ \A i, j \in 1..k : i # j => path[i] # path[j]
      /\ \A i \in 1..(k - 1) : <<path[i], path[i + 1]>> \in edges
  BY DEF IsPath
<1>2. longer[k + 1] = n /\ \A i \in 1..k : longer[i] = path[i]
  BY <1>1
<1>3. longer \in [1..(k + 1) -> Labels(edges)]
  BY <1>1
<1> HIDE DEF longer
<1>4. \A i \in 1..(k + 1) : i = k + 1 \/ i \in 1..k
  BY <1>1
<1>5. \A i, j \in 1..(k + 1) : i # j => longer[i] # longer[j]
  BY <1>1, <1>2, <1>4
<1>6. ASSUME NEW i \in 1..((k + 1) - 1) PROVE <<longer[i], longer[i + 1]>> \in edges
  <2>1. CASE i = k
    BY <1>1, <1>2, <2>1
  <2>2. CASE i # k
    <3>1. i \in 1..(k - 1) /\ i \in 1..k /\ i + 1 \in 1..k
      BY <1>1, <2>2
    <3> QED
      BY <1>1, <1>2, <3>1
  <2> QED
    BY <2>1, <2>2
<1>7. k + 1 \in Nat \ {0} /\ 1 \in 1..k
  BY <1>1
<1>8. IsPath(edges, k + 1, longer)
  BY <1>3, <1>5, <1>6, <1>7 DEF IsPath
<1> QED
  BY <1>2, <1>7, <1>8

\* the part of a path up to one of its nodes,
LEMMA PathUpTo ==
  ASSUME NEW edges, NEW k, NEW path, IsPath(edges, k, path), NEW j \in 1..k
  PROVE  \E part : IsPath(edges, j, part) /\ part[1] = path[1] /\ part[j] = path[j]
<1> DEFINE part == [i \in 1..j |-> path[i]]
<1>1. /\ k \in Nat \ {0}
      /\ path \in [1..k -> Labels(edges)]
      /\ \A i, m \in 1..k : i # m => path[i] # path[m]
      /\ \A i \in 1..(k - 1) : <<path[i], path[i + 1]>> \in edges
  BY DEF IsPath
<1>2. j \in Nat \ {0} /\ \A i \in 1..j : i \in 1..k
  BY <1>1
<1>3. part \in [1..j -> Labels(edges)] /\ \A i \in 1..j : part[i] = path[i]
  BY <1>1, <1>2
<1>4. \A i \in 1..(j - 1) : i \in 1..(k - 1) /\ i \in 1..j /\ i + 1 \in 1..j
  BY <1>1, <1>2
<1>5. 1 \in 1..j /\ j \in 1..j
  BY <1>2
<1> HIDE DEF part
<1>6. IsPath(edges, j, part)
  BY <1>1, <1>2, <1>3, <1>4 DEF IsPath
<1> QED
  BY <1>3, <1>5, <1>6

\* and the part from there.
LEMMA PathFrom ==
  ASSUME NEW edges, NEW k, NEW path, IsPath(edges, k, path), NEW j \in 1..k
  PROVE  \E part : /\ IsPath(edges, k - j + 1, part)
                   /\ part[1] = path[j]
                   /\ part[k - j + 1] = path[k]
<1> DEFINE m == k - j + 1
           part == [i \in 1..m |-> path[i + j - 1]]
<1>1. /\ k \in Nat \ {0}
      /\ path \in [1..k -> Labels(edges)]
      /\ \A i, l \in 1..k : i # l => path[i] # path[l]
      /\ \A i \in 1..(k - 1) : <<path[i], path[i + 1]>> \in edges
  BY DEF IsPath
<1>2. m \in Nat \ {0} /\ j \in Nat /\ k \in Nat
  BY <1>1
<1>3. \A i \in 1..m : i \in Nat /\ i + j - 1 \in 1..k
  BY <1>1
<1>4. part \in [1..m -> Labels(edges)] /\ \A i \in 1..m : part[i] = path[i + j - 1]
  BY <1>1, <1>3
<1>5. \A i \in 1..(m - 1) : /\ i + j - 1 \in 1..(k - 1)
                            /\ i \in 1..m /\ i + 1 \in 1..m
                            /\ (i + 1) + j - 1 = (i + j - 1) + 1
  BY <1>1
<1>6. 1 \in 1..m /\ m \in 1..m /\ 1 + j - 1 = j /\ m + j - 1 = k
  BY <1>1, <1>2
<1> HIDE DEF part, m
<1>7. \A i, l \in 1..m : i # l => part[i] # part[l]
  <2> SUFFICES ASSUME NEW i \in 1..m, NEW l \in 1..m, i # l PROVE part[i] # part[l]
    OBVIOUS
  <2>1. i + j - 1 # l + j - 1
    BY <1>2, <1>3
  <2> QED
    BY <1>1, <1>3, <1>4, <2>1
<1>8. \A i \in 1..(m - 1) : <<part[i], part[i + 1]>> \in edges
  <2> TAKE i \in 1..(m - 1)
  <2>1. <<path[i + j - 1], path[(i + j - 1) + 1]>> \in edges
    BY <1>1, <1>5
  <2> QED
    BY <1>4, <1>5, <2>1
<1>9. IsPath(edges, m, part)
  BY <1>2, <1>4, <1>7, <1>8 DEF IsPath
<1> QED
  BY <1>4, <1>6, <1>9 DEF m

\* A path is no longer than there are nodes.
LEMMA PathsAreShort ==
  ASSUME NEW edges, IsFiniteSet(Labels(edges)), NEW k, NEW path, IsPath(edges, k, path)
  PROVE  k <= Cardinality(Labels(edges))
<1>1. k \in Nat /\ path \in Injection(1..k, Labels(edges))
  BY DEF IsPath, Injection, IsInjective
<1>2. IsFiniteSet(1..k) /\ Cardinality(1..k) = k
  BY <1>1, FS_Interval
<1> QED
  BY <1>1, <1>2, FS_Injection

----------------------------------------------------------------------------
(* Hops                                                                    *)

\* A path that starts on a cycle.
FromCycle(edges, k, path) ==
  /\ IsPath(edges, k, path)
  /\ \E l, cycle : /\ IsPath(edges, l, cycle) /\ l > 1
                   /\ cycle[1] = path[1]
                   /\ <<cycle[l], cycle[1]>> \in edges

\* A cycle leads to a node when such a path ends there.
LEMMA BehindCycleIs ==
  ASSUME NEW edges, Proper(edges), NEW n
  PROVE  BehindCycle(edges, n) <=> \E k, path : FromCycle(edges, k, path) /\ path[k] = n
<1>1. ASSUME BehindCycle(edges, n) PROVE \E k, path : FromCycle(edges, k, path) /\ path[k] = n
  <2>1. PICK path \in PathsTo(edges, n), cycle \in Paths[edges] :
          Len(cycle) > 1 /\ cycle[1] = path[1] /\ <<cycle[Len(cycle)], cycle[1]>> \in edges
    BY <1>1 DEF BehindCycle
  <2>2. path \in Paths[edges] /\ path[Len(path)] = n
    BY <2>1 DEF PathsTo
  <2>3. IsPath(edges, Len(path), path) /\ IsPath(edges, Len(cycle), cycle)
    BY <2>1, <2>2, PathsArePaths
  <2>4. FromCycle(edges, Len(path), path)
    BY <2>1, <2>3 DEF FromCycle
  <2> QED
    BY <2>2, <2>4
<1>2. ASSUME NEW k, NEW path, FromCycle(edges, k, path), path[k] = n PROVE BehindCycle(edges, n)
  <2>1. PICK l, cycle : /\ IsPath(edges, l, cycle) /\ l > 1
                        /\ cycle[1] = path[1]
                        /\ <<cycle[l], cycle[1]>> \in edges
    BY <1>2 DEF FromCycle
  <2>2. path \in Paths[edges] /\ Len(path) = k /\ cycle \in Paths[edges] /\ Len(cycle) = l
    BY <1>2, <2>1, PathsArePaths DEF FromCycle
  <2>3. path \in PathsTo(edges, n)
    BY <1>2, <2>2 DEF PathsTo
  <2> QED
    BY <2>1, <2>2, <2>3 DEF BehindCycle
<1> QED
  BY <1>1, <1>2

\* Hops is the length of the longest path.
LEMMA HopsAreLongest ==
  ASSUME NEW edges, Proper(edges), NEW n \in Labels(edges)
  PROVE  /\ Hops(edges, n) \in Nat
         /\ Hops(edges, n) < Cardinality(Labels(edges))
         /\ \E path : IsPath(edges, Hops(edges, n) + 1, path) /\ path[Hops(edges, n) + 1] = n
         /\ \A k, path : IsPath(edges, k, path) /\ path[k] = n => k - 1 <= Hops(edges, n)
<1> DEFINE L == Labels(edges)
           N == Cardinality(L)
           H == {Len(path) - 1 : path \in PathsTo(edges, n)}
           h == Hops(edges, n)
<1>1. IsFiniteSet(L) /\ N \in Nat
  BY FS_CardinalityType DEF Proper
<1>2. h = Max(H)
  BY DEF Hops
<1>3. ASSUME NEW k, NEW path, IsPath(edges, k, path), path[k] = n
      PROVE  k - 1 \in H /\ k \in Nat \ {0} /\ k <= N
  <2>1. path \in Paths[edges] /\ Len(path) = k
    BY <1>3, PathsArePaths
  <2>2. path \in PathsTo(edges, n)
    BY <1>3, <2>1 DEF PathsTo
  <2>3. k \in Nat \ {0}
    BY <1>3 DEF IsPath
  <2>4. k <= N
    BY <1>1, <1>3, PathsAreShort
  <2> QED
    BY <2>1, <2>2, <2>3, <2>4
<1>4. ASSUME NEW i \in H PROVE \E path : IsPath(edges, i + 1, path) /\ path[i + 1] = n /\ i \in 0..(N - 1)
  <2>1. PICK path \in PathsTo(edges, n) : i = Len(path) - 1
    OBVIOUS
  <2>2. path \in Paths[edges] /\ path[Len(path)] = n
    BY DEF PathsTo
  <2>3. IsPath(edges, Len(path), path)
    BY <2>2, PathsArePaths
  <2>4. Len(path) \in Nat \ {0} /\ Len(path) <= N
    BY <1>3, <2>2, <2>3
  <2>5. i + 1 = Len(path) /\ i \in 0..(N - 1)
    BY <1>1, <2>1, <2>4
  <2> QED
    BY <2>2, <2>3, <2>5
<1>5. H # {}
  <2>1. PICK path : IsPath(edges, 1, path) /\ path[1] = n
    BY PathOfOne
  <2>2. 1 - 1 \in H
    BY <1>3, <2>1
  <2> HIDE DEF H
  <2> QED
    BY <2>2
<1> HIDE DEF H, h
<1>6. IsFiniteSet(H) /\ \A i \in H : i \in Nat
  <2>1. N - 1 \in Int
    BY <1>1
  <2>2. IsFiniteSet(0..(N - 1))
    BY <2>1, FS_Interval
  <2>3. H \in SUBSET (0..(N - 1))
    BY <1>4
  <2>4. IsFiniteSet(H)
    BY <2>2, <2>3, FS_Subset
  <2> QED
    BY <2>3, <2>4
<1>7. h \in H /\ \A i \in H : h >= i
  BY <1>2, <1>5, <1>6, MaxIsLargest
<1>8. PICK longest : IsPath(edges, h + 1, longest) /\ longest[h + 1] = n /\ h \in 0..(N - 1)
  BY <1>4, <1>7
<1>9. \A k, path : IsPath(edges, k, path) /\ path[k] = n => k - 1 <= h
  BY <1>3, <1>6, <1>7
<1> QED
  BY <1>1, <1>8, <1>9 DEF h

\* Nodes that no cycle leads to,
Clear(edges) == {n \in Labels(edges) : ~BehindCycle(edges, n)}

\* and before them there are only such nodes, each at least one hop less far.
LEMMA ClearBefore ==
  ASSUME NEW edges, Proper(edges), NEW n \in Clear(edges), NEW m \in Labels(edges),
         m # n, <<m, n>> \in edges
  PROVE  m \in Clear(edges) /\ Hops(edges, n) >= Hops(edges, m) + 1
<1>1. n \in Labels(edges) /\ \A k, path : FromCycle(edges, k, path) => path[k] # n
  BY BehindCycleIs DEF Clear
<1>2. ASSUME BehindCycle(edges, m) PROVE FALSE
  <2>1. PICK k, path : FromCycle(edges, k, path) /\ path[k] = m
    BY <1>2, BehindCycleIs
  <2>2. IsPath(edges, k, path)
    BY <2>1 DEF FromCycle
  <2>3. CASE \E j \in 1..k : path[j] = n
    <3>1. PICK j \in 1..k : path[j] = n
      BY <2>3
    <3>2. PICK part : IsPath(edges, j, part) /\ part[1] = path[1] /\ part[j] = path[j]
      BY <2>2, PathUpTo
    <3>3. FromCycle(edges, j, part)
      BY <2>1, <3>2 DEF FromCycle
    <3> QED
      BY <1>1, <3>1, <3>2, <3>3
  <2>4. CASE \A j \in 1..k : path[j] # n
    <3>1. PICK longer : /\ IsPath(edges, k + 1, longer)
                        /\ longer[1] = path[1] /\ longer[k + 1] = n
      BY <1>1, <2>1, <2>2, <2>4, PathGoesOn
    <3>2. FromCycle(edges, k + 1, longer)
      BY <2>1, <3>1 DEF FromCycle
    <3> QED
      BY <1>1, <3>1, <3>2
  <2> QED
    BY <2>3, <2>4
<1>3. Hops(edges, n) >= Hops(edges, m) + 1
  <2> DEFINE k == Hops(edges, m) + 1
  <2>1. PICK path : IsPath(edges, k, path) /\ path[k] = m
    BY HopsAreLongest
  <2>2. k \in Nat \ {0} /\ Hops(edges, m) \in Nat
    BY HopsAreLongest
  <2>3. Hops(edges, n) \in Nat /\ \A l, p : IsPath(edges, l, p) /\ p[l] = n => l - 1 <= Hops(edges, n)
    BY <1>1, HopsAreLongest
  <2> HIDE DEF k
  <2>4. CASE \E j \in 1..k : path[j] = n
    <3>1. PICK j \in 1..k : path[j] = n
      BY <2>4
    <3>2. PICK cycle : /\ IsPath(edges, k - j + 1, cycle)
                       /\ cycle[1] = path[j] /\ cycle[k - j + 1] = path[k]
      BY <2>1, PathFrom
    <3>3. k - j + 1 > 1
      <4>1. j # k
        BY <2>1, <3>1
      <4> QED
        BY <2>2, <4>1
    <3>4. PICK self : IsPath(edges, 1, self) /\ self[1] = n
      BY <1>1, PathOfOne
    <3>5. FromCycle(edges, 1, self)
      BY <2>1, <3>1, <3>2, <3>3, <3>4 DEF FromCycle
    <3> QED
      BY <1>1, <3>4, <3>5
  <2>5. CASE \A j \in 1..k : path[j] # n
    <3>1. PICK longer : IsPath(edges, k + 1, longer) /\ longer[k + 1] = n
      BY <1>1, <2>1, <2>5, PathGoesOn
    <3>2. (k + 1) - 1 <= Hops(edges, n)
      BY <2>3, <3>1
    <3> QED
      BY <2>2, <2>3, <3>2 DEF k
  <2> QED
    BY <2>4, <2>5
<1> QED
  BY <1>2, <1>3 DEF Clear

\* The hops of the nodes that no cycle leads to are heights.
LEMMA HopsAreHeights ==
  ASSUME NEW edges, Proper(edges)
  PROVE  IsHeight(edges, Clear(edges), [n \in Clear(edges) |-> Hops(edges, n)])
<1> DEFINE P == Clear(edges)
           height == [n \in P |-> Hops(edges, n)]
<1>1. P \in SUBSET Labels(edges)
  BY DEF Clear
<1>2. height \in [P -> Nat] /\ \A n \in P : height[n] = Hops(edges, n)
  BY <1>1, HopsAreLongest
<1>3. ASSUME NEW n \in P, NEW m \in Labels(edges), m # n, <<m, n>> \in edges
      PROVE  m \in P /\ height[n] >= height[m] + 1
  <2>1. m \in P /\ Hops(edges, n) >= Hops(edges, m) + 1
    BY <1>3, ClearBefore
  <2> QED
    BY <1>2, <2>1
<1>4. ASSUME NEW n \in P, height[n] # 0
      PROVE  \E m \in P : m # n /\ <<m, n>> \in edges /\ height[n] = height[m] + 1
  <2> DEFINE k == Hops(edges, n)
  <2>1. n \in Labels(edges)
    BY <1>1
  <2>2. PICK path : IsPath(edges, k + 1, path) /\ path[k + 1] = n
    BY <2>1, HopsAreLongest
  <2>3. k \in Nat \ {0}
    BY <1>2, <1>4
  <2> HIDE DEF k
  <2> DEFINE m == path[k]
  <2>4. k \in 1..(k + 1) /\ k + 1 \in 1..(k + 1) /\ k # k + 1 /\ k \in 1..((k + 1) - 1)
    BY <2>3
  <2>5. m \in Labels(edges) /\ m # n /\ <<m, n>> \in edges
    BY <2>2, <2>4 DEF IsPath
  <2>6. m \in P /\ Hops(edges, n) >= Hops(edges, m) + 1
    BY <2>5, ClearBefore
  <2>7. PICK part : IsPath(edges, k, part) /\ part[k] = m
    BY <2>2, <2>4, PathUpTo
  <2>8. k - 1 <= Hops(edges, m) /\ Hops(edges, m) \in Nat
    BY <2>5, <2>7, HopsAreLongest
  <2> HIDE DEF m
  <2>9. Hops(edges, n) = Hops(edges, m) + 1
    <3>1. Hops(edges, n) = k
      BY DEF k
    <3> QED
      BY <2>3, <2>6, <2>8, <3>1
  <2> QED
    BY <1>2, <2>5, <2>6, <2>9
<1> HIDE DEF height
<1>5. IsHeight(edges, P, height)
  BY <1>1, <1>2, <1>3, <1>4 DEF IsHeight
<1> QED
  BY <1>5 DEF height

----------------------------------------------------------------------------
(* The layers of a page                                                    *)

\* An order that has every node once leaves nobody out,
LEMMA OrdersVisit ==
  ASSUME NEW edges, Proper(edges), NEW order \in SetToSeqs(Labels(edges))
  PROVE  /\ Visits(edges, order, Cardinality(Labels(edges)))
         /\ DOMAIN order = 1..Cardinality(Labels(edges))
<1> DEFINE L == Labels(edges)
           N == Cardinality(L)
<1>1. IsFiniteSet(L) /\ N \in Nat /\ N = Cardinality(L)
  BY FS_CardinalityType DEF Proper
<1>2. order \in [1..N -> L] /\ \A i, j \in 1..N : i # j => order[i] # order[j]
  BY DEF SetToSeqs
<1>3. order \in Injection(1..N, L)
  BY <1>2 DEF Injection, IsInjective
<1>4. IsFiniteSet(1..N) /\ Cardinality(1..N) = N
  BY <1>1, FS_Interval
<1> HIDE DEF N, L
<1>5. order \in Surjection(1..N, L)
  BY <1>1, <1>3, <1>4, FS_Injection
<1>6. \A n \in L : \E i \in 1..N : order[i] = n
  BY <1>5 DEF Surjection
<1> QED
  BY <1>2, <1>6 DEF Visits, L, N

\* so the layers are what as many rounds as there are nodes make of them.
LEMMA LayoutIsRounds ==
  ASSUME NEW edges, Proper(edges), NEW order \in SetToSeqs(Labels(edges))
  PROVE  AssignLayers(edges, order) = Rank(Layers(edges, order, Cardinality(Labels(edges))))
<1>1. DOMAIN order = 1..Cardinality(Labels(edges))
  BY OrdersVisit
<1> QED
  BY <1>1, FoldsAreRuns DEF Layers, After

\* Without cycles the hops leave no gap,
LEMMA HopsHaveNoGap ==
  ASSUME NEW edges, Proper(edges), NEW layer \in [Labels(edges) -> Nat],
         \A n \in Labels(edges) : n \in Clear(edges) /\ layer[n] = Hops(edges, n)
  PROVE  Rank(layer) = layer
<1> DEFINE P == Clear(edges)
           height == [n \in P |-> Hops(edges, n)]
<1>1. IsHeight(edges, P, height)
  BY HopsAreHeights
<1>2. \A n \in Labels(edges) : n \in P /\ layer[n] = height[n]
  OBVIOUS
<1> HIDE DEF height
<1>3. ASSUME NEW v \in Used(layer), v # 0 PROVE v - 1 \in Used(layer)
  <2>1. PICK n \in Labels(edges) : v = layer[n]
    BY DEF Used
  <2>2. n \in P /\ height[n] # 0
    BY <1>2, <1>3, <2>1
  <2>3. PICK m \in P : height[n] = height[m] + 1
    BY <1>1, <2>2 DEF IsHeight
  <2>4. m \in Labels(edges)
    BY DEF Clear
  <2>5. layer[m] = v - 1
    BY <1>2, <2>1, <2>3, <2>4
  <2> QED
    BY <2>4, <2>5 DEF Used
<1> QED
  BY <1>3, RankKeeps

\* and in any case no layer is left out, edges go down, and where no cycle is
\* the layers are the hops.
LEMMA LayoutsAreHops ==
  ASSUME NEW edges, Proper(edges), NEW layer \in Layouts[edges]
  PROVE  /\ DOMAIN layer = Labels(edges)
         /\ Used(layer) = 0..(Cardinality(Used(layer)) - 1)
         /\ (\A n \in Labels(edges) : n \in Clear(edges))
              => \A n \in Labels(edges) : layer[n] = Hops(edges, n)
         /\ \A m \in Clear(edges), n \in Labels(edges) :
              m # n /\ <<m, n>> \in edges => layer[m] < layer[n]
<1> DEFINE L == Labels(edges)
           N == Cardinality(L)
           P == Clear(edges)
           height == [n \in P |-> Hops(edges, n)]
<1>1. PICK order \in SetToSeqs(L) : layer = AssignLayers(edges, order)
  BY DEF Layouts, Proper
<1> DEFINE raw == Layers(edges, order, N)
<1>2. layer = Rank(raw)
  BY <1>1, LayoutIsRounds
<1>3. IsFiniteSet(L) /\ N \in Nat
  BY FS_CardinalityType DEF Proper
<1>4. IsHeight(edges, P, height) /\ \A n \in P : height[n] = Hops(edges, n)
  BY HopsAreHeights
<1>5. \A n \in P : n \in L /\ height[n] < N
  BY <1>4, HopsAreLongest DEF Clear
<1>6. Visits(edges, order, N)
  BY OrdersVisit
<1>7. /\ raw \in [L -> Nat]
      /\ \A n \in P : raw[n] = height[n]
      /\ \A m \in P, n \in L : m # n /\ <<m, n>> \in edges => raw[m] < raw[n]
  <2> HIDE DEF height, N, P
  <2> QED
    BY <1>3, <1>4, <1>5, <1>6, RoundsSuffice DEF L
<1>8. /\ DOMAIN layer = L
      /\ Used(layer) = 0..(Cardinality(Used(layer)) - 1)
      /\ \A m, n \in L : raw[m] < raw[n] => layer[m] < layer[n]
  <2> HIDE DEF raw, L
  <2> QED
    BY <1>2, <1>3, <1>7, RankHasNoGap
<1>9. ASSUME \A n \in L : n \in P PROVE \A n \in L : layer[n] = Hops(edges, n)
  <2>1. \A n \in L : n \in P /\ raw[n] = Hops(edges, n)
    BY <1>4, <1>7, <1>9
  <2> HIDE DEF raw
  <2>2. Rank(raw) = raw
    BY <1>7, <2>1, HopsHaveNoGap
  <2> QED
    BY <1>2, <2>1, <2>2
<1> HIDE DEF raw, height, N
<1> QED
  BY <1>5, <1>7, <1>8, <1>9

\* The rows of a table make a graph of finitely many nodes, and as many rows as
\* the table may have one that is considered.
LEMMA TablesAreProper ==
  ASSUME NEW list \in Seq(Kinds), NEW view
  PROVE  Proper(Edges(TopPairs(list, Selected(list, view))))
<1> DEFINE sel == Selected(list, view)
           rows == TopPairs(list, sel)
           P == PairsOf(list, sel)
           all == {<<kind.src.label, kind.dst.label>> : kind \in Kinds}
           E == Edges(rows)
           edge == [i \in DOMAIN rows |-> <<rows[i].pair.src, rows[i].pair.dst>>]
           n == Len(rows)
<1>1. /\ IsFiniteSet(sel) /\ sel \subseteq Nat /\ sel \subseteq DOMAIN list
      /\ \A i \in DOMAIN list : list[i] \in Kinds
  BY SelectedPlaces
<1>2. /\ DOMAIN rows = 1..n /\ n \in 0..TopN
      /\ \A i \in 1..n : \E k \in Range(P) : rows[i] = PairRow(list, P, k)
  <2>1. LET N == Cardinality(Range(P))
        IN  /\ N \in Nat
            /\ n = IF N <= TopN THEN N ELSE TopN
            /\ DOMAIN rows = 1..n
            /\ \A i \in 1..n : \E k \in Range(P) :
                 Standing(P, k) = i - 1 /\ rows[i] = PairRow(list, P, k)
    BY <1>1, TableRows
  <2> HIDE DEF rows, P, n
  <2>2. n \in 0..TopN
    BY <2>1, FlowSummaryAssumption
  <2> QED
    BY <2>1, <2>2
<1>3. ASSUME NEW i \in DOMAIN rows PROVE edge[i] \in all
  <2>1. PICK k \in Range(P) : rows[i] = PairRow(list, P, k)
    BY <1>2
  <2>2. rows[i].pair = k
    BY <2>1 DEF PairRow
  <2>3. PICK j \in sel : k = PairOf(list[j])
    BY DEF PairsOf, Range
  <2>4. list[j] \in Kinds /\ rows[i].pair.src = list[j].src.label /\ rows[i].pair.dst = list[j].dst.label
    BY <1>1, <2>2, <2>3 DEF PairOf
  <2> QED
    BY <2>4
<1>4. E = {edge[i] : i \in DOMAIN rows}
  BY DEF Edges
<1>5. E \in SUBSET all
  BY <1>3, <1>4
<1>6. IsFiniteSet(E) /\ Cardinality(E) \in 0..TopN
  <2> HIDE DEF rows, n
  <2>1. edge \in Surjection(1..n, E)
    BY <1>2, <1>4 DEF Surjection
  <2> HIDE DEF edge, E
  <2>2. IsFiniteSet(1..n) /\ Cardinality(1..n) = n
    BY <1>2, FS_Interval
  <2>3. IsFiniteSet(E) /\ Cardinality(E) <= n
    BY <2>1, <2>2, FS_Surjection
  <2>4. Cardinality(E) \in Nat
    BY <2>3, FS_CardinalityType
  <2> QED
    BY <1>2, <2>3, <2>4, FlowSummaryAssumption
<1>7. E \in Graphs
  <2>1. E \in kSubset(Cardinality(E), all)
    BY <1>5 DEF kSubset
  <2> HIDE DEF E
  <2> QED
    BY <1>6, <2>1 DEF Graphs
<1>8. IsFiniteSet(Labels(E))
  <2> HIDE DEF E
  <2> DEFINE ends == [e \in E |-> {e[1], e[2]}]
             both == {{e[1], e[2]} : e \in E}
  <2>1. ends \in Surjection(E, both)
    BY DEF Surjection
  <2>2. IsFiniteSet(both)
    <3> HIDE DEF ends, both
    <3> QED
      BY <1>6, <2>1, FS_Surjection
  <2>3. \A T \in both : IsFiniteSet(T)
    <3>1. ASSUME NEW x, NEW y PROVE IsFiniteSet({x, y})
      <4>1. IsFiniteSet({x}) /\ IsFiniteSet({y}) /\ {x, y} = {x} \union {y}
        BY FS_Singleton
      <4> QED
        BY <4>1, FS_Union
    <3> QED
      BY <3>1
  <2>4. IsFiniteSet(UNION both)
    <3> HIDE DEF both
    <3> QED
      BY <2>2, <2>3, FS_UNION
  <2> QED
    BY <2>4 DEF Labels
<1> QED
  BY <1>7, <1>8 DEF Proper

\* What a page that is no error shows are layers of its graph.
LayersInv ==
  page.shows # "fetch error" =>
    /\ page.layers \in Layouts[Edges(page.summary.top_pairs)]
    /\ page.shows = Shows(page.summary, page.view, page.layers)

\* Every page that is put together is such a page,
LEMMA PagesHaveLayers ==
  ASSUME NEW list, NEW view, NEW p \in PagesOf(list, view)
  PROVE  /\ p.layers \in Layouts[Edges(p.summary.top_pairs)]
         /\ p.shows = Shows(p.summary, p.view, p.layers)
<1> DEFINE summary == Summarize(list, view)
           shows(layers) == Shows(summary, view, layers)
<1>1. PICK layers \in Layouts[Edges(summary.top_pairs)] :
        p = [view |-> view, summary |-> summary, layers |-> layers, shows |-> shows(layers)]
  BY DEF PagesOf
<1> HIDE DEF summary, shows
<1>2. p.view = view /\ p.summary = summary /\ p.layers = layers /\ p.shows = shows(layers)
  BY <1>1
<1> QED
  BY <1>1, <1>2 DEF shows

\* and every page is put together, or is the error, or stays.
LEMMA LayersStep ==
  ASSUME LayersInv, [Next]_vars
  PROVE  LayersInv'
<1>1. ASSUME NEW list, NEW view, page' \in PagesOf(list, view) PROVE LayersInv'
  BY <1>1, PagesHaveLayers DEF LayersInv
<1>2. CASE Follow
  BY <1>1, <1>2 DEF Follow, Page
<1>3. CASE Home
  BY <1>1, <1>3 DEF Home, Page
<1>4. CASE Refresh
  BY <1>1, <1>4 DEF Refresh, Page
<1>5. CASE Renew
  BY <1>1, <1>5 DEF Renew
<1>6. CASE Unavailable
  BY <1>6 DEF Unavailable, ErrorPage, LayersInv
<1>7. CASE UNCHANGED vars
  BY <1>7 DEF vars, LayersInv
<1> QED
  BY <1>2, <1>3, <1>4, <1>5, <1>6, <1>7 DEF Next

\* Hence all pages are.
LEMMA LayersAlways == Spec => []LayersInv
<1>1. Init => LayersInv
  BY PagesHaveLayers DEF Init, Page, LayersInv
<1>2. LayersInv /\ [Next]_vars => LayersInv'
  BY LayersStep
<1> QED
  BY <1>1, <1>2, PTL DEF Spec

\* What a page is put together from has such a graph.
LEMMA PagesAreProper ==
  ASSUME PagesInv
  PROVE  Proper(Edges(page.summary.top_pairs))
<1>1. flows \in Seq(Kinds) /\ <<>> \in Seq(Kinds)
  <2>1. flows \in Seq(Kinds)
    BY DEF PagesInv
  <2>2. <<>> \in Seq(Kinds)
    OBVIOUS
  <2> QED
    BY <2>1, <2>2
<1>2. PICK list \in Seq(Kinds) : page.summary = Summarize(list, page.view)
  BY <1>1 DEF PagesInv
<1>3. page.summary.top_pairs = TopPairs(list, Selected(list, page.view))
  BY <1>2, SummaryParts
<1> QED
  BY <1>3, TablesAreProper

\* On such a page the layers are as they should be.
LEMMA LayersAreHopsHolds ==
  ASSUME PagesInv, LayersInv
  PROVE  LayersAreHops
<1> SUFFICES ASSUME HasRows PROVE LayersAreHops
  BY DEF LayersAreHops
<1> DEFINE edges == Edges(page.summary.top_pairs)
           layer == page.layers
           used == {layer[label] : label \in DOMAIN layer}
<1>1. Proper(edges) /\ layer \in Layouts[edges]
  BY PagesAreProper DEF LayersInv, HasRows
<1>2. used = Used(layer)
  BY DEF Used
<1> HIDE DEF edges, layer, used
<1>3. /\ DOMAIN layer = Labels(edges)
      /\ Used(layer) = 0..(Cardinality(Used(layer)) - 1)
      /\ (\A n \in Labels(edges) : n \in Clear(edges))
           => \A n \in Labels(edges) : layer[n] = Hops(edges, n)
      /\ \A m \in Clear(edges), n \in Labels(edges) :
           m # n /\ <<m, n>> \in edges => layer[m] < layer[n]
  BY <1>1, LayoutsAreHops
<1>4. (\A label \in Labels(edges) : ~BehindCycle(edges, label))
        => \A label \in Labels(edges) : layer[label] = Hops(edges, label)
  BY <1>3 DEF Clear
<1>5. ASSUME NEW edge \in edges, edge[1] # edge[2], ~BehindCycle(edges, edge[1])
      PROVE  layer[edge[1]] < layer[edge[2]]
  <2>1. edge[1] \in Labels(edges) /\ edge[2] \in Labels(edges)
    BY DEF Labels
  <2>2. edge = <<edge[1], edge[2]>>
    BY <1>1 DEF Proper, Graphs, kSubset
  <2>3. edge[1] \in Clear(edges)
    BY <1>5, <2>1 DEF Clear
  <2> QED
    BY <1>3, <1>5, <2>1, <2>2, <2>3
<1> QED
  BY <1>2, <1>3, <1>4, <1>5 DEF LayersAreHops, edges, layer, used

\* Whatever order the nodes are visited in: without cycles the layer of a node
\* is the hops of the longest way to it, edges from nodes no cycle leads to go
\* down, and no layer is left out (_assign_layers).
THEOREM LayersAreAlwaysHops == Spec => []LayersAreHops
<1>1. PagesInv /\ LayersInv => LayersAreHops
  BY LayersAreHopsHolds
<1> QED
  BY <1>1, PagesAsAddressed, LayersAlways, PTL

\* Where there are flows there are rows.
LEMMA RowsThere ==
  ASSUME NEW list \in Seq(Kinds), NEW view, Cardinality(Selected(list, view)) > 0
  PROVE  LET rows == TopPairs(list, Selected(list, view))
         IN  1 \in DOMAIN rows /\ Len(rows) \in Nat /\ Len(rows) <= TopN
<1> DEFINE sel == Selected(list, view)
           P == PairsOf(list, sel)
           rows == TopPairs(list, sel)
           keys == Range(P)
           N == Cardinality(keys)
           len == Len(rows)
           dom == DOMAIN rows
<1>1. IsFiniteSet(sel) /\ sel \subseteq Nat
  BY SelectedPlaces
<1>2. /\ DOMAIN P = sel
      /\ N \in Nat
      /\ \A k \in keys : Standing(P, k) \in 0..(N - 1)
      /\ len = IF N <= TopN THEN N ELSE TopN
      /\ dom = 1..len
  BY <1>1, TableRows
<1>3. \E k : k \in keys
  <2>1. sel # {}
    <3>1. Cardinality({}) = 0 /\ ~(0 > 0)
      BY FS_EmptySet
    <3>2. Cardinality(sel) > 0
      OBVIOUS
    <3> HIDE DEF sel
    <3> QED
      BY <3>1, <3>2
  <2>2. \A i \in DOMAIN P : P[i] \in Range(P)
    BY DEF Range
  <2> HIDE DEF P, sel
  <2> QED
    BY <1>2, <2>1, <2>2
<1> HIDE DEF P, keys, N, len, dom
<1>4. N >= 1
  BY <1>2, <1>3
<1>5. len \in 1..TopN
  BY <1>2, <1>4, FlowSummaryAssumption
<1>6. 1 \in dom /\ len \in Nat /\ len <= TopN
  BY <1>2, <1>5, FlowSummaryAssumption
<1> QED
  BY <1>6 DEF len, dom

\* With an edge there is a lowest layer, and all above it are in use.
LEMMA UsedThere ==
  ASSUME NEW edges, Proper(edges), edges # {}, NEW layer \in Layouts[edges]
  PROVE  Used(layer) = 0..Max(Used(layer))
<1> DEFINE L == Labels(edges)
           used == Used(layer)
           c == Cardinality(used)
<1>1. DOMAIN layer = L /\ used = 0..(c - 1)
  BY LayoutsAreHops
<1>2. IsFiniteSet(L) /\ L # {}
  BY DEF Proper, Labels
<1>3. used = {layer[n] : n \in L}
  BY <1>1 DEF Used
<1>4. IsFiniteSet(used) /\ c \in Nat /\ used # {}
  <2> DEFINE map == [n \in L |-> layer[n]]
  <2>1. map \in Surjection(L, used)
    BY <1>3 DEF Surjection
  <2> HIDE DEF used, map, L
  <2>2. IsFiniteSet(used)
    BY <1>2, <2>1, FS_Surjection
  <2> QED
    BY <1>2, <1>3, <2>2, FS_CardinalityType
<1> HIDE DEF used, c
<1>5. c # 0 /\ \A x \in used : x \in Nat
  BY <1>1, <1>4
<1>6. Max(used) \in used /\ \A x \in used : Max(used) >= x
  BY <1>4, <1>5, MaxIsLargest
<1>7. Max(used) = c - 1
  BY <1>1, <1>4, <1>5, <1>6
<1>8. used = 0..Max(used)
  BY <1>1, <1>7
<1> QED
  BY <1>8 DEF used

\* A diagram that has room for the whole table draws every layer.
LEMMA WholeTableIsDrawn ==
  ASSUME Len(page.summary.top_pairs) <= DiagramLimit, PagesInv, LayersInv
  PROVE  AlwaysDrawable
<1> SUFFICES ASSUME page.shows = "server error" PROVE FALSE
  BY DEF AlwaysDrawable
<1> DEFINE summary == page.summary
           rows == TopPairs(flows, Selected(flows, page.view))
           layer == page.layers
<1>1. flows \in Seq(Kinds) /\ summary = Summarize(flows, page.view)
  BY DEF PagesInv
<1>2. summary.shown = Cardinality(Selected(flows, page.view)) /\ summary.top_pairs = rows
  <2>1. /\ Summarize(flows, page.view).shown = Cardinality(Selected(flows, page.view))
        /\ Summarize(flows, page.view).top_pairs = rows
    BY SummaryParts
  <2> HIDE DEF summary, rows
  <2> QED
    BY <1>1, <2>1
<1>3. summary.shown > 0 /\ ~Drawable(summary, layer)
  BY DEF LayersInv, Shows
<1>4. 1 \in DOMAIN rows /\ Len(rows) \in Nat /\ Len(rows) <= TopN
  BY <1>1, <1>2, <1>3, RowsThere
<1>5. Proper(Edges(summary.top_pairs)) /\ layer \in Layouts[Edges(summary.top_pairs)]
  BY PagesAreProper DEF LayersInv
<1>6. DrawnRows(summary) = summary.top_pairs
  BY DEF DrawnRows, UpTo
<1> HIDE DEF rows, summary, layer
<1>7. Edges(summary.top_pairs) # {}
  BY <1>2, <1>4 DEF Edges
<1>8. Used(layer) = 0..Max(Used(layer))
  BY <1>5, <1>7, UsedThere
<1>9. DOMAIN layer = Labels(Edges(summary.top_pairs))
  BY <1>5, LayoutsAreHops
<1>10. DrawnLayers(summary, layer) = Used(layer)
  BY <1>6, <1>9 DEF DrawnLayers, Used
<1> QED
  BY <1>3, <1>8, <1>10 DEF Drawable

\* A page ends in a server error only when its table has more rows than the
\* diagram draws (limit of _flow_graph_svg): a page with fewer connections is
\* shown whatever cycles they form and whatever order the nodes are visited in,
\* since no layer of the whole table is empty (_assign_layers).
THEOREM OnlyCutTablesAreLost ==
  Spec => [](Len(page.summary.top_pairs) <= DiagramLimit => AlwaysDrawable)
<1>1. PagesInv /\ LayersInv
        => (Len(page.summary.top_pairs) <= DiagramLimit => AlwaysDrawable)
  BY WholeTableIsDrawn
<1> QED
  BY <1>1, PagesAsAddressed, LayersAlways, PTL
=============================================================================
