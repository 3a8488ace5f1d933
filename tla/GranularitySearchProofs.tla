---------------------- MODULE GranularitySearchProofs ----------------------
(***************************************************************************)
(* Theorems about GranularitySearch, for any number of functions, any tick *)
(* time and whatever the measurements say: what the walk through a list    *)
(* finds, and what the lists that pWCET.py writes keep of the last one.    *)
(***************************************************************************)
EXTENDS GranularitySearch, SequenceTheorems, FiniteSetTheorems, TLAPS

Lists == {list \in Seq(Func) : IsInjective(list)}

\* The first k functions of a list were kept by an earlier extension: they
\* come before the run of neighbours behind them and do not belong to it.
Split(list, k) ==
    /\ k \in 0..Len(list) - 1 /\ k # 1
    /\ \A p \in k + 1 .. Len(list) : list[p] = Last(list) - (Len(list) - p)
    /\ \A p \in 1..k : list[p] < list[k + 1]
    /\ k > 0 => list[k] # list[k + 1] - 1

-----------------------------------------------------------------------------
(* Sorted lists.                                                           *)

LEMMA MaxIs ==
    ASSUME NEW S \in SUBSET Int, NEW m \in S, \A x \in S : m >= x
    PROVE  Max(S) = m
<1>1. \E x \in S : \A y \in S : x >= y
  OBVIOUS
<1>2. Max(S) \in S /\ \A y \in S : Max(S) >= y
  BY <1>1, Zenon DEF Max
<1> DEFINE a == Max(S)
<1>3. a \in S /\ a >= m /\ m >= a
  BY <1>2
<1> HIDE DEF a
<1>4. a \in Int /\ m \in Int
  BY <1>3
<1>5. a = m
  BY <1>3, <1>4
<1> QED
  BY <1>5 DEF a

LEMMA IntervalSize ==
    ASSUME NEW n \in Nat
    PROVE  IsFiniteSet(1..n) /\ Cardinality(1..n) = n
BY FS_Interval

LEMMA ListShape ==
    ASSUME NEW list \in Lists
    PROVE  /\ Len(list) \in Nat /\ DOMAIN list = 1..Len(list)
           /\ list \in [1..Len(list) -> Func]
           /\ \A p, q \in 1..Len(list) : list[p] = list[q] => p = q
BY DEF Lists, IsInjective

LEMMA ListIs ==
    ASSUME NEW n \in Nat, NEW list \in [1..n -> Func],
           \A p, q \in 1..n : list[p] = list[q] => p = q
    PROVE  list \in Lists /\ Len(list) = n
<1>1. list \in Seq(Func)
  OBVIOUS
<1>2. Len(list) = n /\ DOMAIN list = 1..n
  BY <1>1
<1> QED
  BY <1>1, <1>2 DEF Lists, IsInjective

\* The first p functions of a list are p functions.
LEMMA PrefixSize ==
    ASSUME NEW list \in Lists, NEW p \in 0..Len(list)
    PROVE  /\ IsFiniteSet({list[q] : q \in 1..p})
           /\ Cardinality({list[q] : q \in 1..p}) = p
<1> DEFINE S == {list[q] : q \in 1..p}
           f == [q \in 1..p |-> list[q]]
<1>1. f \in Surjection(1..p, S) /\ f \in Injection(1..p, S)
  BY ListShape DEF Surjection, Injection, IsInjective
<1>2. IsFiniteSet(1..p) /\ Cardinality(1..p) = p
  BY ListShape, IntervalSize
<1> HIDE DEF f, S
<1>3. IsFiniteSet(S) /\ Cardinality(S) = p
  BY <1>1, <1>2, FS_Surjection
<1> QED
  BY <1>3 DEF S

LEMMA ProtectedSize ==
    ASSUME NEW list \in Lists
    PROVE  /\ IsFiniteSet(Protected(list)) /\ Cardinality(Protected(list)) = Len(list)
           /\ Protected(list) = {list[q] : q \in 1..Len(list)}
           /\ Protected(list) \subseteq Func
<1>1. Protected(list) = {list[q] : q \in 1..Len(list)}
  BY ListShape DEF Protected, Range
<1>2. Len(list) \in 0..Len(list)
  BY ListShape
<1>3. Protected(list) \subseteq Func
  BY <1>1, ListShape
<1> QED
  BY <1>1, <1>2, <1>3, PrefixSize

LEMMA RankType ==
    ASSUME NEW list \in Lists, NEW f \in Protected(list)
    PROVE  Rank(list, f) \in 1..Len(list)
<1> DEFINE R == {g \in Protected(list) : g <= f}
<1>1. IsFiniteSet(R) /\ Cardinality(R) <= Len(list) /\ Cardinality(R) \in Nat
  BY ProtectedSize, FS_Subset, FS_CardinalityType
<1>2. f \in R
  BY ProtectedSize DEF Func
<1>3. Cardinality(R) # 0
  BY <1>1, <1>2, FS_EmptySet
<1> QED
  BY <1>1, <1>3, ListShape DEF Rank

LEMMA RankGrows ==
    ASSUME NEW list \in Lists, NEW f \in Protected(list), NEW g \in Protected(list), f < g
    PROVE  Rank(list, f) < Rank(list, g)
<1> DEFINE R(x) == {h \in Protected(list) : h <= x}
<1>1. IsFiniteSet(R(f)) /\ IsFiniteSet(R(g))
  BY ProtectedSize, FS_Subset
<1>2. f \in Int /\ g \in Int /\ \A h \in Protected(list) : h \in Int
  BY ProtectedSize DEF Func
<1>3. R(f) \subseteq R(g) /\ g \in R(g) /\ g \notin R(f)
  <2>1. ASSUME NEW h \in R(f) PROVE h \in R(g)
    <3>1. h \in Protected(list) /\ h \in Int /\ h <= f
      BY <1>2
    <3>2. h <= g
      BY <1>2, <3>1
    <3> QED
      BY <3>1, <3>2
  <2>2. g \in R(g) /\ g \notin R(f)
    BY <1>2
  <2> QED
    BY <2>1, <2>2
<1>4. Cardinality(R(f)) <= Cardinality(R(g)) /\ Cardinality(R(f)) # Cardinality(R(g))
  <2>1. R(f) \in SUBSET R(g) /\ R(f) # R(g)
    BY <1>3
  <2> HIDE DEF R
  <2> QED
    BY <1>1, <2>1, FS_Subset
<1>5. Cardinality(R(f)) \in Nat /\ Cardinality(R(g)) \in Nat
  BY <1>1, FS_CardinalityType
<1> QED
  BY <1>4, <1>5 DEF Rank

\* The sorted list has the functions of the list, each at its rank.
LEMMA SortedShape ==
    ASSUME NEW list \in Lists
    PROVE  /\ Sorted(list) \in [1..Len(list) -> Protected(list)]
           /\ \A p \in 1..Len(list) : Rank(list, Sorted(list)[p]) = p
           /\ \A f \in Protected(list) : Sorted(list)[Rank(list, f)] = f
           /\ Sorted(list) \in Lists /\ Len(Sorted(list)) = Len(list)
           /\ Protected(Sorted(list)) = Protected(list)
<1> DEFINE n == Len(list)
           S == Protected(list)
           r == [f \in S |-> Rank(list, f)]
<1>1. n \in Nat /\ IsFiniteSet(S) /\ Cardinality(S) = n /\ S \subseteq Func
  BY ListShape, ProtectedSize
<1>2. \A f, g \in S : Rank(list, f) = Rank(list, g) => f = g
  <2> SUFFICES ASSUME NEW f \in S, NEW g \in S, Rank(list, f) = Rank(list, g), f # g
               PROVE  FALSE
    OBVIOUS
  <2>1. f < g \/ g < f
    BY <1>1 DEF Func
  <2>2. Rank(list, f) \in Int /\ Rank(list, g) \in Int
    BY RankType
  <2> QED
    BY <2>1, <2>2, RankGrows
<1>3. r \in Injection(S, 1..n)
  BY <1>2, RankType DEF Injection, IsInjective
<1>4. IsFiniteSet(1..n) /\ Cardinality(1..n) = n
  BY <1>1, IntervalSize
<1>5. r \in Surjection(S, 1..n)
  <2> HIDE DEF r, S, n
  <2> QED
    BY <1>1, <1>3, <1>4, FS_Injection
<1>6. \A p \in 1..n : \E f \in S : Rank(list, f) = p
  BY <1>5 DEF Surjection
<1>7. Sorted(list) = [p \in 1..n |-> CHOOSE f \in S : Rank(list, f) = p]
  BY <1>1 DEF Sorted
<1>8. \A p \in 1..n : Sorted(list)[p] \in S /\ Rank(list, Sorted(list)[p]) = p
  <2> TAKE p \in 1..n
  <2>1. Sorted(list)[p] = CHOOSE f \in S : Rank(list, f) = p
    BY <1>7
  <2> HIDE DEF S, n
  <2> QED
    BY <1>6, <2>1
<1>9. Sorted(list) \in [1..n -> S]
  BY <1>7, <1>8
<1>10. \A f \in S : Rank(list, f) \in 1..n /\ Sorted(list)[Rank(list, f)] = f
  BY <1>2, <1>8, RankType
<1>11. Sorted(list) \in Lists /\ Len(Sorted(list)) = n
  BY <1>1, <1>8, <1>9, ListIs
<1>12. Protected(Sorted(list)) = S
  <2>1. Protected(Sorted(list)) = {Sorted(list)[q] : q \in 1..n}
    BY <1>11, ProtectedSize
  <2> HIDE DEF S, n
  <2> QED
    BY <2>1, <1>8, <1>10
<1> QED
  BY <1>8, <1>9, <1>10, <1>11, <1>12

LEMMA LowestIs ==
    ASSUME NEW list \in Lists, Len(list) # 0
    PROVE  /\ Lowest(list) \in Protected(list) /\ Lowest(list) \in Func
           /\ \A f \in Protected(list) : f <= Lowest(list)
           /\ Sorted(list)[Len(list)] = Lowest(list)
<1> DEFINE n == Len(list)
           m == Sorted(list)[n]
<1>1. n \in Nat /\ n \in 1..n /\ Protected(list) \subseteq Func
  BY ListShape, ProtectedSize
<1>2. m \in Protected(list) /\ Rank(list, m) = n
  BY <1>1, SortedShape
<1>3. \A f \in Protected(list) : m >= f
  <2> SUFFICES ASSUME NEW f \in Protected(list), m < f PROVE FALSE
    BY <1>1, <1>2 DEF Func
  <2>1. Rank(list, m) < Rank(list, f)
    BY <1>2, RankGrows
  <2> QED
    BY <2>1, <1>1, <1>2, RankType
<1>4. Protected(list) \in SUBSET Int
  BY <1>1 DEF Func
<1>5. Lowest(list) = m
  BY <1>2, <1>3, <1>4, MaxIs DEF Lowest
<1> QED
  BY <1>1, <1>2, <1>3, <1>5 DEF Func

-----------------------------------------------------------------------------
(* The walk back through a list.                                           *)

LEMMA ModSmall ==
    ASSUME NEW x \in 0..N - 1
    PROVE  x % N = x
BY SearchAssumption

LEMMA SplitShape ==
    ASSUME NEW list \in Lists, NEW k, Split(list, k)
    PROVE  /\ k \in Nat /\ k # 1 /\ k < Len(list) /\ Len(list) \in Nat /\ Len(list) \in 1..Len(list)
           /\ k + 1 \in 1..Len(list)
           /\ Last(list) = list[Len(list)] /\ Last(list) \in 1..N
           /\ \A p \in 1..Len(list) : list[p] \in 1..N
           /\ \A p \in k + 1 .. Len(list) : list[p] = Last(list) - (Len(list) - p)
           /\ \A p \in 1..k : list[p] < list[k + 1]
           /\ \A p \in k + 1 .. Len(list) : list[p] = list[k + 1] + (p - (k + 1))
<1>1. k \in 0..Len(list) - 1 /\ k # 1 /\ Len(list) \in Nat
  BY ListShape DEF Split
<1>2. k \in Nat /\ k < Len(list) /\ Len(list) \in 1..Len(list) /\ k + 1 \in 1..Len(list)
  BY <1>1
<1>3. Last(list) = list[Len(list)]
  BY DEF Last
<1>4. \A p \in 1..Len(list) : list[p] \in 1..N
  BY ListShape DEF Func
<1>5. \A p \in k + 1 .. Len(list) : list[p] = Last(list) - (Len(list) - p)
  BY DEF Split
<1>6. \A p \in 1..k : list[p] < list[k + 1]
  BY DEF Split
<1>7. Last(list) \in 1..N
  BY <1>2, <1>3, <1>4
<1>8. \A p \in k + 1 .. Len(list) : list[p] = list[k + 1] + (p - (k + 1))
  <2> DEFINE l == Last(list)
             n == Len(list)
  <2>1. l \in Int /\ n \in Int /\ k \in Int
    BY <1>1, <1>2, <1>7
  <2>2. list[k + 1] = l - (n - (k + 1))
    BY <1>2, <1>5
  <2> HIDE DEF l, n
  <2> TAKE p \in k + 1 .. Len(list)
  <2>3. list[p] = l - (n - p) /\ p \in Int
    BY <1>5, <2>1 DEF l, n
  <2> QED
    BY <2>1, <2>2, <2>3
<1> QED
  BY <1>1, <1>2, <1>3, <1>4, <1>5, <1>6, <1>7, <1>8

\* getFuncListIndex stops at the last of the functions that were kept, or
\* never; the place before the first function is reached in the second case
\* only.
LEMMA WalkStops ==
    ASSUME NEW list \in Lists, NEW k, Split(list, k)
    PROVE  Kept(list) = k /\ Mismatches(list) # {1}
<1> DEFINE n == Len(list)
           l == Last(list)
<1>1. /\ k \in Nat /\ k # 1 /\ k < n /\ n \in Nat
      /\ l \in 1..N /\ N \in Nat
      /\ \A p \in 1..n : list[p] \in 1..N
      /\ \A p \in k + 1 .. n : list[p] = l - (n - p)
      /\ \A p \in 1..k : list[p] < list[k + 1]
      /\ DOMAIN list = 1..n
  BY SplitShape, ListShape, SearchAssumption
<1>2. \A p \in 1..n : WalkBack(list, p) = ((l - 1 - (n - p)) % N) + 1
  BY DEF WalkBack
<1> HIDE DEF n, l
<1>3. ASSUME NEW p \in k + 1 .. n PROVE WalkBack(list, p) = list[p]
  <2>1. p \in 1..n /\ list[p] \in 1..N /\ list[p] = l - (n - p)
    BY <1>1
  <2>2. l - 1 - (n - p) = list[p] - 1
    BY <1>1, <2>1
  <2>3. list[p] - 1 \in 0..N - 1
    BY <1>1, <2>1
  <2>4. (list[p] - 1) % N = list[p] - 1
    BY <2>3, ModSmall
  <2> QED
    BY <1>2, <2>1, <2>2, <2>4
<1>4. ASSUME k > 0 PROVE WalkBack(list, k) # list[k]
  <2>1. k \in 1..n /\ k + 1 \in k + 1 .. n /\ k + 1 \in 1..n
    BY <1>1, <1>4
  <2>2. list[k] \in 1..N /\ list[k + 1] \in 1..N /\ list[k] < list[k + 1]
        /\ list[k + 1] = l - (n - (k + 1))
    BY <1>1, <1>4, <2>1
  <2>3. l - 1 - (n - k) = list[k + 1] - 2 /\ list[k + 1] - 2 \in 0..N - 1
    BY <1>1, <2>2
  <2>4. (list[k + 1] - 2) % N = list[k + 1] - 2
    BY <2>3, ModSmall
  <2>5. WalkBack(list, k) = list[k + 1] - 1
    <3>1. WalkBack(list, k) = ((l - 1 - (n - k)) % N) + 1
      BY <1>2, <2>1
    <3>2. WalkBack(list, k) = (list[k + 1] - 2) + 1
      BY <2>3, <2>4, <3>1
    <3> QED
      BY <2>2, <3>2
  <2>6. list[k] # list[k + 1] - 1
    BY <1>4 DEF Split
  <2> QED
    BY <2>5, <2>6
<1>5. Mismatches(list) \subseteq 1..k
  <2>1. ASSUME NEW p \in Mismatches(list) PROVE p \in 1..k
    <3>1. p \in 1..n /\ list[p] # WalkBack(list, p)
      BY <1>1 DEF Mismatches
    <3>2. p \notin k + 1 .. n
      BY <1>3, <3>1
    <3> QED
      BY <1>1, <3>1, <3>2
  <2> QED
    BY <2>1
<1>6. CASE k = 0
  <2>1. Mismatches(list) = {}
    BY <1>5, <1>6
  <2> QED
    BY <2>1, <1>6 DEF Kept
<1>7. CASE k # 0
  <2>1. k > 0 /\ k \in 1..n
    BY <1>1, <1>7
  <2>2. k \in Mismatches(list)
    BY <1>1, <1>4, <2>1 DEF Mismatches
  <2>3. \A p \in Mismatches(list) : k >= p
    BY <1>5
  <2>4. Mismatches(list) \in SUBSET Int
    BY <1>1, <1>5
  <2>5. Max(Mismatches(list)) = k
    BY <2>2, <2>3, <2>4, MaxIs
  <2>6. ~ (Mismatches(list) \subseteq {1})
    BY <1>1, <2>2
  <2> QED
    BY <2>5, <2>6 DEF Kept
<1> QED
  BY <1>6, <1>7

\* Sorting moves the functions that were kept among themselves only.
LEMMA SortedSplit ==
    ASSUME NEW list \in Lists, NEW k, Split(list, k)
    PROVE  /\ \A p \in k + 1 .. Len(list) : Sorted(list)[p] = list[p]
           /\ {Sorted(list)[q] : q \in 1..k} = {list[q] : q \in 1..k}
<1> DEFINE n == Len(list)
           S == Protected(list)
           s == Sorted(list)
           Upto(p) == {list[q] : q \in 1..p}
<1>1. /\ k \in Nat /\ k < n /\ n \in Nat /\ k + 1 \in 1..n
      /\ \A p \in 1..n : list[p] \in 1..N
      /\ \A p \in k + 1 .. n : list[p] = list[k + 1] + (p - (k + 1))
      /\ \A p \in 1..k : list[p] < list[k + 1]
  BY SplitShape
<1>2. S = {list[q] : q \in 1..n} /\ S \subseteq Func
  BY ProtectedSize
<1>3. ASSUME NEW p \in k + 1 .. n PROVE Rank(list, list[p]) = p
  <2>1. p \in 1..n /\ p \in 0..n /\ list[p] = list[k + 1] + (p - (k + 1))
    BY <1>1
  <2>2. ASSUME NEW q \in 1..n PROVE list[q] <= list[p] <=> q <= p
    <3>0. list[k + 1] \in Int /\ list[q] \in Int /\ list[p] \in Int /\ q \in Int /\ p \in Int
      <4>1. list[k + 1] \in 1..N /\ list[q] \in 1..N /\ list[p] \in 1..N
        BY <1>1, <2>1
      <4> QED
        BY <2>1, <4>1
    <3>1. CASE q \in 1..k
      <4> DEFINE a == list[k + 1]
                 b == list[q]
                 c == list[p]
      <4>1. b < a
        BY <1>1, <3>1
      <4>2. c = a + (p - (k + 1)) /\ p >= k + 1 /\ q <= k /\ k \in Int
        BY <1>1, <2>1, <3>1
      <4>3. a \in Int /\ b \in Int /\ c \in Int /\ q \in Int /\ p \in Int
        BY <3>0
      <4> HIDE DEF a, b, c
      <4>4. b <= c <=> q <= p
        BY <4>1, <4>2, <4>3
      <4> QED
        BY <4>4 DEF b, c
    <3>2. CASE q \in k + 1 .. n
      <4>1. list[q] = list[k + 1] + (q - (k + 1))
        BY <1>1, <3>2
      <4> DEFINE a == list[k + 1]
                 b == list[q]
                 c == list[p]
      <4>2. b = a + (q - (k + 1)) /\ c = a + (p - (k + 1)) /\ k \in Int
        BY <1>1, <2>1, <4>1
      <4>3. a \in Int /\ b \in Int /\ c \in Int /\ q \in Int /\ p \in Int
        BY <3>0
      <4> HIDE DEF a, b, c
      <4>4. b <= c <=> q <= p
        BY <4>2, <4>3
      <4> QED
        BY <4>4 DEF b, c
    <3> QED
      BY <1>1, <3>0, <3>1, <3>2
  <2>3. {g \in S : g <= list[p]} = Upto(p)
    <3>1. ASSUME NEW g \in S, g <= list[p] PROVE g \in Upto(p)
      <4>1. PICK q \in 1..n : g = list[q]
        BY <1>2
      <4>2. q \in 1..p
        BY <1>1, <2>1, <2>2, <3>1, <4>1
      <4> QED
        BY <4>1, <4>2
    <3>2. ASSUME NEW q \in 1..p PROVE list[q] \in S /\ list[q] <= list[p]
      <4>1. q \in 1..n /\ q <= p
        BY <1>1, <2>1
      <4> QED
        BY <1>2, <2>2, <4>1
    <3> QED
      BY <3>1, <3>2
  <2>4. Cardinality(Upto(p)) = p
    BY <2>1, PrefixSize
  <2> QED
    BY <2>3, <2>4 DEF Rank
<1>4. ASSUME NEW p \in k + 1 .. n PROVE s[p] = list[p]
  <2>1. p \in 1..n
    BY <1>1
  <2>2. list[p] \in S
    BY <1>2, <2>1
  <2>3. s[Rank(list, list[p])] = list[p]
    BY <2>2, SortedShape
  <2> QED
    BY <1>3, <2>3
<1>5. ASSUME NEW p \in 1..k PROVE s[p] \in Upto(k)
  <2>1. p \in 1..n /\ p \notin k + 1 .. n
    BY <1>1
  <2>2. s[p] \in S /\ Rank(list, s[p]) = p
    BY <2>1, SortedShape
  <2>3. PICK q \in 1..n : s[p] = list[q]
    BY <1>2, <2>2
  <2>4. q \notin k + 1 .. n
    BY <1>3, <2>1, <2>2, <2>3
  <2>5. q \in 1..k
    BY <1>1, <2>4
  <2> QED
    BY <2>3, <2>5
<1>6. ASSUME NEW p \in 1..k PROVE \E q \in 1..k : s[q] = list[p]
  <2>1. p \in 1..n /\ p \notin k + 1 .. n
    BY <1>1
  <2>2. list[p] \in S
    BY <1>2, <2>1
  <2> DEFINE q == Rank(list, list[p])
  <2>3. q \in 1..n /\ s[q] = list[p]
    BY <2>2, RankType, SortedShape
  <2>4. q \notin k + 1 .. n
    <3> SUFFICES ASSUME q \in k + 1 .. n PROVE FALSE
      OBVIOUS
    <3>1. list[q] = list[p]
      BY <1>4, <2>3
    <3> HIDE DEF q
    <3>2. q = p
      BY <2>1, <2>3, <3>1, ListShape
    <3> QED
      BY <2>1, <3>2
  <2> HIDE DEF q
  <2>5. q \in 1..k
    BY <1>1, <2>3, <2>4
  <2> QED
    BY <2>3, <2>5
<1> QED
  BY <1>4, <1>5, <1>6

-----------------------------------------------------------------------------
(* The lists that pWCET.py writes.                                         *)

LEMMA FromShape ==
    ASSUME NEW t \in Nat \ {0}
    PROVE  /\ From(t) \in Lists
           /\ Len(From(t)) = IF t > N THEN 0 ELSE N - t + 1
           /\ \A p \in 1..Len(From(t)) : From(t)[p] = t + p - 1
           /\ t <= N => Split(From(t), 0)
<1> DEFINE n == IF t > N THEN 0 ELSE N - t + 1
           s == From(t)
<1>1. N \in Nat /\ t \in Nat /\ t >= 1 /\ n \in Nat
  BY SearchAssumption
<1>2. 1..(N - t + 1) = 1..n
  BY <1>1
<1>3. s = [k \in 1..n |-> t + k - 1]
  BY <1>2 DEF From
<1>4. \A k \in 1..n : t + k - 1 \in 1..N
  BY <1>1
<1>5. s \in [1..n -> Func] /\ \A p, q \in 1..n : s[p] = s[q] => p = q
  BY <1>1, <1>3, <1>4 DEF Func
<1> HIDE DEF s
<1>6. s \in Lists /\ Len(s) = n
  BY <1>1, <1>5, ListIs
<1>7. \A p \in 1..Len(s) : s[p] = t + p - 1
  BY <1>3, <1>6
<1>8. ASSUME t <= N PROVE Split(s, 0)
  <2>1. n = N - t + 1 /\ n >= 1
    BY <1>1, <1>8
  <2> HIDE DEF n
  <2>2. Last(s) = t + n - 1
    BY <1>1, <1>6, <1>7, <2>1 DEF Last
  <2>3. \A p \in 1..n : s[p] = Last(s) - (n - p)
    <3> TAKE p \in 1..n
    <3>1. s[p] = t + p - 1
      BY <1>6, <1>7
    <3> QED
      BY <1>1, <2>2, <3>1
  <2> QED
    BY <1>1, <1>6, <2>1, <2>3 DEF Split
<1> QED
  BY <1>6, <1>7, <1>8 DEF s

LEMMA PrefixShape ==
    ASSUME NEW list \in Lists, NEW m \in 0..Len(list)
    PROVE  /\ SubSeq(list, 1, m) \in Lists /\ Len(SubSeq(list, 1, m)) = m
           /\ \A p \in 1..m : SubSeq(list, 1, m)[p] = list[p]
<1> DEFINE s == SubSeq(list, 1, m)
<1>1. list \in Seq(Func) /\ Len(list) \in Nat /\ m \in Nat /\ m <= Len(list)
  BY ListShape DEF Lists
<1>2. s = [p \in 1..m |-> list[p]]
  BY <1>1
<1> HIDE DEF s
<1>3. s \in [1..m -> Func] /\ \A p, q \in 1..m : s[p] = s[q] => p = q
  BY <1>1, <1>2, ListShape
<1>4. s \in Lists /\ Len(s) = m
  BY <1>1, <1>3, ListIs
<1> QED
  BY <1>2, <1>4 DEF s

\* A prefix with a function behind the kept ones is split where the list is.
LEMMA PrefixSplit ==
    ASSUME NEW list \in Lists, NEW k, Split(list, k), NEW m \in k + 1 .. Len(list)
    PROVE  Split(SubSeq(list, 1, m), k)
<1> DEFINE s == SubSeq(list, 1, m)
           n == Len(list)
<1>1. /\ k \in Nat /\ k # 1 /\ k < n /\ n \in Nat /\ m \in Nat /\ m \in 0..n /\ m \in 1..m
      /\ k + 1 \in 1..m /\ k + 1 \in k + 1 .. n
      /\ \A p \in 1..n : list[p] \in 1..N
      /\ \A p \in k + 1 .. n : list[p] = list[k + 1] + (p - (k + 1))
      /\ \A p \in 1..k : list[p] < list[k + 1]
  BY SplitShape
<1>2. Len(s) = m /\ \A p \in 1..m : s[p] = list[p]
  BY <1>1, PrefixShape
<1>3. Last(s) = list[m]
  BY <1>1, <1>2 DEF Last
<1> HIDE DEF s, n
<1>4. \A p \in k + 1 .. m : s[p] = Last(s) - (m - p)
  <2> DEFINE a == list[k + 1]
  <2>1. a \in Int /\ list[m] = a + (m - (k + 1))
    BY <1>1
  <2> TAKE p \in k + 1 .. m
  <2>2. p \in k + 1 .. n /\ p \in 1..m /\ p \in Int
    BY <1>1
  <2>3. s[p] = list[p] /\ list[p] = a + (p - (k + 1))
    BY <1>1, <1>2, <2>2
  <2> HIDE DEF a
  <2> QED
    BY <1>1, <1>3, <2>1, <2>2, <2>3
<1>5. s[k + 1] = list[k + 1] /\ \A p \in 1..k : s[p] = list[p]
  BY <1>1, <1>2
<1>6. k > 0 => s[k] # s[k + 1] - 1
  <2>1. k > 0 => list[k] # list[k + 1] - 1
    BY DEF Split
  <2>2. k > 0 => k \in 1..k
    BY <1>1
  <2> QED
    BY <1>5, <2>1, <2>2
<1>7. \A p \in 1..k : s[p] < s[k + 1]
  BY <1>1, <1>5
<1>8. k \in 0..m - 1
  BY <1>1
<1>9. Split(s, k)
  BY <1>1, <1>2, <1>4, <1>6, <1>7, <1>8 DEF Split
<1> QED
  BY <1>9 DEF s

LEMMA JoinShape ==
    ASSUME NEW a \in Lists, NEW b \in Lists,
           \A p \in 1..Len(a), q \in 1..Len(b) : a[p] # b[q]
    PROVE  /\ a \o b \in Lists /\ Len(a \o b) = Len(a) + Len(b)
           /\ \A p \in 1..Len(a) : (a \o b)[p] = a[p]
           /\ \A p \in Len(a) + 1 .. Len(a) + Len(b) : (a \o b)[p] = b[p - Len(a)]
<1> DEFINE c == a \o b
           m == Len(a)
           n == Len(b)
<1>1. a \in Seq(Func) /\ b \in Seq(Func) /\ m \in Nat /\ n \in Nat
  BY ListShape DEF Lists
<1>2. c \in Seq(Func) /\ Len(c) = m + n
  BY <1>1
<1>3. \A p \in 1..m : c[p] = a[p]
  BY <1>1
<1>4. \A p \in m + 1 .. m + n : c[p] = b[p - m] /\ p - m \in 1..n
  BY <1>1
<1>5. /\ \A p, q \in 1..m : a[p] = a[q] => p = q
      /\ \A p, q \in 1..n : b[p] = b[q] => p = q
      /\ \A p \in 1..m, q \in 1..n : a[p] # b[q]
  BY ListShape
<1> HIDE DEF c, m, n
<1>6. \A p, q \in 1..m + n : c[p] = c[q] => p = q
  <2> SUFFICES ASSUME NEW p \in 1..m + n, NEW q \in 1..m + n, c[p] = c[q]
               PROVE  p = q
    OBVIOUS
  <2>1. CASE p \in 1..m /\ q \in 1..m
    BY <1>3, <1>5, <2>1
  <2>2. CASE p \in m + 1 .. m + n /\ q \in m + 1 .. m + n
    <3>1. p - m = q - m
      BY <1>4, <1>5, <2>2
    <3> QED
      BY <1>1, <3>1
  <2>3. CASE p \in 1..m /\ q \in m + 1 .. m + n
    BY <1>3, <1>4, <1>5, <2>3
  <2>4. CASE q \in 1..m /\ p \in m + 1 .. m + n
    BY <1>3, <1>4, <1>5, <2>4
  <2> QED
    BY <1>1, <2>1, <2>2, <2>3, <2>4
<1>7. c \in Lists
  BY <1>1, <1>2, <1>6 DEF Lists, IsInjective
<1> QED
  BY <1>2, <1>3, <1>4, <1>7 DEF c, m, n

LEMMA HalfShape ==
    ASSUME NEW list \in Lists, NEW k, Split(list, k)
    PROVE  /\ Half(list) \in Nat /\ k + Half(list) \in 0..Len(list) - 1
           /\ Half(list) = 0 => Len(list) = k + 1
<1>1. Kept(list) = k /\ k \in Nat /\ Len(list) \in Nat /\ k < Len(list)
  BY WalkStops, SplitShape
<1>2. Half(list) = (Len(list) - k) \div 2
  BY <1>1 DEF Half
<1> DEFINE d == Len(list) - k
           h == Half(list)
<1>3. d \in Nat /\ d >= 1 /\ h = d \div 2
  BY <1>1, <1>2
<1> HIDE DEF d, h
<1>4. h \in Nat /\ h <= d - 1 /\ (h = 0 => d = 1)
  BY <1>3
<1> QED
  BY <1>1, <1>4 DEF d, h

\* Whichever list the second slice is taken from, the first functions of
\* cur_unsorted stay.
LEMMA HalvedIsPrefix ==
    ASSUME NEW list \in Lists, NEW k, Split(list, k)
    PROVE  Halved(list) = SubSeq(list, 1, k + Half(list))
<1> DEFINE h == Half(list)
           n == Len(list)
           run == IF k = 0 THEN list ELSE Sorted(list)
           a == SubSeq(list, 1, k)
           b == SubSeq(run, k + 1, k + h)
<1>1. /\ Kept(list) = k /\ k \in Nat /\ n \in Nat /\ h \in Nat
      /\ k \in 0..n /\ k + h \in 0..n /\ list \in Seq(Func)
  BY WalkStops, SplitShape, HalfShape DEF Lists
<1>2. Halved(list) = a \o b
  BY <1>1 DEF Halved
<1>3. run \in Seq(Func) /\ Len(run) = n /\ \A p \in k + 1 .. n : run[p] = list[p]
  BY <1>1, SortedShape, SortedSplit DEF Lists
<1> HIDE DEF run, h, n
<1>4. a \in Seq(Func) /\ Len(a) = k /\ \A p \in 1..k : a[p] = list[p]
  BY <1>1, PrefixShape DEF Lists, n
<1>5. /\ b \in Seq(Func) /\ Len(b) = h
      /\ \A p \in 1..h : b[p] = list[k + p]
  <2>1. \A p \in k + 1 .. k + h : run[p] \in Func
    BY <1>1, <1>3
  <2>2. /\ b \in Seq(Func) /\ Len(b) = IF k + 1 <= k + h THEN (k + h) - (k + 1) + 1 ELSE 0
        /\ \A p \in 1..(k + h) - (k + 1) + 1 : b[p] = run[(k + 1) + p - 1]
    <3>1. k + 1 \in Int /\ k + h \in Int
      BY <1>1
    <3> QED
      BY <2>1, <3>1, SubSeqProperties
  <2> HIDE DEF b
  <2>3. Len(b) = h
    BY <1>1, <2>2
  <2>4. ASSUME NEW p \in 1..h PROVE b[p] = list[k + p]
    <3>1. p \in 1..(k + h) - (k + 1) + 1 /\ (k + 1) + p - 1 = k + p /\ k + p \in k + 1 .. n
      BY <1>1
    <3> QED
      BY <1>3, <2>2, <3>1
  <2> QED
    BY <2>2, <2>3, <2>4
<1> HIDE DEF a, b
<1>6. /\ a \o b \in Seq(Func) /\ Len(a \o b) = k + h
      /\ \A p \in 1..k + h : (a \o b)[p] = list[p]
  <2>1. /\ a \o b \in Seq(Func) /\ Len(a \o b) = k + h
        /\ \A p \in 1..k + h : (a \o b)[p] = IF p <= k THEN a[p] ELSE b[p - k]
    <3>1. /\ a \o b \in Seq(Func) /\ Len(a \o b) = Len(a) + Len(b)
          /\ \A p \in 1..Len(a) + Len(b) :
                (a \o b)[p] = IF p <= Len(a) THEN a[p] ELSE b[p - Len(a)]
      BY <1>4, <1>5, ConcatProperties
    <3>2. Len(a) = k /\ Len(b) = h
      BY <1>4, <1>5
    <3> QED
      BY <3>1, <3>2
  <2>2. ASSUME NEW p \in 1..k + h PROVE (a \o b)[p] = list[p]
    <3>1. CASE p <= k
      BY <1>1, <1>4, <2>1, <3>1
    <3>2. CASE ~ (p <= k)
      <4>1. p - k \in 1..h /\ k + (p - k) = p
        BY <1>1, <3>2
      <4> QED
        BY <1>5, <2>1, <3>2, <4>1
    <3> QED
      BY <3>1, <3>2
  <2> QED
    BY <2>1, <2>2
<1> DEFINE c == a \o b
           d == SubSeq(list, 1, k + h)
<1>7. /\ d \in Seq(Func) /\ Len(d) = k + h
      /\ \A p \in 1..k + h : d[p] = list[p]
  BY <1>1, PrefixShape DEF Lists, n
<1>8. c \in Seq(Func) /\ Len(c) = k + h /\ \A p \in 1..k + h : c[p] = list[p]
  BY <1>6
<1> HIDE DEF c, d
<1>9. c = d
  BY <1>7, <1>8, SeqEqual
<1> QED
  BY <1>2, <1>9 DEF c, d, h

\* The function behind the kept ones gives way to all that come after it.
LEMMA SkipShape ==
    ASSUME NEW list \in Lists, NEW k, Split(list, k),
           Half(list) = 0, list[k + 1] # N
    PROVE  /\ SkipFirst(list) \in Lists /\ Split(SkipFirst(list), k)
           /\ Len(SkipFirst(list)) \in Nat /\ Len(SkipFirst(list)) >= k
           /\ \A p \in 1..k : SkipFirst(list)[p] = list[p]
           /\ \A p \in k + 1 .. Len(SkipFirst(list)) : SkipFirst(list)[p] > list[k + 1]
<1> DEFINE f == list[k + 1]
           a == SubSeq(list, 1, k)
           b == From(f + 1)
           c == a \o b
           n == Len(list)
           m == N - f
<1>1. /\ Kept(list) = k /\ k \in Nat /\ k # 1 /\ n = k + 1 /\ N \in Nat
      /\ \A p \in 1..n : list[p] \in 1..N
      /\ \A p \in 1..k : list[p] < f
      /\ k > 0 => list[k] # f - 1
  <2>1. Kept(list) = k /\ n = k + 1
    BY WalkStops, HalfShape
  <2>2. /\ k \in Nat /\ k # 1
        /\ \A p \in 1..n : list[p] \in 1..N
        /\ \A p \in 1..k : list[p] < f
    BY SplitShape
  <2>3. k > 0 => list[k] # f - 1
    BY DEF Split
  <2>4. N \in Nat
    BY SearchAssumption
  <2> QED
    BY <2>1, <2>2, <2>3, <2>4
<1>2. f \in 1..N /\ f # N /\ m \in Nat /\ m >= 1 /\ f + 1 \in Nat \ {0} /\ k \in 0..n
  BY <1>1
<1>3. SkipFirst(list) = c
  BY <1>1 DEF SkipFirst
<1>4. a \in Lists /\ Len(a) = k /\ \A p \in 1..k : a[p] = list[p]
  BY <1>2, PrefixShape
<1>5. b \in Lists /\ Len(b) = m /\ \A p \in 1..m : b[p] = f + p
  <2>1. /\ b \in Lists /\ Len(b) = IF f + 1 > N THEN 0 ELSE N - (f + 1) + 1
        /\ \A p \in 1..Len(b) : b[p] = (f + 1) + p - 1
    BY <1>2, FromShape
  <2>2. Len(b) = m
    BY <1>1, <1>2, <2>1
  <2> HIDE DEF b
  <2>3. \A p \in 1..m : b[p] = f + p
    <3> TAKE p \in 1..m
    <3>1. b[p] = (f + 1) + p - 1
      BY <2>1, <2>2
    <3>2. f \in Int /\ m \in Int
      BY <1>2
    <3> HIDE DEF f, m
    <3> QED
      BY <3>1, <3>2
  <2> QED
    BY <2>1, <2>2, <2>3
<1> HIDE DEF a, b, n, m, f
<1>6. \A p \in 1..k, q \in 1..m : a[p] # b[q]
  <2> TAKE p \in 1..k, q \in 1..m
  <2>1. p \in 1..n /\ a[p] = list[p] /\ list[p] < f /\ b[q] = f + q
    BY <1>1, <1>4, <1>5
  <2>2. list[p] \in Int /\ f \in Int /\ q \in Int /\ q >= 1
    BY <1>1, <1>2, <2>1
  <2> DEFINE x == list[p]
  <2>3. x < f /\ x \in Int /\ a[p] = x
    BY <2>1, <2>2
  <2> HIDE DEF x
  <2> QED
    BY <2>1, <2>2, <2>3
<1>7. /\ c \in Lists /\ Len(c) = k + m
      /\ \A p \in 1..k : c[p] = a[p]
      /\ \A p \in k + 1 .. k + m : c[p] = b[p - k]
  <2>1. a \in Lists /\ b \in Lists /\ Len(a) = k /\ Len(b) = m
    BY <1>4, <1>5
  <2>2. \A p \in 1..Len(a), q \in 1..Len(b) : a[p] # b[q]
    BY <1>6, <2>1
  <2>3. /\ c \in Lists /\ Len(c) = Len(a) + Len(b)
        /\ \A p \in 1..Len(a) : c[p] = a[p]
        /\ \A p \in Len(a) + 1 .. Len(a) + Len(b) : c[p] = b[p - Len(a)]
    BY <2>1, <2>2, JoinShape
  <2> QED
    BY <2>1, <2>3
<1> HIDE DEF c
<1>8. \A p \in 1..k : c[p] = list[p]
  BY <1>4, <1>7
<1>9. ASSUME NEW p \in k + 1 .. k + m PROVE c[p] = f + (p - k)
  <2>1. p - k \in 1..m
    BY <1>1, <1>2
  <2> QED
    BY <1>5, <1>7, <2>1
<1>10. Last(c) = f + m /\ c[k + 1] = f + 1
  BY <1>1, <1>2, <1>7, <1>9 DEF Last
<1>11. Split(c, k)
  <2>1. k \in 0..Len(c) - 1 /\ k # 1
    BY <1>1, <1>2, <1>7
  <2>2. \A p \in k + 1 .. Len(c) : c[p] = Last(c) - (Len(c) - p)
    <3> TAKE p \in k + 1 .. Len(c)
    <3>1. c[p] = f + (p - k)
      BY <1>7, <1>9
    <3> QED
      BY <1>1, <1>2, <1>7, <1>10, <3>1
  <2>3. \A p \in 1..k : c[p] < c[k + 1]
    <3> TAKE p \in 1..k
    <3>1. c[p] = list[p] /\ list[p] < f /\ list[p] \in Int
      BY <1>1, <1>8
    <3> QED
      BY <1>2, <1>10, <3>1
  <2>4. k > 0 => c[k] # c[k + 1] - 1
    <3> SUFFICES ASSUME k > 0 PROVE c[k] # c[k + 1] - 1
      OBVIOUS
    <3>1. k \in 1..k /\ k \in 1..n
      BY <1>1
    <3>2. c[k] = list[k] /\ list[k] < f /\ list[k] \in Int
      BY <1>1, <1>8, <3>1
    <3> QED
      BY <1>2, <1>10, <3>2
  <2> QED
    BY <2>1, <2>2, <2>3, <2>4 DEF Split
<1>12. \A p \in k + 1 .. Len(c) : c[p] > f
  <2> TAKE p \in k + 1 .. Len(c)
  <2>1. c[p] = f + (p - k)
    BY <1>7, <1>9
  <2> QED
    BY <1>1, <1>2, <2>1
<1>13. Len(c) \in Nat /\ Len(c) >= k
  BY <1>1, <1>2, <1>7
<1> QED
  BY <1>3, <1>7, <1>8, <1>11, <1>12, <1>13 DEF f

\* The first function moved to the end.
LEMMA RotateShape ==
    ASSUME NEW s \in Lists, Len(s) # 0
    PROVE  /\ Tail(s) \o << Head(s) >> \in Lists
           /\ Len(Tail(s) \o << Head(s) >>) = Len(s)
           /\ (Tail(s) \o << Head(s) >>)[Len(s)] = s[1]
           /\ \A p \in 1..Len(s) - 1 : (Tail(s) \o << Head(s) >>)[p] = s[p + 1]
<1> DEFINE m == Len(s)
           a == Tail(s)
           b == << Head(s) >>
<1>1. /\ m \in Nat /\ m >= 1 /\ s \in Seq(Func) /\ s # << >> /\ 1 \in 1..m /\ s[1] \in Func
      /\ \A p, q \in 1..m : s[p] = s[q] => p = q
      /\ \A p \in 1..m : s[p] \in Func
  BY ListShape DEF Lists
<1>2. /\ a \in Seq(Func) /\ Len(a) = m - 1
      /\ \A p \in 1..m - 1 : a[p] = s[p + 1]
  BY <1>1, HeadTailProperties
<1>3. b = << s[1] >>
  BY <1>1
<1>4. b \in Seq(Func) /\ Len(b) = 1 /\ b[1] = s[1]
  BY <1>1, <1>3
<1>5. a \in Lists
  <2>1. \A p, q \in 1..m - 1 : a[p] = a[q] => p = q
    <3> SUFFICES ASSUME NEW p \in 1..m - 1, NEW q \in 1..m - 1, a[p] = a[q]
                 PROVE  p = q
      OBVIOUS
    <3>1. p + 1 \in 1..m /\ q + 1 \in 1..m /\ s[p + 1] = s[q + 1]
      BY <1>1, <1>2
    <3>2. p + 1 = q + 1
      BY <1>1, <3>1
    <3> QED
      BY <3>2
  <2> HIDE DEF a, m
  <2>2. m - 1 \in Nat /\ a \in [1..m - 1 -> Func]
    BY <1>1, <1>2
  <2> QED
    BY <2>1, <2>2, ListIs
<1>6. b \in Lists
  <2>1. b \in [1..1 -> Func] /\ \A p, q \in 1..1 : b[p] = b[q] => p = q
    BY <1>4
  <2> HIDE DEF b
  <2>2. 1 \in Nat
    OBVIOUS
  <2> QED
    BY <2>1, <2>2, ListIs
<1> HIDE DEF a, b, m
<1>7. \A p \in 1..Len(a), q \in 1..Len(b) : a[p] # b[q]
  <2> TAKE p \in 1..Len(a), q \in 1..Len(b)
  <2>1. p \in 1..m - 1 /\ q = 1
    BY <1>1, <1>2, <1>4
  <2>2. p + 1 \in 1..m /\ p + 1 # 1 /\ a[p] = s[p + 1] /\ b[q] = s[1]
    BY <1>1, <1>2, <1>4, <2>1
  <2> QED
    BY <1>1, <2>2
<1> DEFINE c == a \o b
<1>8. /\ c \in Lists /\ Len(c) = Len(a) + Len(b)
      /\ \A p \in 1..Len(a) : c[p] = a[p]
      /\ \A p \in Len(a) + 1 .. Len(a) + Len(b) : c[p] = b[p - Len(a)]
  BY <1>5, <1>6, <1>7, JoinShape
<1> HIDE DEF c
<1>9. Len(c) = m /\ (\A p \in 1..m - 1 : c[p] = s[p + 1]) /\ c[m] = s[1]
  <2>1. Len(c) = m
    BY <1>1, <1>2, <1>4, <1>8
  <2>2. \A p \in 1..m - 1 : c[p] = s[p + 1]
    BY <1>2, <1>8
  <2>3. m \in Len(a) + 1 .. Len(a) + Len(b) /\ m - Len(a) = 1
    BY <1>1, <1>2, <1>4
  <2>4. c[m] = b[1]
    BY <1>8, <2>3
  <2> QED
    BY <1>4, <2>1, <2>2, <2>4
<1> QED
  BY <1>8, <1>9 DEF a, b, c, m

LEMMA RotateKeeps ==
    ASSUME NEW s \in Lists, Len(s) # 0
    PROVE  Protected(Tail(s) \o << Head(s) >>) = Protected(s)
<1> DEFINE c == Tail(s) \o << Head(s) >>
           m == Len(s)
<1>1. /\ c \in Lists /\ Len(c) = m /\ m \in Nat /\ m >= 1
      /\ c[m] = s[1] /\ \A p \in 1..m - 1 : c[p] = s[p + 1]
  BY RotateShape, ListShape
<1> HIDE DEF c, m
<1>2. Protected(c) = {c[p] : p \in 1..m} /\ Protected(s) = {s[p] : p \in 1..m}
  BY <1>1, ProtectedSize DEF m
<1>3. ASSUME NEW p \in 1..m PROVE \E q \in 1..m : c[p] = s[q]
  <2>1. CASE p = m
    BY <1>1, <2>1
  <2>2. CASE p # m
    <3>1. p \in 1..m - 1 /\ p + 1 \in 1..m
      BY <1>1, <2>2
    <3> QED
      BY <1>1, <3>1
  <2> QED
    BY <2>1, <2>2
<1>4. ASSUME NEW p \in 1..m PROVE \E q \in 1..m : c[q] = s[p]
  <2>1. CASE p = 1
    BY <1>1, <2>1
  <2>2. CASE p # 1
    <3>1. p - 1 \in 1..m - 1 /\ p - 1 \in 1..m /\ (p - 1) + 1 = p
      BY <1>1, <2>2
    <3> QED
      BY <1>1, <3>1
  <2> QED
    BY <2>1, <2>2
<1>5. Protected(c) = Protected(s)
  <2> DEFINE P == Protected(c)
             Q == Protected(s)
  <2>1. P = {c[p] : p \in 1..m} /\ Q = {s[p] : p \in 1..m}
    BY <1>2
  <2> HIDE DEF P, Q
  <2>2. \A x \in P : x \in Q
    BY <1>3, <2>1
  <2>3. \A x \in Q : x \in P
    BY <1>4, <2>1
  <2>4. P = Q
    BY <2>2, <2>3
  <2> QED
    BY <2>4 DEF P, Q
<1> QED
  BY <1>5 DEF c

\* What time left adds: a list that is not empty reaches the last function,
\* is split where the old one ends, and keeps its functions.
LEMMA ExtendedShape ==
    ASSUME NEW list \in Lists, Len(list) # 0, Lowest(list) # N
    PROVE  /\ Extended(list) \in Lists
           /\ Len(Extended(list)) # 0 =>
                 /\ \E k \in 0..Len(Extended(list)) - 1 : Split(Extended(list), k)
                 /\ N \in Protected(Extended(list))
           /\ Lowest(list) # 1 => Protected(list) \subseteq Protected(Extended(list))
<1> DEFINE f == Lowest(list)
           s == Sorted(list)
           a == Tail(s) \o << Head(s) >>
           b == From(f + 1)
           c == a \o b
           m == Len(list)
           n == N - f
<1>1. /\ m \in Nat /\ m >= 1 /\ N \in Nat /\ N >= 1
      /\ f \in 1..N /\ f # N /\ n \in Nat /\ n >= 1 /\ f + 1 \in Nat \ {0}
      /\ \A g \in Protected(list) : g <= f
  BY ListShape, LowestIs, SearchAssumption DEF Func
<1>2. ASSUME NEW t \in 1..N
      PROVE  /\ From(t) \in Lists /\ Split(From(t), 0) /\ Len(From(t)) = N - t + 1
             /\ 0 \in 0..Len(From(t)) - 1
             /\ N \in Protected(From(t))
  <2>1. t \in Nat \ {0} /\ t <= N
    BY <1>1
  <2>2. /\ From(t) \in Lists /\ Split(From(t), 0) /\ Len(From(t)) = N - t + 1
        /\ \A p \in 1..Len(From(t)) : From(t)[p] = t + p - 1
    BY <1>1, <2>1, FromShape
  <2>3. N - t + 1 \in 1..Len(From(t)) /\ t + (N - t + 1) - 1 = N
    BY <1>1, <2>2
  <2>4. From(t)[N - t + 1] = N
    BY <2>2, <2>3
  <2> QED
    BY <1>1, <2>2, <2>3, <2>4, ProtectedSize
<1>3. CASE f = 1
  <2>1. Extended(list) = From(3)
    BY <1>3 DEF Extended
  <2>2. CASE 3 <= N
    <3>1. 3 \in 1..N
      BY <1>1, <2>2
    <3> QED
      BY <1>2, <1>3, <2>1, <3>1
  <2>3. CASE ~ (3 <= N)
    <3>1. 3 \in Nat \ {0} /\ 3 > N
      BY <1>1, <2>3
    <3>2. From(3) \in Lists /\ Len(From(3)) = 0
      BY <3>1, FromShape
    <3> QED
      BY <1>3, <2>1, <3>2
  <2> QED
    BY <2>2, <2>3
<1>4. CASE f # 1
  <2>1. Extended(list) = c
    BY <1>4 DEF Extended
  <2>2. /\ s \in Lists /\ Len(s) = m /\ s[m] = f /\ Protected(s) = Protected(list)
        /\ \A p \in 1..m : s[p] \in Protected(list) /\ s[p] \in Func
    BY SortedShape, LowestIs, ListShape
  <2>3. /\ a \in Lists /\ Len(a) = m /\ a[m] = s[1]
        /\ Protected(a) = Protected(list)
    <3> HIDE DEF s, m
    <3> QED
      BY <1>1, <2>2, RotateShape, RotateKeeps
  <2>4. b \in Lists /\ Len(b) = n /\ \A p \in 1..n : b[p] = f + p
    <3>1. /\ b \in Lists /\ Len(b) = IF f + 1 > N THEN 0 ELSE N - (f + 1) + 1
          /\ \A p \in 1..Len(b) : b[p] = (f + 1) + p - 1
      BY <1>1, FromShape
    <3>2. Len(b) = n
      BY <1>1, <3>1
    <3> HIDE DEF b
    <3>3. \A p \in 1..n : b[p] = f + p
      <4> TAKE p \in 1..n
      <4>1. b[p] = (f + 1) + p - 1
        BY <3>1, <3>2
      <4>2. f \in Int /\ n \in Int
        BY <1>1
      <4> HIDE DEF f, n
      <4> QED
        BY <4>1, <4>2
    <3> QED
      BY <3>1, <3>2, <3>3
  <2> HIDE DEF a, b, s
  <2>5. \A p \in 1..m : a[p] \in Int /\ a[p] <= f
    <3>1. \A p \in 1..m : a[p] \in Protected(list)
      BY <2>3, ProtectedSize
    <3> QED
      BY <1>1, <3>1, ProtectedSize DEF Func
  <2> HIDE DEF f, m, n
  <2>6. \A p \in 1..m, q \in 1..n : a[p] # b[q]
    <3> TAKE p \in 1..m, q \in 1..n
    <3>1. a[p] \in Int /\ a[p] <= f /\ b[q] = f + q
      BY <2>4, <2>5
    <3> QED
      BY <1>1, <3>1
  <2>7. /\ c \in Lists /\ Len(c) = m + n
        /\ \A p \in 1..m : c[p] = a[p]
        /\ \A p \in m + 1 .. m + n : c[p] = b[p - m]
    BY <2>3, <2>4, <2>6, JoinShape
  <2> HIDE DEF c
  <2>8. ASSUME NEW p \in m + 1 .. m + n PROVE c[p] = f + (p - m)
    <3>1. p - m \in 1..n
      BY <1>1
    <3> QED
      BY <2>4, <2>7, <3>1
  <2>9. Last(c) = N /\ m + n \in 1..m + n /\ c[m + n] = N
    <3>1. m + n \in m + 1 .. m + n /\ m + n \in 1..m + n /\ (m + n) - m = n
      BY <1>1
    <3>2. c[m + n] = f + n /\ f + n = N
      BY <1>1, <2>8, <3>1 DEF n
    <3> QED
      BY <2>7, <3>1, <3>2 DEF Last
  <2>10. N \in Protected(c)
    BY <2>7, <2>9, ProtectedSize
  <2>11. Protected(list) \subseteq Protected(c)
    <3>1. \A p \in 1..m : a[p] \in Protected(c)
      <4> TAKE p \in 1..m
      <4>1. p \in 1..m + n /\ c[p] = a[p]
        BY <1>1, <2>7
      <4> QED
        BY <2>7, <4>1, ProtectedSize
    <3>2. Protected(a) = {a[p] : p \in 1..m}
      BY <2>3, ProtectedSize
    <3> QED
      BY <2>3, <3>1, <3>2
  <2>12. ASSUME NEW k \in {0, m}, k = 0 => m = 1, k = m => m # 1
         PROVE  Split(c, k)
    <3>1. k \in 0..Len(c) - 1 /\ k # 1
      BY <1>1, <2>7, <2>12
    <3>2. \A p \in k + 1 .. Len(c) : c[p] = Last(c) - (Len(c) - p)
      <4> TAKE p \in k + 1 .. Len(c)
      <4>1. CASE p \in m + 1 .. m + n
        <5>1. c[p] = f + (p - m)
          BY <2>8, <4>1
        <5>2. f = N - n /\ n \in Int /\ f \in Int
          BY <1>1 DEF n
        <5> QED
          BY <1>1, <2>7, <2>9, <4>1, <5>1, <5>2
      <4>2. CASE p \notin m + 1 .. m + n
        <5>1. k = 0 /\ m = 1 /\ p = 1
          BY <1>1, <2>7, <2>12, <4>2
        <5>2. c[1] = f
          BY <2>2, <2>3, <2>7, <5>1
        <5>3. f = N - n /\ n \in Int /\ f \in Int
          BY <1>1 DEF n
        <5> QED
          BY <1>1, <2>7, <2>9, <5>1, <5>2, <5>3
      <4> QED
        BY <4>1, <4>2
    <3>3. ASSUME k = m
          PROVE  /\ \A p \in 1..k : c[p] < c[k + 1]
                 /\ c[k] # c[k + 1] - 1
      <4>1. m + 1 \in m + 1 .. m + n /\ (m + 1) - m = 1 /\ m \in 1..m /\ 1 \in 1..m
        BY <1>1
      <4>2. c[k + 1] = f + 1 /\ f \in Int
        BY <1>1, <2>8, <3>3, <4>1
      <4>3. \A p \in 1..k : c[p] \in Int /\ c[p] <= f
        BY <2>5, <2>7, <3>3
      <4>4. c[k] = s[1]
        BY <2>3, <2>7, <3>3, <4>1
      <4>5. s[1] # s[m]
        <5>1. m # 1
          BY <2>12, <3>3
        <5> QED
          BY <2>2, <4>1, <5>1, ListShape
      <4>6. c[k] # f
        BY <2>2, <4>4, <4>5
      <4> QED
        BY <4>2, <4>3, <4>6
    <3>4. CASE k = m
      BY <3>1, <3>2, <3>3, <3>4 DEF Split
    <3>5. CASE k = 0
      <4>1. 1..k = {}
        BY <3>5
      <4> QED
        BY <3>1, <3>2, <3>5, <4>1 DEF Split
    <3> QED
      BY <3>4, <3>5
  <2>13. \E k \in 0..Len(c) - 1 : Split(c, k)
    <3>1. CASE m = 1
      <4>1. Split(c, 0)
        BY <2>12, <3>1
      <4> QED
        BY <1>1, <2>7, <4>1
    <3>2. CASE m # 1
      <4>1. Split(c, m)
        BY <1>1, <2>12, <3>2
      <4> QED
        BY <1>1, <2>7, <4>1
    <3> QED
      BY <3>1, <3>2
  <2> QED
    BY <2>1, <2>7, <2>10, <2>11, <2>13
<1> QED
  BY <1>3, <1>4

-----------------------------------------------------------------------------
(* The search.                                                             *)

\* While the script goes on, its list is split where it was last extended.
SplitInv ==
    state \in {"listed", "measured"} /\ Len(cur) # 0 =>
        \E k \in 0..Len(cur) - 1 : Split(cur, k)

\* In the first run of the script the lists with time left do not reach the
\* last function, until the search ends.
HistInv ==
    /\ builds = 0 <=> state = "idle"
    /\ builds = 0 => histIn = {}
    /\ builds <= 1 /\ state \in {"listed", "measured"} =>
           \A S \in histIn : S # {} /\ N \notin S

SearchInv == TypeOK /\ SplitInv /\ HistInv

LEMMA EmptyLen ==
    ASSUME NEW list \in Seq(Func)
    PROVE  list # << >> <=> Len(list) # 0
OBVIOUS

LEMMA CurIsList == TypeOK => cur \in Lists
BY DEF TypeOK, Lists

LEMMA SearchInit == Init => SearchInv
<1> SUFFICES ASSUME Init PROVE SearchInv
  OBVIOUS
<1>1. cur \in Seq(Func) /\ IsInjective(cur)
  BY DEF Init, IsInjective
<1>2. 0 \in 0..MaxBuilds
  BY SearchAssumption
<1>3. TypeOK
  BY <1>1, <1>2 DEF Init, TypeOK
<1>4. SplitInv
  BY DEF Init, SplitInv
<1>5. HistInv
  BY DEF Init, HistInv
<1> QED
  BY <1>3, <1>4, <1>5 DEF SearchInv

LEMMA StartKeeps == SearchInv /\ Start => SearchInv'
<1> SUFFICES ASSUME SearchInv, Start PROVE SearchInv'
  OBVIOUS
<1>1. /\ builds \in Nat /\ builds < MaxBuilds /\ MaxBuilds \in Nat /\ builds' = builds + 1
      /\ histIn \subseteq SUBSET Func /\ histIn' = histIn
  BY SearchAssumption DEF SearchInv, TypeOK, Start
<1>2. N \in Nat /\ 1 <= N /\ 1 \in Nat \ {0}
  BY SearchAssumption
<1>3. /\ From(1) \in Lists /\ Split(From(1), 0) /\ Len(From(1)) = N
  BY <1>2, FromShape
<1>4. cur' = From(1) /\ built' = Protected(From(1)) /\ state' = "measured" /\ cost' \in [Func -> Costs]
  BY DEF Start, function_sorted
<1>5. TypeOK'
  BY <1>1, <1>3, <1>4, ProtectedSize DEF TypeOK, Lists
<1>6. SplitInv'
  <2>1. 0 \in 0..Len(cur') - 1 /\ Split(cur', 0)
    BY <1>2, <1>3, <1>4
  <2> QED
    BY <2>1 DEF SplitInv, Split
<1>7. HistInv'
  <2>1. builds' <= 1 => histIn' = {}
    BY <1>1 DEF SearchInv, HistInv
  <2> QED
    BY <1>1, <1>4, <2>1 DEF HistInv
<1> QED
  BY <1>5, <1>6, <1>7 DEF SearchInv

LEMMA CompileKeeps == SearchInv /\ Compile => SearchInv'
<1> SUFFICES ASSUME SearchInv, Compile PROVE SearchInv'
  OBVIOUS
<1>1. cur \in Lists /\ cur' = cur /\ state = "listed" /\ state' = "measured"
  BY CurIsList DEF SearchInv, Compile
<1>2. built' \subseteq Func
  BY <1>1, ProtectedSize DEF Compile
<1>3. TypeOK'
  BY <1>1, <1>2 DEF SearchInv, TypeOK, Compile
<1>4. SplitInv'
  BY <1>1 DEF SearchInv, SplitInv
<1>5. HistInv'
  BY <1>1 DEF SearchInv, HistInv, Compile
<1> QED
  BY <1>3, <1>4, <1>5 DEF SearchInv

LEMMA ExceptionKeeps == SearchInv /\ Exception => SearchInv'
<1> SUFFICES ASSUME SearchInv, Exception PROVE SearchInv'
  OBVIOUS
<1>1. state = "measured" /\ state' = "ended"
  BY DEF Exception, Measured
<1>2. TypeOK'
  BY <1>1 DEF SearchInv, TypeOK, Exception
<1>3. SplitInv' /\ HistInv'
  BY <1>1 DEF SearchInv, SplitInv, HistInv, Exception
<1> QED
  BY <1>2, <1>3 DEF SearchInv

\* An answer that ends the search has to be a list, nothing more.
LEMMA EndKeeps ==
    ASSUME SearchInv, Measured, NEW list \in Lists, NEW next \in {"final", "ended"},
           Write(list, next), histIn' \subseteq SUBSET Func
    PROVE  SearchInv'
<1>1. state = "measured" /\ state' = next /\ builds' = builds /\ cur' = list
      /\ cost' = cost /\ built' = built
  BY DEF Measured, Write
<1>2. builds # 0
  BY <1>1 DEF SearchInv, HistInv
<1>3. TypeOK'
  BY <1>1 DEF SearchInv, TypeOK, Lists
<1>4. SplitInv' /\ HistInv'
  BY <1>1, <1>2 DEF SplitInv, HistInv
<1> QED
  BY <1>3, <1>4 DEF SearchInv

\* An answer that goes on has to be a list that is split.
LEMMA GoOnKeeps ==
    ASSUME SearchInv, Measured, NEW list \in Lists, Write(list, "listed"),
           Len(list) # 0 => \E k \in 0..Len(list) - 1 : Split(list, k),
           histIn' \subseteq SUBSET Func,
           \A S \in histIn' : S \in histIn \/ (S # {} /\ N \notin S)
    PROVE  SearchInv'
<1>1. state = "measured" /\ state' = "listed" /\ builds' = builds /\ cur' = list
      /\ cost' = cost /\ built' = built
  BY DEF Measured, Write
<1>2. builds # 0
  BY <1>1 DEF SearchInv, HistInv
<1>3. TypeOK'
  BY <1>1 DEF SearchInv, TypeOK, Lists
<1>4. SplitInv'
  BY <1>1 DEF SplitInv, Split
<1>5. HistInv'
  <2>1. builds <= 1 => \A S \in histIn : S # {} /\ N \notin S
    BY <1>1 DEF SearchInv, HistInv
  <2> QED
    BY <1>1, <1>2, <2>1 DEF HistInv
<1> QED
  BY <1>3, <1>4, <1>5 DEF SearchInv

LEMMA AnswerFitsKeeps == SearchInv /\ AnswerFits => SearchInv'
<1> SUFFICES ASSUME SearchInv, AnswerFits PROVE SearchInv'
  OBVIOUS
<1>1. cur \in Lists /\ Sorted(cur) \in Lists
  BY CurIsList, SortedShape DEF SearchInv
<1>2. Measured /\ Write(Sorted(cur), "final") /\ histIn' \subseteq SUBSET Func
  BY DEF AnswerFits, SearchInv, TypeOK
<1> QED
  BY <1>1, <1>2, EndKeeps

\* The lists with time left are those that are read, never an empty one.
LEMMA HistGrows ==
    ASSUME SearchInv, cur # << >>, histIn' = histIn \cup {Protected(cur)}
    PROVE  /\ cur \in Lists /\ Len(cur) # 0
           /\ histIn' \subseteq SUBSET Func
           /\ \A S \in histIn' : S \in histIn \/ S = Protected(cur)
           /\ Lowest(cur) \in Protected(cur)
           /\ Lowest(cur) # N => N \notin Protected(cur)
<1>1. cur \in Lists /\ Len(cur) # 0
  BY CurIsList, EmptyLen DEF SearchInv, Lists
<1>2. Protected(cur) \subseteq Func /\ histIn \subseteq SUBSET Func
  BY <1>1, ProtectedSize DEF SearchInv, TypeOK
<1>3. /\ Lowest(cur) \in Protected(cur) /\ Lowest(cur) \in Func
      /\ \A f \in Protected(cur) : f <= Lowest(cur)
  BY <1>1, LowestIs
<1>4. Lowest(cur) # N => N \notin Protected(cur)
  BY <1>3, SearchAssumption DEF Func
<1> QED
  BY <1>1, <1>2, <1>3, <1>4

LEMMA InFullKeeps == SearchInv /\ InFull => SearchInv'
<1> SUFFICES ASSUME SearchInv, InFull PROVE SearchInv'
  OBVIOUS
<1>1. cur # << >> /\ Measured /\ Write(Sorted(cur), "ended") /\ histIn' = histIn \cup {Protected(cur)}
  BY DEF InFull, AnswerIn
<1>2. cur \in Lists /\ histIn' \subseteq SUBSET Func
  BY <1>1, HistGrows
<1>3. Sorted(cur) \in Lists
  BY <1>2, SortedShape
<1> QED
  BY <1>1, <1>2, <1>3, EndKeeps

LEMMA InKnownKeeps == SearchInv /\ InKnown => SearchInv'
<1> SUFFICES ASSUME SearchInv, InKnown PROVE SearchInv'
  OBVIOUS
<1>1. /\ cur # << >> /\ Measured /\ Write(Extended(cur), "ended") /\ Lowest(cur) # N
      /\ histIn' = histIn \cup {Protected(cur)}
  BY DEF InKnown, AnswerIn
<1>2. cur \in Lists /\ Len(cur) # 0 /\ histIn' \subseteq SUBSET Func
  BY <1>1, HistGrows
<1>3. Extended(cur) \in Lists
  BY <1>1, <1>2, ExtendedShape
<1> QED
  BY <1>1, <1>2, <1>3, EndKeeps

LEMMA InMoreKeeps == SearchInv /\ InMore => SearchInv'
<1> SUFFICES ASSUME SearchInv, InMore PROVE SearchInv'
  OBVIOUS
<1>1. /\ cur # << >> /\ Measured /\ Write(Extended(cur), "listed") /\ Lowest(cur) # N
      /\ histIn' = histIn \cup {Protected(cur)}
  BY DEF InMore, AnswerIn
<1>2. /\ cur \in Lists /\ Len(cur) # 0 /\ histIn' \subseteq SUBSET Func
      /\ \A S \in histIn' : S \in histIn \/ S = Protected(cur)
      /\ Lowest(cur) \in Protected(cur)
      /\ N \notin Protected(cur)
  BY <1>1, HistGrows
<1>3. /\ Extended(cur) \in Lists
      /\ Len(Extended(cur)) # 0 =>
            \E k \in 0..Len(Extended(cur)) - 1 : Split(Extended(cur), k)
  BY <1>1, <1>2, ExtendedShape
<1>4. \A S \in histIn' : S \in histIn \/ (S # {} /\ N \notin S)
  BY <1>2
<1> QED
  BY <1>1, <1>2, <1>3, <1>4, GoOnKeeps

\* The split that an answer of 'out' works on.
LEMMA OutSplit ==
    ASSUME SearchInv, Measured, cur # << >>
    PROVE  cur \in Lists /\ \E k \in 0..Len(cur) - 1 : Split(cur, k)
BY CurIsList, EmptyLen DEF SearchInv, SplitInv, Measured, Lists

LEMMA HalfOfNone == Half(<< >>) = 0
<1>1. Mismatches(<< >>) = {}
  BY DEF Mismatches
<1>2. Kept(<< >>) = 0
  BY <1>1 DEF Kept
<1>3. Len(<< >>) = 0
  OBVIOUS
<1> QED
  BY <1>2, <1>3 DEF Half

LEMMA OutHalfList ==
    ASSUME SearchInv, OutHalf
    PROVE  /\ cur \in Lists
           /\ \E k \in 0..Len(cur) - 1 :
                 /\ Split(cur, k) /\ k + Half(cur) \in k + 1 .. Len(cur) - 1
                 /\ Halved(cur) = SubSeq(cur, 1, k + Half(cur))
<1>1. cur # << >> /\ Measured /\ Half(cur) > 0
  BY HalfOfNone DEF OutHalf, AnswerOut
<1>2. PICK k \in 0..Len(cur) - 1 : Split(cur, k)
  BY <1>1, OutSplit
<1>3. cur \in Lists
  BY <1>1, OutSplit
<1>4. Half(cur) \in Nat /\ k + Half(cur) \in 0..Len(cur) - 1
  BY <1>2, <1>3, HalfShape
<1>5. Halved(cur) = SubSeq(cur, 1, k + Half(cur))
  BY <1>2, <1>3, HalvedIsPrefix
<1>6. k + Half(cur) \in k + 1 .. Len(cur) - 1
  BY <1>1, <1>2, <1>4
<1> QED
  BY <1>2, <1>3, <1>5, <1>6

LEMMA OutHalfKeeps == SearchInv /\ OutHalf => SearchInv'
<1> SUFFICES ASSUME SearchInv, OutHalf PROVE SearchInv'
  OBVIOUS
<1>1. Measured /\ Write(Halved(cur), "listed") /\ histIn' = histIn
  BY DEF OutHalf, AnswerOut
<1>2. PICK k \in 0..Len(cur) - 1 :
          /\ Split(cur, k) /\ k + Half(cur) \in k + 1 .. Len(cur) - 1
          /\ Halved(cur) = SubSeq(cur, 1, k + Half(cur))
  BY OutHalfList
<1> DEFINE m == k + Half(cur)
           s == SubSeq(cur, 1, m)
<1>3. cur \in Lists /\ Len(cur) \in Nat /\ k \in Nat
  BY <1>2, OutHalfList, ListShape
<1>4. m \in k + 1 .. Len(cur) /\ m \in 0..Len(cur) /\ m \in Nat /\ m >= k + 1
  BY <1>2, <1>3
<1> HIDE DEF m
<1>5. s \in Lists /\ Len(s) = m
  BY <1>3, <1>4, PrefixShape
<1>6. Split(s, k)
  BY <1>2, <1>3, <1>4, PrefixSplit
<1>7. k \in 0..Len(s) - 1
  BY <1>3, <1>4, <1>5
<1>8. Halved(cur) = s
  BY <1>2 DEF m
<1>9. histIn' \subseteq SUBSET Func
  BY <1>1 DEF SearchInv, TypeOK
<1> HIDE DEF s
<1> QED
  BY <1>1, <1>5, <1>6, <1>7, <1>8, <1>9, GoOnKeeps

LEMMA OutNextList ==
    ASSUME SearchInv, OutNext
    PROVE  /\ cur \in Lists
           /\ \E k \in 0..Len(cur) - 1 : Split(cur, k) /\ Half(cur) = 0 /\ cur[k + 1] # N
<1>1. cur # << >> /\ Measured /\ Half(cur) = 0 /\ cur[Kept(cur) + 1] # N
  BY DEF OutNext, AnswerOut
<1>2. PICK k \in 0..Len(cur) - 1 : Split(cur, k)
  BY <1>1, OutSplit
<1>3. cur \in Lists
  BY <1>1, OutSplit
<1>4. Kept(cur) = k
  BY <1>2, <1>3, WalkStops
<1> QED
  BY <1>1, <1>2, <1>3, <1>4

LEMMA OutNextKeeps == SearchInv /\ OutNext => SearchInv'
<1> SUFFICES ASSUME SearchInv, OutNext PROVE SearchInv'
  OBVIOUS
<1>1. Measured /\ Write(SkipFirst(cur), "listed") /\ histIn' = histIn
  BY DEF OutNext, AnswerOut
<1>2. cur \in Lists
  BY OutNextList
<1>3. PICK k \in 0..Len(cur) - 1 : Split(cur, k) /\ Half(cur) = 0 /\ cur[k + 1] # N
  BY OutNextList
<1>4. SkipFirst(cur) \in Lists /\ Split(SkipFirst(cur), k)
  BY <1>2, <1>3, SkipShape
<1>5. k \in 0..Len(SkipFirst(cur)) - 1
  BY <1>4 DEF Split
<1>6. histIn' \subseteq SUBSET Func
  BY <1>1 DEF SearchInv, TypeOK
<1> QED
  BY <1>1, <1>4, <1>5, <1>6, GoOnKeeps

LEMMA OutLastList ==
    ASSUME SearchInv, OutLast
    PROVE  /\ cur \in Lists
           /\ \E k \in 0..Len(cur) - 1 : Split(cur, k) /\ Kept(cur) = k
<1>1. cur # << >> /\ Measured
  BY DEF OutLast, AnswerOut
<1>2. PICK k \in 0..Len(cur) - 1 : Split(cur, k)
  BY <1>1, OutSplit
<1>3. cur \in Lists
  BY <1>1, OutSplit
<1> QED
  BY <1>2, <1>3, WalkStops

LEMMA OutLastKeeps == SearchInv /\ OutLast => SearchInv'
<1> SUFFICES ASSUME SearchInv, OutLast PROVE SearchInv'
  OBVIOUS
<1>1. Measured /\ Write(SubSeq(cur, 1, Kept(cur)), "ended") /\ histIn' = histIn
  BY DEF OutLast, AnswerOut
<1>2. cur \in Lists
  BY OutLastList
<1>3. PICK k \in 0..Len(cur) - 1 : Split(cur, k) /\ Kept(cur) = k
  BY OutLastList
<1>4. k \in 0..Len(cur)
  BY <1>2, <1>3, ListShape
<1>5. SubSeq(cur, 1, Kept(cur)) \in Lists
  BY <1>2, <1>3, <1>4, PrefixShape
<1>6. histIn' \subseteq SUBSET Func
  BY <1>1 DEF SearchInv, TypeOK
<1> QED
  BY <1>1, <1>5, <1>6, EndKeeps

LEMMA SearchStep == SearchInv /\ [Next]_vars => SearchInv'
<1>1. SearchInv /\ UNCHANGED vars => SearchInv'
  BY DEF vars, SearchInv, TypeOK, SplitInv, HistInv
<1> QED
  BY <1>1, StartKeeps, CompileKeeps, ExceptionKeeps, AnswerFitsKeeps, InFullKeeps,
     InKnownKeeps, InMoreKeeps, OutHalfKeeps, OutNextKeeps, OutLastKeeps
     DEF Next, Step, InStep, OutStep

\* pWCET.py 208-228 and 439-659 under compile_program.sh 106-222: the
\* inductive invariant of the search.
THEOREM SearchKept == Spec => []SearchInv
BY SearchInit, SearchStep, PTL DEF Spec

-----------------------------------------------------------------------------

\* pWCET.py 512-617: every list names functions of the JSON files, each once.
THEOREM TypeCorrect == Spec => []TypeOK
<1>1. SearchInv => TypeOK
  BY DEF SearchInv
<1> QED
  BY <1>1, SearchKept, PTL

\* pWCET.py 221-228, 614: behind the functions that getFuncListIndex keeps is
\* a run of neighbours, and sorting leaves both apart.
THEOREM WalkIsRight == Spec => []WalkFindsRun
<1>1. SearchInv => WalkFindsRun
  <2> SUFFICES ASSUME SearchInv, cur # << >>, state \in {"listed", "measured"}
               PROVE  /\ Mismatches(cur) # {1}
                      /\ Protected(SubSeq(cur, 1, Kept(cur))) =
                             Protected(SubSeq(Sorted(cur), 1, Kept(cur)))
                      /\ \A p \in Kept(cur) + 1 .. Len(cur) - 1 : cur[p + 1] = cur[p] + 1
    BY DEF WalkFindsRun
  <2>1. cur \in Lists /\ Len(cur) # 0
    BY CurIsList, EmptyLen DEF SearchInv, Lists
  <2>2. PICK k \in 0..Len(cur) - 1 : Split(cur, k)
    BY <2>1 DEF SearchInv, SplitInv
  <2>3. Kept(cur) = k /\ Mismatches(cur) # {1}
    BY <2>1, <2>2, WalkStops
  <2>4. k \in 0..Len(cur) /\ k \in Nat /\ Len(cur) \in Nat
    BY <2>1, <2>2, ListShape
  <2>5. Protected(SubSeq(cur, 1, k)) = Protected(SubSeq(Sorted(cur), 1, k))
    <3> DEFINE a == SubSeq(cur, 1, k)
               b == SubSeq(Sorted(cur), 1, k)
    <3>1. a \in Lists /\ Len(a) = k /\ \A p \in 1..k : a[p] = cur[p]
      BY <2>1, <2>4, PrefixShape
    <3>2. Sorted(cur) \in Lists /\ Len(Sorted(cur)) = Len(cur)
      BY <2>1, SortedShape
    <3>3. b \in Lists /\ Len(b) = k /\ \A p \in 1..k : b[p] = Sorted(cur)[p]
      BY <2>4, <3>2, PrefixShape
    <3>4. {Sorted(cur)[q] : q \in 1..k} = {cur[q] : q \in 1..k}
      BY <2>1, <2>2, SortedSplit
    <3> HIDE DEF a, b
    <3>5. Protected(a) = {a[q] : q \in 1..k} /\ Protected(b) = {b[q] : q \in 1..k}
      BY <3>1, <3>3, ProtectedSize
    <3>6. {a[q] : q \in 1..k} = {cur[q] : q \in 1..k}
      BY <3>1
    <3>7. {b[q] : q \in 1..k} = {Sorted(cur)[q] : q \in 1..k}
      BY <3>3
    <3>8. Protected(a) = Protected(b)
      BY <3>4, <3>5, <3>6, <3>7
    <3> QED
      BY <3>8 DEF a, b
  <2>6. ASSUME NEW p \in k + 1 .. Len(cur) - 1 PROVE cur[p + 1] = cur[p] + 1
    <3>0. /\ \A q \in k + 1 .. Len(cur) : cur[q] = cur[k + 1] + (q - (k + 1))
          /\ \A q \in 1..Len(cur) : cur[q] \in 1..N
          /\ k + 1 \in 1..Len(cur)
      BY <2>1, <2>2, SplitShape
    <3>1. /\ \A q \in k + 1 .. Len(cur) : cur[q] = cur[k + 1] + (q - (k + 1))
          /\ cur[k + 1] \in Int
      BY <3>0
    <3>2. p \in k + 1 .. Len(cur) /\ p + 1 \in k + 1 .. Len(cur) /\ p \in Int
      BY <2>4
    <3>3. cur[p] = cur[k + 1] + (p - (k + 1)) /\ cur[p + 1] = cur[k + 1] + ((p + 1) - (k + 1))
      BY <3>1, <3>2
    <3> DEFINE a == cur[p]
               b == cur[p + 1]
               c == cur[k + 1]
    <3>4. a = c + (p - (k + 1)) /\ b = c + ((p + 1) - (k + 1))
      BY <3>3
    <3>5. c \in Int /\ p \in Int /\ k \in Int
      BY <2>4, <3>1, <3>2
    <3> HIDE DEF a, b, c
    <3>6. b = a + 1
      BY <3>4, <3>5
    <3> QED
      BY <3>6 DEF a, b
  <2> QED
    BY <2>3, <2>5, <2>6
<1> QED
  BY <1>1, SearchKept, PTL

\* pWCET.py 550-556: the history ends a search only with a list of an earlier
\* run of the script.
THEOREM HistoryIsOld == Spec => KnownOnlyFromBefore
<1>1. SearchInv /\ [Next]_vars => [InKnown => builds > 1]_vars
  <2> SUFFICES ASSUME SearchInv, InKnown PROVE builds > 1
    OBVIOUS
  <2>1. /\ cur # << >> /\ Measured /\ Lowest(cur) # N
        /\ Protected(Extended(cur)) \in histIn
    BY DEF InKnown, AnswerIn
  <2>2. cur \in Lists /\ Len(cur) # 0
    BY <2>1, CurIsList, EmptyLen DEF SearchInv, Lists
  <2>3. /\ Extended(cur) \in Lists
        /\ Len(Extended(cur)) # 0 => N \in Protected(Extended(cur))
    BY <2>1, <2>2, ExtendedShape
  <2>4. Len(Extended(cur)) = 0 => Protected(Extended(cur)) = {}
    <3>1. Protected(Extended(cur)) = {Extended(cur)[q] : q \in 1..Len(Extended(cur))}
      BY <2>3, ProtectedSize
    <3> QED
      BY <3>1
  <2>5. ~ (\A S \in histIn : S # {} /\ N \notin S)
    BY <2>1, <2>3, <2>4
  <2>6. builds \in Nat /\ ~ (builds <= 1)
    BY <2>1, <2>5, SearchAssumption DEF SearchInv, HistInv, TypeOK, Measured
  <2> QED
    BY <2>6
<1> QED
  BY <1>1, SearchKept, PTL DEF Spec, KnownOnlyFromBefore

\* pWCET.py 527-548: time left never costs a function its protection, except
\* where the list is the first function alone.
THEOREM NoneLost == Spec => SlackKeepsAll
<1>1. SearchInv /\ [Next]_vars =>
          [InStep /\ cur # << 1 >> => Protected(cur) \subseteq Protected(cur')]_vars
  <2> SUFFICES ASSUME SearchInv, InStep, cur # << 1 >>
               PROVE  Protected(cur) \subseteq Protected(cur')
    OBVIOUS
  <2>1. cur # << >>
    BY DEF InStep, InFull, InKnown, InMore
  <2>2. cur \in Lists /\ Len(cur) # 0
    BY <2>1, CurIsList, EmptyLen DEF SearchInv, Lists
  <2>3. CASE cur' = Sorted(cur)
    BY <2>2, <2>3, SortedShape
  <2>4. CASE cur' = Extended(cur) /\ Lowest(cur) # N
    <3>1. Lowest(cur) # 1
      <4> SUFFICES ASSUME Lowest(cur) = 1 PROVE FALSE
        OBVIOUS
      <4>1. \A f \in Protected(cur) : f = 1
        BY <2>2, LowestIs, ProtectedSize DEF Func
      <4>2. \A p \in 1..Len(cur) : cur[p] \in Protected(cur)
        BY <2>2, ProtectedSize
      <4>3. \A p \in 1..Len(cur) : cur[p] = 1
        BY <4>1, <4>2
      <4>4. Len(cur) \in Nat /\ \A p, q \in 1..Len(cur) : p = q
        BY <2>2, <4>3, ListShape
      <4>5. Len(cur) = 1
        <5>1. 1 \in 1..Len(cur) /\ Len(cur) \in 1..Len(cur)
          BY <2>2, <4>4
        <5> QED
          BY <4>4, <5>1
      <4>6. cur = << 1 >>
        <5>1. cur \in Seq(Func) /\ << 1 >> \in Seq(Func)
          <6>1. 1 \in Func
            BY SearchAssumption DEF Func
          <6> QED
            BY <2>2, <6>1 DEF Lists
        <5>2. Len(<< 1 >>) = 1 /\ << 1 >>[1] = 1
          OBVIOUS
        <5>3. cur[1] = 1
          BY <4>3, <4>5
        <5> QED
          BY <4>5, <5>1, <5>2, <5>3, SeqEqual
      <4> QED
        BY <4>6
    <3> QED
      BY <2>2, <2>4, <3>1, ExtendedShape
  <2> QED
    BY <2>3, <2>4 DEF InStep, InFull, InKnown, InMore, AnswerIn, Write
<1> QED
  BY <1>1, SearchKept, PTL DEF Spec, SlackKeepsAll

\* pWCET.py 573-617: too late always makes room, and only for functions of a
\* lower priority than the first that goes.
THEOREM LateMakesRoom == Spec => LateMovesDown
<1> DEFINE Down(k) == /\ SubSeq(cur, 1, k) = SubSeq(cur', 1, k)
                      /\ \A p \in k + 1 .. Len(cur') : cur'[p] > cur[k + 1]
<1>1. ASSUME NEW a \in Lists, NEW b \in Lists, NEW k \in Nat, k <= Len(a), k <= Len(b),
             \A p \in 1..k : a[p] = b[p]
      PROVE  SubSeq(a, 1, k) = SubSeq(b, 1, k)
  <2> DEFINE c == SubSeq(a, 1, k)
             d == SubSeq(b, 1, k)
  <2>1. k \in 0..Len(a) /\ k \in 0..Len(b)
    BY <1>1, ListShape
  <2>2. c \in Seq(Func) /\ Len(c) = k /\ \A p \in 1..k : c[p] = a[p]
    BY <2>1, PrefixShape DEF Lists
  <2>3. d \in Seq(Func) /\ Len(d) = k /\ \A p \in 1..k : d[p] = b[p]
    BY <2>1, PrefixShape DEF Lists
  <2> HIDE DEF c, d
  <2>4. c = d
    BY <1>1, <2>2, <2>3, SeqEqual
  <2> QED
    BY <2>4 DEF c, d
<1>2. ASSUME SearchInv, OutHalf PROVE \E k \in 0..Len(cur) - 1 : Down(k)
  <2>1. PICK k \in 0..Len(cur) - 1 :
            /\ Split(cur, k) /\ k + Half(cur) \in k + 1 .. Len(cur) - 1
            /\ Halved(cur) = SubSeq(cur, 1, k + Half(cur))
    BY <1>2, OutHalfList
  <2> DEFINE m == k + Half(cur)
  <2>2. cur \in Lists /\ Len(cur) \in Nat /\ m \in Nat /\ m \in 0..Len(cur) /\ m \in 0..Len(cur) - 1
    BY <1>2, <2>1, OutHalfList, ListShape
  <2>3. cur' = SubSeq(cur, 1, m)
    BY <1>2, <2>1 DEF OutHalf, AnswerOut, Write
  <2> HIDE DEF m
  <2>4. cur' \in Lists /\ Len(cur') = m /\ \A p \in 1..m : cur'[p] = cur[p]
    BY <2>2, <2>3, PrefixShape
  <2>5. SubSeq(cur, 1, m) = SubSeq(cur', 1, m)
    BY <1>1, <2>2, <2>4
  <2>6. m + 1 .. Len(cur') = {}
    BY <2>2, <2>4
  <2> QED
    BY <2>2, <2>5, <2>6
<1>3. ASSUME SearchInv, OutNext PROVE \E k \in 0..Len(cur) - 1 : Down(k)
  <2>1. cur \in Lists
    BY <1>3, OutNextList
  <2>2. PICK k \in 0..Len(cur) - 1 : Split(cur, k) /\ Half(cur) = 0 /\ cur[k + 1] # N
    BY <1>3, OutNextList
  <2>3. cur' = SkipFirst(cur)
    BY <1>3 DEF OutNext, AnswerOut, Write
  <2>4. /\ cur' \in Lists /\ k <= Len(cur')
        /\ \A p \in 1..k : cur[p] = cur'[p]
        /\ \A p \in k + 1 .. Len(cur') : cur'[p] > cur[k + 1]
    BY <2>1, <2>2, <2>3, SkipShape
  <2>5. k \in Nat /\ k <= Len(cur)
    BY <2>1, <2>2, SplitShape
  <2>6. SubSeq(cur, 1, k) = SubSeq(cur', 1, k)
    BY <1>1, <2>1, <2>4, <2>5
  <2> QED
    BY <2>2, <2>4, <2>6
<1>4. ASSUME SearchInv, OutLast PROVE \E k \in 0..Len(cur) - 1 : Down(k)
  <2>1. cur \in Lists
    BY <1>4, OutLastList
  <2>2. PICK k \in 0..Len(cur) - 1 : Split(cur, k) /\ Kept(cur) = k
    BY <1>4, OutLastList
  <2>3. cur' = SubSeq(cur, 1, k)
    BY <1>4, <2>2 DEF OutLast, AnswerOut, Write
  <2>4. k \in Nat /\ Len(cur) \in Nat /\ k \in 0..Len(cur)
    BY <2>1, <2>2, SplitShape
  <2>5. cur' \in Lists /\ Len(cur') = k /\ \A p \in 1..k : cur'[p] = cur[p]
    BY <2>1, <2>3, <2>4, PrefixShape
  <2>6. SubSeq(cur, 1, k) = SubSeq(cur', 1, k)
    BY <1>1, <2>1, <2>4, <2>5
  <2>7. k + 1 .. Len(cur') = {}
    BY <2>4, <2>5
  <2> QED
    BY <2>2, <2>6, <2>7
<1>5. SearchInv /\ [Next]_vars => [OutStep => \E k \in 0..Len(cur) - 1 : Down(k)]_vars
  BY <1>2, <1>3, <1>4 DEF OutStep
<1> QED
  BY <1>5, SearchKept, PTL DEF Spec, LateMovesDown

-----------------------------------------------------------------------------
(* Why the search ends when it is too late for ever, or never: the facts   *)
(* about single steps behind EndsUnlessAlternating.                        *)

\* How far a list that is too late can still go: first the first function
\* behind the kept ones moves on, and between two such steps the list shrinks.
Distance(list) == (N + 1) * (N - list[Kept(list) + 1]) + Len(list)

LEMMA LenBound ==
    ASSUME NEW list \in Lists
    PROVE  Len(list) \in 0..N
<1>1. IsFiniteSet(Func) /\ Cardinality(Func) = N
  BY IntervalSize, SearchAssumption DEF Func
<1>2. Cardinality(Protected(list)) = Len(list) /\ Protected(list) \in SUBSET Func
  BY ProtectedSize
<1>3. Cardinality(Protected(list)) <= N
  BY <1>1, <1>2, FS_Subset
<1> QED
  BY <1>2, <1>3, ListShape, SearchAssumption

LEMMA DistanceIs ==
    ASSUME NEW list \in Lists, NEW k, Split(list, k)
    PROVE  /\ Distance(list) = (N + 1) * (N - list[k + 1]) + Len(list)
           /\ Distance(list) \in Nat
<1>1. Kept(list) = k
  BY WalkStops
<1>2. list[k + 1] \in 1..N /\ Len(list) \in Nat /\ N \in Nat
  BY SplitShape, SearchAssumption
<1>3. Distance(list) = (N + 1) * (N - list[k + 1]) + Len(list)
  BY <1>1 DEF Distance
<1> DEFINE x == N - list[k + 1]
           n == Len(list)
<1>4. x \in Nat /\ n \in Nat /\ N + 1 \in Nat /\ Distance(list) = (N + 1) * x + n
  BY <1>2, <1>3
<1> HIDE DEF x, n
<1>5. (N + 1) * x + n \in Nat
  BY <1>4
<1> QED
  BY <1>3, <1>4, <1>5

\* pWCET.py 573-617: a list that is too late and not the last gives way to one
\* from which fewer answers of 'out' can follow.
THEOREM LateStepsDescend ==
    Spec => [][OutHalf \/ OutNext =>
                   /\ Distance(cur) \in Nat /\ Distance(cur') \in Nat
                   /\ Distance(cur') < Distance(cur)]_vars
<1>1. ASSUME SearchInv, OutHalf
      PROVE  /\ Distance(cur) \in Nat /\ Distance(cur') \in Nat
             /\ Distance(cur') < Distance(cur)
  <2>1. PICK k \in 0..Len(cur) - 1 :
            /\ Split(cur, k) /\ k + Half(cur) \in k + 1 .. Len(cur) - 1
            /\ Halved(cur) = SubSeq(cur, 1, k + Half(cur))
    BY <1>1, OutHalfList
  <2> DEFINE m == k + Half(cur)
             d == SubSeq(cur, 1, m)
  <2>2. cur \in Lists /\ Len(cur) \in Nat /\ k \in Nat
    BY <1>1, <2>1, OutHalfList, ListShape
  <2>3. /\ m \in 0..Len(cur) /\ m \in k + 1 .. Len(cur) /\ m \in Nat /\ m < Len(cur)
        /\ k + 1 \in 1..m
    BY <2>1, <2>2
  <2>4. cur' = d
    BY <1>1, <2>1 DEF OutHalf, AnswerOut, Write
  <2> HIDE DEF m
  <2>5. d \in Lists /\ Len(d) = m /\ d[k + 1] = cur[k + 1]
    BY <2>2, <2>3, PrefixShape
  <2>6. Split(d, k)
    BY <2>1, <2>2, <2>3, PrefixSplit
  <2>7. /\ Distance(cur) = (N + 1) * (N - cur[k + 1]) + Len(cur)
        /\ Distance(cur) \in Nat
    BY <2>1, <2>2, DistanceIs
  <2> HIDE DEF d
  <2>8. /\ Distance(d) = (N + 1) * (N - cur[k + 1]) + m
        /\ Distance(d) \in Nat
    BY <2>5, <2>6, DistanceIs
  <2> DEFINE x == (N + 1) * (N - cur[k + 1])
  <2>9. Distance(cur) = x + Len(cur) /\ Distance(d) = x + m
    BY <2>7, <2>8
  <2>10. x \in Int
    BY <2>1, <2>2, SplitShape, SearchAssumption
  <2> HIDE DEF x
  <2>11. Distance(d) < Distance(cur)
    BY <2>2, <2>3, <2>9, <2>10
  <2> QED
    BY <2>4, <2>7, <2>8, <2>11
<1>2. ASSUME SearchInv, OutNext
      PROVE  /\ Distance(cur) \in Nat /\ Distance(cur') \in Nat
             /\ Distance(cur') < Distance(cur)
  <2>1. cur \in Lists
    BY <1>2, OutNextList
  <2>2. PICK k \in 0..Len(cur) - 1 : Split(cur, k) /\ Half(cur) = 0 /\ cur[k + 1] # N
    BY <1>2, OutNextList
  <2> DEFINE d == SkipFirst(cur)
             f == cur[k + 1]
             g == d[k + 1]
  <2>3. cur' = d
    BY <1>2 DEF OutNext, AnswerOut, Write
  <2>4. /\ d \in Lists /\ Split(d, k)
        /\ \A p \in k + 1 .. Len(d) : d[p] > f
    BY <2>1, <2>2, SkipShape
  <2> HIDE DEF d
  <2>5. Len(cur) \in Nat /\ Len(d) \in Nat /\ Len(d) <= N /\ N \in Nat
    BY <2>1, <2>4, LenBound, SearchAssumption
  <2>6. k + 1 \in k + 1 .. Len(d) /\ k + 1 \in 1..Len(d) /\ k + 1 \in 1..Len(cur)
    BY <2>1, <2>2, <2>4, <2>5, SplitShape
  <2>7. g > f /\ f \in 1..N /\ g \in 1..N
    BY <2>1, <2>4, <2>6, ListShape DEF Func
  <2>8. Distance(cur) = (N + 1) * (N - f) + Len(cur) /\ Distance(cur) \in Nat
    BY <2>1, <2>2, DistanceIs
  <2>9. Distance(d) = (N + 1) * (N - g) + Len(d) /\ Distance(d) \in Nat
    BY <2>4, DistanceIs
  <2> DEFINE x == N - f
             y == N - g
  <2>10. x \in Nat /\ y \in Nat /\ y + 1 <= x
    BY <2>5, <2>7
  <2>11. Distance(cur) = (N + 1) * x + Len(cur) /\ Distance(d) = (N + 1) * y + Len(d)
    BY <2>8, <2>9
  <2> HIDE DEF f, g, x, y
  <2>12. (N + 1) * (y + 1) = (N + 1) * y + (N + 1)
    BY <2>5, <2>10
  <2>13. (N + 1) * (y + 1) <= (N + 1) * x
    BY <2>5, <2>10
  <2>14. (N + 1) * x \in Int /\ (N + 1) * y \in Int
    BY <2>5, <2>10
  <2>15. (N + 1) * y + (N + 1) <= (N + 1) * x
    BY <2>12, <2>13
  <2>16. Distance(d) < Distance(cur)
    <3> DEFINE u == (N + 1) * x
               v == (N + 1) * y
    <3>1. u \in Int /\ v \in Int /\ v + (N + 1) <= u
      BY <2>14, <2>15
    <3>2. Distance(cur) = u + Len(cur) /\ Distance(d) = v + Len(d)
      BY <2>11
    <3> HIDE DEF u, v
    <3> QED
      BY <2>5, <3>1, <3>2
  <2> QED
    BY <2>3, <2>8, <2>9, <2>16
<1>3. SearchInv /\ [Next]_vars =>
          [OutHalf \/ OutNext => /\ Distance(cur) \in Nat /\ Distance(cur') \in Nat
                                 /\ Distance(cur') < Distance(cur)]_vars
  BY <1>1, <1>2
<1> QED
  BY <1>3, SearchKept, PTL DEF Spec

\* pWCET.py 527-548: a list that is extended has the last function, so that a
\* second answer of 'in' to it ends the search, or no function at all, which
\* ends it too.
THEOREM SlackReachesLast ==
    Spec => [][InKnown \/ InMore => cur' = << >> \/ Lowest(cur') = N]_vars
<1>1. SearchInv /\ [Next]_vars => [InKnown \/ InMore => cur' = << >> \/ Lowest(cur') = N]_vars
  <2> SUFFICES ASSUME SearchInv, InKnown \/ InMore, cur' # << >>
               PROVE  Lowest(cur') = N
    OBVIOUS
  <2>1. cur # << >> /\ Lowest(cur) # N /\ cur' = Extended(cur)
    BY DEF InKnown, InMore, AnswerIn, Write
  <2>2. cur \in Lists /\ Len(cur) # 0
    BY <2>1, CurIsList, EmptyLen DEF SearchInv, Lists
  <2> DEFINE d == Extended(cur)
  <2>3. d \in Lists /\ (Len(d) # 0 => N \in Protected(d))
    BY <2>1, <2>2, ExtendedShape
  <2>4. d # << >>
    BY <2>1
  <2> HIDE DEF d
  <2>5. Len(d) # 0
    BY <2>3, <2>4, EmptyLen DEF Lists
  <2>6. Lowest(d) \in Func /\ N <= Lowest(d)
    BY <2>3, <2>5, LowestIs
  <2>7. Lowest(d) = N
    BY <2>6, SearchAssumption DEF Func
  <2> QED
    BY <2>1, <2>7 DEF d
<1> QED
  BY <1>1, SearchKept, PTL DEF Spec

=============================================================================
